------------------------------- MODULE Interp -------------------------------
(* The interpreter's instructions (runtime/interp.c, step in system mode):  *)
(* decoding, effective addresses, the order of the bus accesses and what    *)
(* each instruction leaves in the registers.  A byte is W bits here and     *)
(* every width, wrap and sign bit follows from it.  s is the CPU, P its set *)
(* of flags; in holds the values an execution meets: arg (operand bytes),   *)
(* ptr (what a pointer in memory holds), val (the datum read, pulled or     *)
(* immediate) and fl (a status byte read or pulled, as a set of flags).     *)
EXTENDS Integers, Sequences, SequencesExt, Bitwise

CONSTANT W
ASSUME WAssumption == W \in Nat \ {0, 1}

Byte  == 2 ^ W
Word  == Byte * Byte
Long  == Word * Byte
Flags == {"n", "v", "m", "x", "d", "i", "z", "c"}

Lo(v) == v % Byte
Hi(v) == (v \div Byte) % Byte
Size(wide)    == IF wide THEN Word ELSE Byte
Sign(v, wide) == (v \div (Size(wide) \div 2)) % 2 = 1
Flag(P, f, on) == IF on THEN P \cup {f} ELSE P \ {f}
Carry(P) == IF "c" \in P THEN 1 ELSE 0
Wide(s, f) == f \notin s.P              \* 16-bit accumulator ("m") or index ("x")
nz(P, v, wide) == Flag(Flag(P, "n", Sign(v, wide)), "z", v % Size(wide) = 0)

(* Bus accesses: an operand fetch, a read, a write. *)
O(n)    == [i \in 1..n |-> [k |-> "O", a |-> 0, v |-> 0]]
R(a)    == [k |-> "R", a |-> a, v |-> 0]
Wt(a, v) == [k |-> "W", a |-> a, v |-> v]

-----------------------------------------------------------------------------
(* Decoding: opcode -> <<mnemonic, mode>>. *)

Alu == <<"ORA", "AND", "EOR", "ADC", "STA", "LDA", "CMP", "SBC">>
alu_mode ==
  (\h01 :> "DPXI") @@ (\h03 :> "SR") @@ (\h05 :> "DP") @@ (\h07 :> "DPIL") @@
  (\h09 :> "IMM") @@ (\h0D :> "ABS") @@ (\h0F :> "LONG") @@ (\h11 :> "DPIY") @@
  (\h12 :> "DPI") @@ (\h13 :> "SRIY") @@ (\h15 :> "DPX") @@ (\h17 :> "DPILY") @@
  (\h19 :> "ABSY") @@ (\h1D :> "ABSX") @@ (\h1F :> "LONGX")

Is(mn, modes) == [op \in DOMAIN modes |-> <<mn, modes[op]>>]
RmwOps(mn, base, acc) ==
  Is(mn, (base + \h06 :> "DP") @@ (base + \h0E :> "ABS") @@ (base + \h16 :> "DPX") @@
         (base + \h1E :> "ABSX") @@ (acc :> "ACC"))
Implied(mns) == [op \in DOMAIN mns |-> <<mns[op], "IMP">>]

Decode ==
  Is("BIT", (\h89 :> "IMM") @@ (\h24 :> "DP") @@ (\h2C :> "ABS") @@ (\h34 :> "DPX") @@ (\h3C :> "ABSX")) @@
  [op \in {q \in 0..255 : q % 32 \in DOMAIN alu_mode} |->
     <<Alu[op \div 32 + 1], alu_mode[op % 32]>>] @@
  RmwOps("ASL", \h00, \h0A) @@ RmwOps("ROL", \h20, \h2A) @@ RmwOps("LSR", \h40, \h4A) @@
  RmwOps("ROR", \h60, \h6A) @@ RmwOps("INC", \hE0, \h1A) @@ RmwOps("DEC", \hC0, \h3A) @@
  Is("TSB", (\h04 :> "DP") @@ (\h0C :> "ABS")) @@ Is("TRB", (\h14 :> "DP") @@ (\h1C :> "ABS")) @@
  Is("LDX", (\hA2 :> "IMM") @@ (\hA6 :> "DP") @@ (\hAE :> "ABS") @@ (\hB6 :> "DPY") @@ (\hBE :> "ABSY")) @@
  Is("LDY", (\hA0 :> "IMM") @@ (\hA4 :> "DP") @@ (\hAC :> "ABS") @@ (\hB4 :> "DPX") @@ (\hBC :> "ABSX")) @@
  Is("STX", (\h86 :> "DP") @@ (\h8E :> "ABS") @@ (\h96 :> "DPY")) @@
  Is("STY", (\h84 :> "DP") @@ (\h8C :> "ABS") @@ (\h94 :> "DPX")) @@
  Is("STZ", (\h64 :> "DP") @@ (\h74 :> "DPX") @@ (\h9C :> "ABS") @@ (\h9E :> "ABSX")) @@
  Is("CPX", (\hE0 :> "IMM") @@ (\hE4 :> "DP") @@ (\hEC :> "ABS")) @@
  Is("CPY", (\hC0 :> "IMM") @@ (\hC4 :> "DP") @@ (\hCC :> "ABS")) @@
  Implied((\hE8 :> "INX") @@ (\hC8 :> "INY") @@ (\hCA :> "DEX") @@ (\h88 :> "DEY") @@
          (\hAA :> "TAX") @@ (\hA8 :> "TAY") @@ (\h8A :> "TXA") @@ (\h98 :> "TYA") @@
          (\h9B :> "TXY") @@ (\hBB :> "TYX") @@ (\hBA :> "TSX") @@ (\h9A :> "TXS") @@
          (\h5B :> "TCD") @@ (\h7B :> "TDC") @@ (\h1B :> "TCS") @@ (\h3B :> "TSC") @@ (\hEB :> "XBA") @@
          (\h48 :> "PHA") @@ (\hDA :> "PHX") @@ (\h5A :> "PHY") @@ (\h68 :> "PLA") @@
          (\hFA :> "PLX") @@ (\h7A :> "PLY") @@ (\h8B :> "PHB") @@ (\hAB :> "PLB") @@
          (\h0B :> "PHD") @@ (\h2B :> "PLD") @@ (\h4B :> "PHK") @@ (\h08 :> "PHP") @@ (\h28 :> "PLP") @@
          (\hF4 :> "PEA") @@ (\hD4 :> "PEI") @@ (\h62 :> "PER") @@
          (\h18 :> "CLC") @@ (\h38 :> "SEC") @@ (\h58 :> "CLI") @@ (\h78 :> "SEI") @@
          (\hD8 :> "CLD") @@ (\hF8 :> "SED") @@ (\hB8 :> "CLV") @@ (\hC2 :> "REP") @@
          (\hE2 :> "SEP") @@ (\hFB :> "XCE") @@ (\h10 :> "BPL") @@ (\h30 :> "BMI") @@
          (\h50 :> "BVC") @@ (\h70 :> "BVS") @@ (\h90 :> "BCC") @@ (\hB0 :> "BCS") @@
          (\hD0 :> "BNE") @@ (\hF0 :> "BEQ") @@ (\h80 :> "BRA") @@ (\h82 :> "BRL") @@
          (\h4C :> "JMP") @@ (\h5C :> "JML") @@ (\h6C :> "JMPI") @@ (\h7C :> "JMPX") @@
          (\hDC :> "JMLI") @@ (\h20 :> "JSR") @@ (\hFC :> "JSRX") @@ (\h22 :> "JSL") @@
          (\h60 :> "RTS") @@ (\h6B :> "RTL") @@ (\h54 :> "MVN") @@ (\h44 :> "MVP") @@
          (\h00 :> "BRK") @@ (\h02 :> "COP") @@ (\hDB :> "STP") @@ (\hCB :> "WAI") @@
          (\h40 :> "RTI") @@ (\hEA :> "NOP") @@ (\h42 :> "WDM"))

(* Opcodes interpreted in emulation mode; the others are fatal there. *)
emulation_ok ==
  {\h18, \h38, \h58, \h78, \hD8, \hF8, \hB8, \hFB, \hEA, \hC2, \hE2, \hA9, \hA2, \hA0,
   \h4C, \h5C, \h10, \h30, \h50, \h70, \h90, \hB0, \hD0, \hF0, \h80}

-----------------------------------------------------------------------------
(* Effective addresses.  acc is what forming it does on the bus (ea         *)
(* accesses); a bank-0 address wraps in its bank, any other in the whole    *)
(* space.                                                                   *)

bank0(acc, a) == [acc |-> acc, ea |-> Len(acc), a |-> a % Word, bank0 |-> TRUE, cross |-> FALSE]
full(acc, a)  == [acc |-> acc, ea |-> Len(acc), a |-> a % Long, bank0 |-> FALSE, cross |-> FALSE]
indexed(acc, b, i) == [full(acc, b + i) EXCEPT !.cross = Hi(b) # Hi(b + i)]
next_addr(e)  == IF e.bank0 THEN (e.a + 1) % Word ELSE (e.a + 1) % Long

rd_bank0_16(a) == <<R(a % Word), R((a + 1) % Word)>>
rd_bank0_24(a) == Append(rd_bank0_16(a), R((a + 2) % Word))

ea(s, mode, in) ==
  LET db  == s.DB * Word
      d   == in.arg % Byte
      abs == db + (in.arg % Word)
      ind == db + (in.ptr % Word)
      dp16(a) == O(1) \o rd_bank0_16(a)
      dp24(a) == O(1) \o rd_bank0_24(a)
  IN CASE mode = "DP"    -> bank0(O(1), s.DP + d)
       [] mode = "DPX"   -> bank0(O(1), s.DP + d + s.X)
       [] mode = "DPY"   -> bank0(O(1), s.DP + d + s.Y)
       [] mode = "DPI"   -> full(dp16(s.DP + d), ind)
       [] mode = "DPXI"  -> full(dp16(s.DP + d + s.X), ind)
       [] mode = "DPIY"  -> indexed(dp16(s.DP + d), ind, s.Y)
       [] mode = "DPIL"  -> full(dp24(s.DP + d), in.ptr)
       [] mode = "DPILY" -> full(dp24(s.DP + d), in.ptr + s.Y)
       [] mode = "SR"    -> bank0(O(1), s.S + d)
       [] mode = "SRIY"  -> full(dp16(s.S + d), ind + s.Y)
       [] mode = "ABS"   -> full(O(2), abs)
       [] mode = "ABSX"  -> indexed(O(2), abs, s.X)
       [] mode = "ABSY"  -> indexed(O(2), abs, s.Y)
       [] mode = "LONG"  -> full(O(3), in.arg)
       [] mode = "LONGX" -> full(O(3), in.arg + s.X)

rd(e, wide) == IF wide THEN <<R(e.a), R(next_addr(e))>> ELSE <<R(e.a)>>
wr(e, wide, v) == <<Wt(e.a, Lo(v))>> \o IF wide THEN <<Wt(next_addr(e), Hi(v))>> ELSE <<>>
wr_rmw(e, wide, v) == (IF wide THEN <<Wt(next_addr(e), Hi(v))>> ELSE <<>>) \o <<Wt(e.a, Lo(v))>>

-----------------------------------------------------------------------------
(* What one instruction does: the CPU after it, its accesses, how many of   *)
(* them form the address (ea), and whether the index crossed or the branch  *)
(* was taken.  A fatal instruction ends the program.                        *)

Does(s, acc) == [s |-> s, acc |-> acc, ea |-> 0, cross |-> FALSE, taken |-> FALSE, fatal |-> FALSE]
Through(e, s, acc) == [Does(s, e.acc \o acc) EXCEPT !.ea = e.ea, !.cross = e.cross]
Fatal(s) == [Does(s, <<>>) EXCEPT !.fatal = TRUE]

(* An operand: its value with the accesses that read it. *)
operand(s, mode, wide, in) ==
  IF mode = "IMM" THEN full(O(IF wide THEN 2 ELSE 1), 0)
  ELSE LET e == ea(s, mode, in) IN [e EXCEPT !.acc = e.acc \o rd(e, wide)]

(* The stack: S moves down before the next push, up before each pull. *)
push(s, vs) ==
  [s   |-> [s EXCEPT !.S = (@ - Len(vs)) % Word],
   acc |-> [i \in DOMAIN vs |-> Wt((s.S - (i - 1)) % Word, vs[i])]]
pull(s, n) ==
  [s   |-> [s EXCEPT !.S = (@ + n) % Word],
   acc |-> [i \in 1..n |-> R((s.S + i) % Word)]]
word(v) == <<Hi(v), Lo(v)>>                                  \* pushw's order

get_a(s) == IF Wide(s, "m") THEN s.A ELSE Lo(s.A)
set_a(s, v) == [s EXCEPT !.A = IF Wide(s, "m") THEN v ELSE Hi(s.A) * Byte + Lo(v)]
idx(s, v) == IF Wide(s, "x") THEN v % Word ELSE Lo(v)

(* unpack_p: emulation forces M and X; X narrows the index registers. *)
narrow(s) == IF "x" \in s.P THEN [s EXCEPT !.X = Lo(@), !.Y = Lo(@)] ELSE s
unpack_p(s, P) == narrow([s EXCEPT !.P = IF s.e THEN P \cup {"m", "x"} ELSE P])

(* The sum with its flags; the overflow test reads the sign bits of the     *)
(* unmasked sum.                                                            *)
add_late_carry(P, a, b, wide) ==          \* mutant: carry out only past the size
  LET r == a + b + Carry(P)
      m == r % Size(wide)
      v == Sign(a, wide) # Sign(r, wide) /\ Sign(b, wide) # Sign(r, wide)
  IN [val |-> m, P |-> nz(Flag(Flag(P, "c", r > Size(wide)), "v", v), m, wide)]

add(P, a, b, wide) ==
  LET r == a + b + Carry(P)
      v == Sign(a, wide) # Sign(r, wide) /\ Sign(b, wide) # Sign(r, wide)
      m == r % Size(wide)
  IN [val |-> m, P |-> nz(Flag(Flag(P, "c", r >= Size(wide)), "v", v), m, wide)]

compare(P, r, v, wide) ==
  LET a == r % Size(wide)
      b == v % Size(wide)
  IN nz(Flag(P, "c", a >= b), (a - b) % Word, wide)

rmw(mn, P, v, wide) ==
  LET c == CASE mn \in {"ASL", "ROL"} -> Flag(P, "c", Sign(v, wide))
             [] mn \in {"LSR", "ROR"} -> Flag(P, "c", v % 2 = 1)
             [] OTHER -> P
      r == CASE mn = "ASL" -> v * 2
             [] mn = "ROL" -> v * 2 + Carry(P)
             [] mn = "LSR" -> v \div 2
             [] mn = "ROR" -> v \div 2 + Carry(P) * (Size(wide) \div 2)
             [] mn = "INC" -> v + 1
             [] mn = "DEC" -> v - 1
      m == r % Size(wide)
  IN [val |-> m, P |-> nz(c, m, wide)]

alu(s, mn, mode, in) ==
  LET wide == Wide(s, "m")
      e == operand(s, mode, wide, in)
      v == in.val % Size(wide)
      a == get_a(s)
      logic == CASE mn = "ORA" -> a | v [] mn = "AND" -> a & v
                 [] mn = "EOR" -> a ^^ v [] OTHER -> v
      sum == add(s.P, a, IF mn = "SBC" THEN Size(wide) - 1 - v ELSE v, wide)
  IN CASE mn = "STA" -> LET d == ea(s, mode, in) IN Through(d, s, wr(d, wide, a))
       [] mn = "CMP" -> Through(e, [s EXCEPT !.P = compare(@, a, v, wide)], <<>>)
       [] mn \in {"ADC", "SBC"} ->
            IF "d" \in s.P THEN Fatal(s)
            ELSE Through(e, [set_a(s, sum.val) EXCEPT !.P = sum.P], <<>>)
       [] OTHER -> Through(e, [set_a(s, logic) EXCEPT !.P = nz(@, logic, wide)], <<>>)

rmw_mem(s, mn, mode, in) ==
  LET wide == Wide(s, "m")
      e == ea(s, mode, in)
      r == rmw(mn, s.P, in.val % Size(wide), wide)
      acc == rmw(mn, s.P, get_a(s), wide)
  IN IF mode = "ACC" THEN Does([set_a(s, acc.val) EXCEPT !.P = acc.P], <<>>)
     ELSE Through(e, [s EXCEPT !.P = r.P], rd(e, wide) \o wr_rmw(e, wide, r.val))

(* TSB and TRB: Z from A and memory, then A's bits set or cleared there. *)
test_bits(s, mn, mode, in) ==
  LET wide == Wide(s, "m")
      e == ea(s, mode, in)
      v == in.val % Size(wide)
      a == get_a(s)
      new == IF mn = "TRB" THEN v - (v & a) ELSE v | a
  IN Through(e, [s EXCEPT !.P = Flag(@, "z", (a & v) = 0)],
             rd(e, wide) \o wr_rmw(e, wide, new))

bit(s, mode, in) ==
  LET wide == Wide(s, "m")
      e == operand(s, mode, wide, in)
      v == in.val % Size(wide)
      z == Flag(s.P, "z", (get_a(s) & v) = 0)
      below == (v \div (Size(wide) \div 4)) % 2 = 1     \* the bit under the sign
  IN Through(e, [s EXCEPT !.P =
       IF mode = "IMM" THEN z ELSE Flag(Flag(z, "n", Sign(v, wide)), "v", below)], <<>>)

(* Index loads, stores, compares: LDX LDY STX STY STZ CPX CPY. *)
IndexReg(mn) == IF mn \in {"LDX", "STX", "CPX", "INX", "DEX", "PHX", "PLX"} THEN "X" ELSE "Y"
index_op(s, mn, mode, in) ==
  LET r    == IndexReg(mn)
      wide == Wide(s, IF mn = "STZ" THEN "m" ELSE "x")
      v    == in.val % Size(wide)
      e    == operand(s, mode, wide, in)
      d    == ea(s, mode, in)
  IN CASE mn \in {"LDX", "LDY"} -> Through(e, [s EXCEPT ![r] = v, !.P = nz(@, v, wide)], <<>>)
       [] mn \in {"CPX", "CPY"} -> Through(e, [s EXCEPT !.P = compare(@, s[r], v, wide)], <<>>)
       [] mn = "STZ"            -> Through(d, s, wr(d, wide, 0))
       [] OTHER                 -> Through(d, s, wr(d, wide, s[r]))

count_index(s, mn) ==
  LET r == IndexReg(mn)
      v == idx(s, IF mn \in {"INX", "INY"} THEN s[r] + 1 ELSE (s[r] - 1) % Word)
  IN Does([s EXCEPT ![r] = v, !.P = nz(@, v, Wide(s, "x"))], <<>>)

transfer(s, mn) ==
  LET to(r, v, wide) == [s EXCEPT ![r] = v, !.P = nz(@, v, wide)]
      toA(v) == LET t == set_a(s, v) IN [t EXCEPT !.P = nz(@, get_a(t), Wide(s, "m"))]
      x16 == Wide(s, "x")
      stack(v) == IF s.e THEN Byte + Lo(v) ELSE v
  IN CASE mn = "TAX" -> to("X", idx(s, s.A), x16)
       [] mn = "TAY" -> to("Y", idx(s, s.A), x16)
       [] mn = "TXA" -> toA(s.X)
       [] mn = "TYA" -> toA(s.Y)
       [] mn = "TXY" -> to("Y", s.X, x16)
       [] mn = "TYX" -> to("X", s.Y, x16)
       [] mn = "TSX" -> to("X", idx(s, s.S), x16)
       [] mn = "TXS" -> [s EXCEPT !.S = stack(s.X)]
       [] mn = "TCD" -> to("DP", s.A, TRUE)
       [] mn = "TDC" -> to("A", s.DP, TRUE)
       [] mn = "TCS" -> [s EXCEPT !.S = stack(s.A)]
       [] mn = "TSC" -> to("A", s.S, TRUE)
       [] mn = "XBA" -> LET a == Lo(s.A) * Byte + Hi(s.A)
                        IN [s EXCEPT !.A = a, !.P = nz(@, Lo(a), FALSE)]

(* What the pushes push, high byte first; a status byte is a set of flags. *)
Pushed(s, mn, in) ==
  LET sized(v, f) == IF Wide(s, f) THEN word(v) ELSE <<Lo(v)>>
  IN CASE mn = "PHA" -> sized(s.A, "m") [] mn = "PHX" -> sized(s.X, "x")
       [] mn = "PHY" -> sized(s.Y, "x") [] mn = "PHB" -> <<s.DB>>
       [] mn = "PHD" -> word(s.DP)      [] mn = "PHK" -> <<s.PB>>
       [] mn = "PHP" -> <<s.P>>         [] mn = "PEA" -> word(in.arg % Word)
       [] mn = "PEI" -> word(in.ptr % Word)
       [] mn = "PER" -> word((s.PC + 3 + in.arg) % Word)

push_op(s, mn, in) ==
  LET p == push(s, Pushed(s, mn, in))
      pre == CASE mn \in {"PEA", "PER"} -> O(2)
               [] mn = "PEI" -> O(1) \o rd_bank0_16(s.DP + (in.arg % Byte))
               [] OTHER -> <<>>
  IN Does(p.s, pre \o p.acc)

pull_op(s, mn, in) ==
  LET wide == CASE mn = "PLA" -> Wide(s, "m") [] mn \in {"PLX", "PLY"} -> Wide(s, "x")
                [] OTHER -> mn = "PLD"
      v == in.val % Size(wide)
      p == pull(s, IF wide THEN 2 ELSE 1)
      to(r) == [p.s EXCEPT ![r] = v, !.P = nz(@, v, wide)]
  IN Does(CASE mn = "PLA" -> [set_a(p.s, v) EXCEPT !.P = nz(@, v, wide)]
            [] mn = "PLP" -> unpack_p(p.s, in.fl)
            [] mn = "PLB" -> to("DB")
            [] mn = "PLD" -> to("DP")
            [] OTHER      -> to(IndexReg(mn)), p.acc)

flag_op(s, mn, in) ==
  CASE mn = "CLC" -> Does([s EXCEPT !.P = @ \ {"c"}], <<>>)
    [] mn = "SEC" -> Does([s EXCEPT !.P = @ \cup {"c"}], <<>>)
    [] mn = "CLI" -> Does([s EXCEPT !.P = @ \ {"i"}], <<>>)
    [] mn = "SEI" -> Does([s EXCEPT !.P = @ \cup {"i"}], <<>>)
    [] mn = "CLD" -> Does([s EXCEPT !.P = @ \ {"d"}], <<>>)
    [] mn = "SED" -> Does([s EXCEPT !.P = @ \cup {"d"}], <<>>)
    [] mn = "CLV" -> Does([s EXCEPT !.P = @ \ {"v"}], <<>>)
    [] mn = "REP" -> Does(unpack_p(s, s.P \ in.fl), O(1))
    [] mn = "SEP" -> Does(unpack_p(s, s.P \cup in.fl), O(1))
    [] mn = "XCE" ->
         LET t == [s EXCEPT !.e = "c" \in s.P, !.P = Flag(@, "c", s.e)]
         IN Does(IF t.e THEN narrow([t EXCEPT !.P = @ \cup {"m", "x"}, !.S = Byte + Lo(@)])
                 ELSE t, <<>>)

(* Branches.  An offset is in.arg, a byte read as signed. *)
Condition(P, mn) ==
  CASE mn = "BPL" -> "n" \notin P [] mn = "BMI" -> "n" \in P
    [] mn = "BVC" -> "v" \notin P [] mn = "BVS" -> "v" \in P
    [] mn = "BCC" -> "c" \notin P [] mn = "BCS" -> "c" \in P
    [] mn = "BNE" -> "z" \notin P [] mn = "BEQ" -> "z" \in P
    [] mn = "BRA" -> TRUE
Signed(b) == IF b >= Byte \div 2 THEN b - Byte ELSE b
branch(s, mn, in) ==
  LET on == Condition(s.P, mn)
      pc == s.PC + 2 + (IF on THEN Signed(in.arg % Byte) ELSE 0)
  IN [Does([s EXCEPT !.PC = pc % Word], O(1)) EXCEPT !.taken = on]

(* One byte of a block move; until A wraps the instruction runs again. *)
block_move(s, mn, in) ==
  LET step == IF mn = "MVN" THEN 1 ELSE -1
      dst  == in.arg % Byte
      src  == Hi(in.arg)
      moved == narrow([s EXCEPT !.DB = dst, !.X = (@ + step) % Word, !.Y = (@ + step) % Word,
                                !.A = (@ - 1) % Word])
  IN Does(IF moved.A # Word - 1 THEN moved ELSE [moved EXCEPT !.PC = (@ + 3) % Word],
          O(2) \o <<R(src * Word + s.X), Wt(dst * Word + s.Y, Lo(in.val))>>)

(* Jumps, calls and returns.  A call pushes the address of its own last     *)
(* byte; a table of targets is read in the program bank after the pushes.   *)
jump(s, mn, in) ==
  LET p   == (in.arg + s.X) % Word
      tab == <<R(s.PB * Word + p), R(s.PB * Word + ((p + 1) % Word))>>
      to(t, pc) == [t EXCEPT !.PC = pc % Word]
      far(t, a) == [t EXCEPT !.PC = a % Word, !.PB = a \div Word]
      jsr == push(s, word((s.PC + 2) % Word))
      jsl == push(s, <<s.PB>> \o word((s.PC + 3) % Word))
  IN CASE mn = "JMP"  -> Does(to(s, in.arg), O(2))
       [] mn = "JML"  -> Does(far(s, in.arg), O(3))
       [] mn = "JMPI" -> Does(to(s, in.ptr), O(2) \o rd_bank0_16(in.arg))
       [] mn = "JMLI" -> Does(far(s, in.ptr), O(2) \o rd_bank0_24(in.arg))
       [] mn = "JMPX" -> Does(to(s, in.ptr), O(2) \o tab)
       [] mn = "BRL"  -> Does(to(s, s.PC + 3 + in.arg), O(2))
       [] mn = "JSR"  -> Does(to(jsr.s, in.arg), O(2) \o jsr.acc)
       [] mn = "JSRX" -> Does(to(jsr.s, in.ptr), O(2) \o jsr.acc \o tab)
       [] mn = "JSL"  -> Does(far(jsl.s, in.arg), O(3) \o jsl.acc)
       [] mn = "RTS"  -> LET q == pull(s, 2) IN Does(to(q.s, in.ptr + 1), q.acc)
       [] mn = "RTL"  -> LET q == pull(s, 3)
                         IN Does([to(q.s, in.ptr + 1) EXCEPT !.PB = in.ptr \div Word], q.acc)
       [] mn = "RTI"  -> LET q == pull(s, IF s.e THEN 3 ELSE 4)
                             t == to(unpack_p(q.s, in.fl), in.ptr)
                         IN Does(IF s.e THEN t ELSE [t EXCEPT !.PB = in.ptr \div Word], q.acc)

Jumps  == {"JMP", "JML", "JMPI", "JMLI", "JMPX", "BRL", "JSR", "JSRX", "JSL", "RTS", "RTL", "RTI"}

Execute(s, mn, mode, in) ==
  CASE mn \in ToSet(Alu)                          -> alu(s, mn, mode, in)
    [] mn \in {"ASL", "ROL", "LSR", "ROR", "INC", "DEC"} -> rmw_mem(s, mn, mode, in)
    [] mn \in {"TSB", "TRB"}                      -> test_bits(s, mn, mode, in)
    [] mn = "BIT"                                 -> bit(s, mode, in)
    [] mn \in {"LDX", "LDY", "STX", "STY", "STZ", "CPX", "CPY"} -> index_op(s, mn, mode, in)
    [] mn \in {"INX", "INY", "DEX", "DEY"}        -> count_index(s, mn)
    [] mn \in {"TAX", "TAY", "TXA", "TYA", "TXY", "TYX", "TSX", "TXS", "TCD", "TDC",
               "TCS", "TSC", "XBA"}               -> Does(transfer(s, mn), <<>>)
    [] mn \in {"PHA", "PHX", "PHY", "PHB", "PHD", "PHK", "PHP", "PEA", "PEI", "PER"} ->
         push_op(s, mn, in)
    [] mn \in {"PLA", "PLX", "PLY", "PLB", "PLD", "PLP"} -> pull_op(s, mn, in)
    [] mn \in {"CLC", "SEC", "CLI", "SEI", "CLD", "SED", "CLV", "REP", "SEP", "XCE"} ->
         flag_op(s, mn, in)
    [] mn \in {"NOP", "WAI"}                      -> Does(s, <<>>)
    [] mn = "WDM"                                 -> Does(s, O(1))
    [] mn \in {"BRK", "COP", "STP"}               -> Fatal(s)
    [] OTHER                                      -> Does(s, <<>>)

(* interp_step: decode, run, and leave PC past the operands. *)
interp_step(s, op, in) ==
  LET mn == Decode[op][1]
      r  == Execute(s, mn, Decode[op][2], in)
      past == 1 + Len(SelectSeq(r.acc, LAMBDA x : x.k = "O"))
  IN CASE s.e /\ op \notin emulation_ok -> Fatal(s)
       [] mn \in Jumps                  -> jump(s, mn, in)
       [] mn \in {"MVN", "MVP"}         -> block_move(s, mn, in)
       [] op \in {\h10, \h30, \h50, \h70, \h90, \hB0, \hD0, \hF0, \h80} -> branch(s, mn, in)
       [] OTHER -> [r EXCEPT !.s.PC = IF r.fatal THEN @ ELSE (@ + past) % Word]

(* interp_interrupt: the frame is PB, PC and P; the vector is in.ptr. *)
interp_interrupt_late(s, in) ==           \* mutant: P is pushed after I is set
  LET p == push(s, <<s.PB>> \o word(s.PC) \o <<(s.P \cup {"i"}) \ {"d"}>>)
  IN Does([p.s EXCEPT !.P = (@ \cup {"i"}) \ {"d"}, !.PB = 0, !.PC = in.ptr % Word],
          p.acc \o <<R(Word - 2), R(Word - 1)>>)
interp_interrupt(s, in) ==
  LET p == push(s, <<s.PB>> \o word(s.PC) \o <<s.P>>)
  IN IF s.e THEN Fatal(s)
     ELSE Does([p.s EXCEPT !.P = (@ \cup {"i"}) \ {"d"}, !.PB = 0, !.PC = in.ptr % Word],
               p.acc \o <<R(Word - 2), R(Word - 1)>>)
=============================================================================
