--------------------------------- MODULE Ops ---------------------------------
(* The same instructions as generated code runs them: the templates of      *)
(* recomp/emit.py over the helpers of runtime/ops.h.  Operands are          *)
(* constants of the generated function, so nothing is fetched, and native   *)
(* mode is checked on entry.  Decode is shared: emit.py's opcode table      *)
(* names the same mnemonics and modes as the interpreter's switch.          *)
EXTENDS Interp

(* Opcodes emit.py has no template for (or emits as a trap): those run only *)
(* in the interpreter, as does MVN with 8-bit index registers.              *)
Uncompiled == {"WAI", "WDM", "MVP", "JMPI", "JMLI"}
Compiles(s, op) ==
  ~s.e /\ Decode[op][1] \notin Uncompiled /\ (Decode[op][1] = "MVN" => Wide(s, "x"))

(* The address helpers.  at0 wraps in bank 0, at24 in the whole space. *)
at0(reads, a)  == [reads |-> reads, a |-> a % Word, b0 |-> TRUE, cross |-> FALSE]
at24(reads, a) == [reads |-> reads, a |-> a % Long, b0 |-> FALSE, cross |-> FALSE]
read16_b0(a)   == LET w == a % Word IN <<R(w), R((w + 1) % Word)>>
read24_b0(a)   == LET w == a % Word IN <<R(w), R((w + 1) % Word), R((w + 2) % Word)>>
crossing(reads, b, i) ==
  [at24(reads, b + i) EXCEPT !.cross = (b \div Byte) % Byte # ((b + i) \div Byte) % Byte]

ea_of(s, mode, in) ==
  LET d  == in.arg % Byte
      in_db(a) == s.DB * Word + (a % Word)
  IN CASE mode = "DP"    -> at0(<<>>, s.DP + d)
       [] mode = "DPX"   -> at0(<<>>, s.DP + d + s.X)
       [] mode = "DPY"   -> at0(<<>>, s.DP + d + s.Y)
       [] mode = "SR"    -> at0(<<>>, s.S + d)
       [] mode = "ABS"   -> at24(<<>>, in_db(in.arg))
       [] mode = "ABSX"  -> crossing(<<>>, in_db(in.arg), s.X)
       [] mode = "ABSY"  -> crossing(<<>>, in_db(in.arg), s.Y)
       [] mode = "LONG"  -> at24(<<>>, in.arg)
       [] mode = "LONGX" -> at24(<<>>, in.arg + s.X)
       [] mode = "DPI"   -> at24(read16_b0(s.DP + d), in_db(in.ptr))
       [] mode = "DPXI"  -> at24(read16_b0(s.DP + d + s.X), in_db(in.ptr))
       [] mode = "DPIY"  -> crossing(read16_b0(s.DP + d), in_db(in.ptr), s.Y)
       [] mode = "DPIL"  -> at24(read24_b0(s.DP + d), in.ptr)
       [] mode = "DPILY" -> at24(read24_b0(s.DP + d), in.ptr + s.Y)
       [] mode = "SRIY"  -> at24(read16_b0(s.S + d), in_db(in.ptr) + s.Y)

second(e) == IF e.b0 THEN (e.a + 1) % Word ELSE (e.a + 1) % Long
read(e, wide)  == IF wide THEN <<R(e.a), R(second(e))>> ELSE <<R(e.a)>>
write(e, wide, v) == IF wide THEN <<Wt(e.a, Lo(v)), Wt(second(e), Hi(v))>> ELSE <<Wt(e.a, Lo(v))>>
write_rmw_low(e, wide, v) == write(e, wide, v)        \* mutant: low byte first
write_rmw(e, wide, v) == Reverse(write(e, wide, v))

At(e, s, acc) == [s |-> s, acc |-> e.reads \o acc, ea |-> Len(e.reads), cross |-> e.cross,
                  taken |-> FALSE, fatal |-> FALSE]
Now(s, acc)   == At(at0(<<>>, 0), s, acc)

-----------------------------------------------------------------------------
(* Values.  w is the width the function was compiled for; cpu_enter and     *)
(* cpu_check_mx keep it the CPU's own.                                      *)

set_nz(P, v, w) ==
  (P \ {"n", "z"}) \cup (IF v \div (Size(w) \div 2) = 1 THEN {"n"} ELSE {})
                   \cup (IF v = 0 THEN {"z"} ELSE {})
set_reg(s, r, v, w) ==
  LET cut == v % Size(w)
  IN [s EXCEPT ![r] = IF r = "A" /\ ~w THEN Hi(s.A) * Byte + cut ELSE cut,
               !.P = set_nz(@, cut, w)]
reg(s, r, w) == IF w THEN s[r] ELSE Lo(s[r])

(* adc8, adc16: the overflow test compares the operands' signs first. *)
adc(s, b, w) ==
  LET a == reg(s, "A", w)
      r == a + b + Carry(s.P)
      cut == r % Size(w)
      v == Sign(a, w) = Sign(b, w) /\ Sign(a, w) # Sign(cut, w)
  IN set_reg([s EXCEPT !.P = Flag(Flag(@, "c", r > Size(w) - 1), "v", v)], "A", cut, w)
sbc(s, b, w) == adc(s, Size(w) - 1 - b, w)
cmp(s, r, b, w) == [s EXCEPT !.P = set_nz(Flag(@, "c", r >= b), (r - b) % Size(w), w)]

(* asl8 .. dec16: the new value and the flags. *)
shift(mn, P, v, w) ==
  LET top == Size(w) \div 2
      r == CASE mn = "ASL" -> (2 * v) % Size(w)
             [] mn = "ROL" -> (2 * v + Carry(P)) % Size(w)
             [] mn = "LSR" -> v \div 2
             [] mn = "ROR" -> v \div 2 + top * Carry(P)
             [] mn = "INC" -> (v + 1) % Size(w)
             [] mn = "DEC" -> (v - 1) % Size(w)
      out == CASE mn \in {"ASL", "ROL"} -> Flag(P, "c", v \div top = 1)
               [] mn \in {"LSR", "ROR"} -> Flag(P, "c", v % 2 = 1)
               [] OTHER -> P
  IN [val |-> r, P |-> set_nz(out, r, w)]

set_p(s, P) ==
  LET t == [s EXCEPT !.P = P]
  IN IF "x" \in P THEN [t EXCEPT !.X = Lo(@), !.Y = Lo(@)] ELSE t

op_xce(s) ==
  LET t == [s EXCEPT !.e = "c" \in s.P, !.P = (@ \ {"c"}) \cup (IF s.e THEN {"c"} ELSE {})]
  IN IF ~t.e THEN t
     ELSE [t EXCEPT !.P = @ \cup {"m", "x"}, !.X = Lo(@), !.Y = Lo(@), !.S = Byte + Lo(@)]

-----------------------------------------------------------------------------
(* The templates of data instructions: loads, stores, arithmetic, RMW, BIT. *)

LoadReg(mn) == CASE mn \in {"LDX", "STX", "CPX"} -> "X"
                 [] mn \in {"LDY", "STY", "CPY"} -> "Y"
                 [] OTHER -> "A"

data_op(s, mn, mode, in) ==
  LET r == LoadReg(mn)
      w == Wide(s, IF r = "A" THEN "m" ELSE "x")
      v == in.val % Size(w)
      a == reg(s, r, w)
      imm == mode = "IMM"
      e  == IF imm \/ mode = "ACC" THEN at0(<<>>, 0) ELSE ea_of(s, mode, in)
      put(t) == At(e, t, IF imm THEN <<>> ELSE read(e, w))
      flag(P, f, on) == IF on THEN P \cup {f} ELSE P \ {f}
      z == flag(s.P, "z", (a & v) = 0)
      back(val, P) == At(e, [s EXCEPT !.P = P], read(e, w) \o write_rmw(e, w, val))
  IN CASE mn \in {"LDA", "LDX", "LDY"} -> put(set_reg(s, r, v, w))
       [] mn = "ORA" -> put(set_reg(s, "A", a | v, w))
       [] mn = "AND" -> put(set_reg(s, "A", a & v, w))
       [] mn = "EOR" -> put(set_reg(s, "A", a ^^ v, w))
       [] mn \in {"ADC", "SBC"} ->
            IF "d" \in s.P THEN [Now(s, <<>>) EXCEPT !.fatal = TRUE]
            ELSE put(IF mn = "ADC" THEN adc(s, v, w) ELSE sbc(s, v, w))
       [] mn \in {"CMP", "CPX", "CPY"} -> put(cmp(s, a, v, w))
       [] mn \in {"STA", "STX", "STY"} -> At(e, s, write(e, w, a))
       [] mn = "STZ" -> At(e, s, write(e, w, 0))
       [] mn = "BIT" -> put([s EXCEPT !.P =
            IF imm THEN z
            ELSE flag(flag(z, "n", v \div (Size(w) \div 2) = 1), "v",
                      (v \div (Size(w) \div 4)) % 2 = 1)])
       [] mn = "TSB" -> back(v | a, z)
       [] mn = "TRB" -> back(v & (Size(w) - 1 - a), z)
       [] mode = "ACC" -> LET q == shift(mn, s.P, a, w) IN
            Now([s EXCEPT !.A = IF w THEN q.val ELSE Hi(@) * Byte + q.val, !.P = q.P], <<>>)
       [] OTHER -> LET q == shift(mn, s.P, v, w) IN back(q.val, q.P)

(* Register templates: index counts, transfers and the flag instructions. *)
Transfers == [TAX |-> <<"X", "A", "x">>, TAY |-> <<"Y", "A", "x">>, TXA |-> <<"A", "X", "m">>,
              TYA |-> <<"A", "Y", "m">>, TXY |-> <<"Y", "X", "x">>, TYX |-> <<"X", "Y", "x">>,
              TSX |-> <<"X", "S", "x">>]
SetFlag == [SEC |-> "c", SEI |-> "i", SED |-> "d"]
ClearFlag == [CLC |-> "c", CLI |-> "i", CLD |-> "d", CLV |-> "v"]

register_op(s, mn, in) ==
  LET x16 == Wide(s, "x")
  IN CASE mn \in DOMAIN Transfers ->
            LET t == Transfers[mn] IN set_reg(s, t[1], s[t[2]], Wide(s, t[3]))
       [] mn = "INX" -> set_reg(s, "X", (s.X + 1) % Word, x16)
       [] mn = "INY" -> set_reg(s, "Y", (s.Y + 1) % Word, x16)
       [] mn = "DEX" -> set_reg(s, "X", (s.X - 1) % Word, x16)
       [] mn = "DEY" -> set_reg(s, "Y", (s.Y - 1) % Word, x16)
       [] mn = "TXS" -> [s EXCEPT !.S = s.X]
       [] mn = "TCS" -> [s EXCEPT !.S = s.A]
       [] mn = "TSC" -> set_reg(s, "A", s.S, TRUE)
       [] mn = "TCD" -> set_reg(s, "DP", s.A, TRUE)
       [] mn = "TDC" -> set_reg(s, "A", s.DP, TRUE)
       [] mn = "XBA" -> LET a == Lo(s.A) * Byte + Hi(s.A)
                        IN [s EXCEPT !.A = a, !.P = set_nz(@, Lo(a), FALSE)]
       [] mn \in DOMAIN SetFlag   -> [s EXCEPT !.P = @ \cup {SetFlag[mn]}]
       [] mn \in DOMAIN ClearFlag -> [s EXCEPT !.P = @ \ {ClearFlag[mn]}]
       [] mn = "REP" -> set_p(s, s.P \ in.fl)
       [] mn = "SEP" -> set_p(s, s.P \cup in.fl)
       [] mn = "XCE" -> op_xce(s)
       [] OTHER -> s

(* push8 and pull8 in native mode; push16 pushes the high byte first.  PHK, *)
(* PER and the calls push constants of the instruction's address.           *)
push8s(s, vs) == Now([s EXCEPT !.S = (@ - Len(vs)) % Word],
                     [i \in DOMAIN vs |-> Wt((s.S - i + 1) % Word, vs[i])])
pull8s(s, n)  == [s |-> [s EXCEPT !.S = (@ + n) % Word],
                  acc |-> [i \in 1..n |-> R((s.S + i) % Word)]]
pair(v) == <<Hi(v), Lo(v)>>

stack_op(s, mn, in) ==
  LET wide == CASE mn \in {"PHA", "PLA"} -> Wide(s, "m")
                [] mn \in {"PHX", "PHY", "PLX", "PLY"} -> Wide(s, "x")
                [] OTHER -> mn \in {"PHD", "PLD"}
      r == CASE mn \in {"PHX", "PLX"} -> "X" [] mn \in {"PHY", "PLY"} -> "Y"
             [] mn \in {"PHB", "PLB"} -> "DB" [] mn \in {"PHD", "PLD"} -> "DP" [] OTHER -> "A"
      p == pull8s(s, IF wide THEN 2 ELSE 1)
      ptr == at0(read16_b0(s.DP + (in.arg % Byte)), 0)
      vec == push8s(s, pair(in.ptr % Word))
  IN CASE mn \in {"PHA", "PHX", "PHY", "PHB", "PHD"} ->
            push8s(s, IF wide THEN pair(s[r]) ELSE <<Lo(s[r])>>)
       [] mn = "PHK" -> push8s(s, <<s.PB>>)
       [] mn = "PHP" -> push8s(s, <<s.P>>)
       [] mn = "PEA" -> push8s(s, pair(in.arg % Word))
       [] mn = "PER" -> push8s(s, pair((s.PC + 3 + in.arg) % Word))
       [] mn = "PEI" -> [vec EXCEPT !.acc = ptr.reads \o @]
       [] mn = "PLP" -> Now(set_p(p.s, in.fl), p.acc)
       [] OTHER      -> Now(set_reg(p.s, r, in.val, wide), p.acc)

(* Returns: the address pulled, and the bank above it. *)
op_rts(s, in) == LET q == pull8s(s, 2) IN Now([q.s EXCEPT !.PC = (in.ptr + 1) % Word], q.acc)
op_rtl(s, in) ==
  LET q == pull8s(s, 3)
  IN Now([q.s EXCEPT !.PC = (in.ptr + 1) % Word, !.PB = in.ptr \div Word], q.acc)
op_rti(s, in) ==
  LET q == pull8s(s, 4)
  IN Now([set_p(q.s, in.fl) EXCEPT !.PC = in.ptr % Word, !.PB = in.ptr \div Word], q.acc)

(* One pass of MVN's loop: each byte is an instruction of its own. *)
mvn16(s, in) ==
  LET dst == in.arg % Byte
      t == [s EXCEPT !.DB = dst, !.X = (@ + 1) % Word, !.Y = (@ + 1) % Word, !.A = (@ - 1) % Word]
  IN Now([t EXCEPT !.PC = IF t.A = Word - 1 THEN (@ + 3) % Word ELSE @],
         <<R(Hi(in.arg) * Word + s.X), Wt(dst * Word + s.Y, Lo(in.val))>>)

(* Control: the C function goes on at a label, calls, or returns.  A known  *)
(* jump table is a switch on X and reads nothing; one of unknown length is  *)
(* read as the CPU reads it, after a call's pushes.                         *)
Taken(P, mn) ==
  mn = "BRA" \/ (mn = "BMI" /\ "n" \in P) \/ (mn = "BPL" /\ ~("n" \in P))
             \/ (mn = "BVS" /\ "v" \in P) \/ (mn = "BVC" /\ ~("v" \in P))
             \/ (mn = "BCS" /\ "c" \in P) \/ (mn = "BCC" /\ ~("c" \in P))
             \/ (mn = "BEQ" /\ "z" \in P) \/ (mn = "BNE" /\ ~("z" \in P))

control_op(s, mn, in, known) ==
  LET goto(r, pb, pc) == [r EXCEPT !.s.PB = pb, !.s.PC = pc % Word]
      p     == (in.arg + s.X) % Word
      table == IF known THEN <<>> ELSE <<R(s.PB * Word + p), R(s.PB * Word + ((p + 1) % Word))>>
      call  == push8s(s, pair((s.PC + 2) % Word))
      far   == push8s(s, <<s.PB>> \o pair((s.PC + 3) % Word))
      off   == IF in.arg % Byte >= Byte \div 2 THEN (in.arg % Byte) - Byte ELSE in.arg % Byte
  IN CASE mn = "JMP"  -> goto(Now(s, <<>>), s.PB, in.arg)
       [] mn = "JML"  -> goto(Now(s, <<>>), in.arg \div Word, in.arg)
       [] mn = "JMPX" -> goto(Now(s, table), s.PB, in.ptr)
       [] mn = "JSR"  -> goto(call, s.PB, in.arg)
       [] mn = "JSRX" -> goto([call EXCEPT !.acc = @ \o table], s.PB, in.ptr)
       [] mn = "JSL"  -> goto(far, in.arg \div Word, in.arg)
       [] mn = "RTS"  -> op_rts(s, in)
       [] mn = "RTL"  -> op_rtl(s, in)
       [] mn = "RTI"  -> op_rti(s, in)
       [] mn = "BRL"  -> goto(Now(s, <<>>), s.PB, s.PC + 3 + in.arg)
       [] mn = "MVN"  -> mvn16(s, in)
       [] OTHER       ->
            [goto(Now(s, <<>>), s.PB, s.PC + 2 + (IF Taken(s.P, mn) THEN off ELSE 0))
               EXCEPT !.taken = Taken(s.P, mn)]

Control == {"JMP", "JML", "JMPX", "JSR", "JSRX", "JSL", "RTS", "RTL", "RTI", "BRL", "MVN",
            "BPL", "BMI", "BVC", "BVS", "BCC", "BCS", "BNE", "BEQ", "BRA"}
Stack   == {"PHA", "PHX", "PHY", "PHB", "PHD", "PHK", "PHP", "PEA", "PEI", "PER",
            "PLA", "PLX", "PLY", "PLB", "PLD", "PLP"}
Data    == ToSet(Alu) \cup {"LDX", "LDY", "STX", "STY", "STZ", "CPX", "CPY", "BIT", "TSB", "TRB",
                            "ASL", "ROL", "LSR", "ROR", "INC", "DEC"}

(* One generated instruction.  size is the emitter's, which also gives the  *)
(* address of the next instruction.                                         *)
generated(s, op, in, size, known) ==
  LET mn == Decode[op][1]
      r  == CASE mn \in Data  -> data_op(s, mn, Decode[op][2], in)
              [] mn \in Stack -> stack_op(s, mn, in)
              [] mn \in {"BRK", "COP", "STP"} -> [Now(s, <<>>) EXCEPT !.fatal = TRUE]
              [] OTHER -> Now(register_op(s, mn, in), <<>>)
  IN IF mn \in Control THEN control_op(s, mn, in, known)
     ELSE IF r.fatal THEN r ELSE [r EXCEPT !.s.PC = (@ + size) % Word]
=============================================================================
