------------------------------- MODULE Cycles -------------------------------
(* The two accounts runtime/cycles.c keeps of an instruction: its count     *)
(* (cyc_base, cyc_pen and model_clocks), which charges it, and its cycles   *)
(* in order (tmpl and cyc_cycles), which the scheduler's walk reads while   *)
(* it runs.  cur is the code's struct, plus the two facts only known while  *)
(* the instruction runs (cross: the index crossed a page; taken: the branch *)
(* was); log is the bus log, one record [fetch, write, ck] for each access. *)
EXTENDS Integers, Sequences, SequencesExt

(* Rows <<opcodes, value>> written in the code's order: a later row wins.   *)
Rows(rows) == FoldLeft(LAMBDA t, r : [op \in r[1] |-> r[2]] @@ t, <<>>, rows)

Col(lo)  == {32 * hi + lo : hi \in 0..7}                \* the ALU columns
Rmw(lo)  == {hi + lo : hi \in {\h00, \h20, \h40, \h60, \hE0, \hC0}}
Two      == {\h0A, \h2A, \h4A, \h6A, \h1A, \h3A, \hE8, \hC8, \hCA, \h88,
             \hAA, \hA8, \h8A, \h98, \h9B, \hBB, \hBA, \h9A, \h5B, \h7B,
             \h1B, \h3B, \h18, \h38, \h58, \h78, \hD8, \hF8, \hB8, \hFB, \hEA}
Branches == {\h10, \h30, \h50, \h70, \h90, \hB0, \hD0, \hF0, \h80}

-----------------------------------------------------------------------------
(* The count.  A penalty adds one cycle, P_M2 two. *)

B(base, pen) == [base |-> base, pen |-> pen]

CycleTable == Rows(<<
  <<Col(\h01), B(6, <<"DL", "M">>)>>, <<Col(\h03), B(4, <<"M">>)>>,
  <<Col(\h05), B(3, <<"DL", "M">>)>>, <<Col(\h07), B(6, <<"DL", "M">>)>>,
  <<Col(\h09), B(2, <<"M">>)>>, <<Col(\h0D), B(4, <<"M">>)>>,
  <<Col(\h0F) \cup Col(\h1F), B(5, <<"M">>)>>,
  <<Col(\h11), B(5, <<"DL", "IDX", "M">>)>>, <<Col(\h12), B(5, <<"DL", "M">>)>>,
  <<Col(\h13), B(7, <<"M">>)>>, <<Col(\h15), B(4, <<"DL", "M">>)>>,
  <<Col(\h17), B(6, <<"DL", "M">>)>>,
  <<Col(\h19) \cup Col(\h1D), B(4, <<"IDX", "M">>)>>,
  <<{\h91}, B(6, <<"DL", "M">>)>>, <<{\h99, \h9D}, B(5, <<"M">>)>>,
  <<Rmw(\h06), B(5, <<"DL", "M2">>)>>, <<Rmw(\h0E), B(6, <<"M2">>)>>,
  <<Rmw(\h16), B(6, <<"DL", "M2">>)>>, <<Rmw(\h1E), B(7, <<"M2">>)>>,
  <<Two \cup {\h42}, B(2, <<>>)>>,
  <<{\h04, \h14}, B(5, <<"DL", "M2">>)>>, <<{\h0C, \h1C}, B(6, <<"M2">>)>>,
  <<{\h89}, B(2, <<"M">>)>>, <<{\h24}, B(3, <<"DL", "M">>)>>, <<{\h2C}, B(4, <<"M">>)>>,
  <<{\h34}, B(4, <<"DL", "M">>)>>, <<{\h3C}, B(4, <<"M", "IDX">>)>>,
  <<{\hA2, \hA0, \hE0, \hC0}, B(2, <<"X">>)>>,
  <<{\hA6, \hA4, \h86, \h84, \hE4, \hC4}, B(3, <<"DL", "X">>)>>,
  <<{\hAE, \hAC, \h8E, \h8C, \hEC, \hCC}, B(4, <<"X">>)>>,
  <<{\hB6, \hB4, \h96, \h94}, B(4, <<"DL", "X">>)>>,
  <<{\hBE, \hBC}, B(4, <<"X", "IDX">>)>>,
  <<{\h64}, B(3, <<"DL", "M">>)>>, <<{\h74}, B(4, <<"DL", "M">>)>>,
  <<{\h9C}, B(4, <<"M">>)>>, <<{\h9E}, B(5, <<"M">>)>>, <<{\hEB}, B(3, <<>>)>>,
  <<{\h48}, B(3, <<"M">>)>>, <<{\hDA, \h5A}, B(3, <<"X">>)>>,
  <<{\h68}, B(4, <<"M">>)>>, <<{\hFA, \h7A}, B(4, <<"X">>)>>,
  <<{\h8B, \h4B, \h08}, B(3, <<>>)>>, <<{\hAB, \h0B, \h28}, B(4, <<>>)>>,
  <<{\h2B, \hF4}, B(5, <<>>)>>, <<{\hD4}, B(6, <<"DL">>)>>, <<{\h62}, B(6, <<>>)>>,
  <<{\hC2, \hE2}, B(3, <<>>)>>, <<Branches, B(2, <<"BR">>)>>, <<{\h82}, B(4, <<>>)>>,
  <<{\h4C}, B(3, <<>>)>>, <<{\h5C}, B(4, <<>>)>>, <<{\h6C}, B(5, <<>>)>>,
  <<{\h7C, \hDC, \h20, \h60, \h6B}, B(6, <<>>)>>, <<{\hFC, \h22}, B(8, <<>>)>>,
  <<{\h40}, B(6, <<"RTI">>)>>, <<{\h54, \h44}, B(7, <<>>)>>,
  <<{\hCB, \hDB}, B(3, <<>>)>> >>)

(* cyc_begin's and cyc_begin_compiled's size: bytes with M=X=1, and the     *)
(* immediates that grow with M and X.                                       *)
OpSize == Rows(<<
  <<0..255, 2>>,
  <<{16 * hi + lo : hi \in 0..15, lo \in {\h8, \hA, \hB}} \cup {\h40, \h60}, 1>>,
  <<{16 * hi + lo : hi \in 0..15, lo \in {\hC, \hD, \hE}}
      \cup {32 * hi + \h19 : hi \in 0..7} \cup {\h20, \h62, \h82, \h44, \h54, \hF4}, 3>>,
  <<{16 * hi + \hF : hi \in 0..15} \cup {\h22, \h5C}, 4>> >>)

cur_size_8(op, m16, x16) == OpSize[op]     \* mutant: immediates do not grow
cur_size(op, m16, x16) ==
  OpSize[op] + (IF m16 /\ op % 32 = \h09 THEN 1 ELSE 0)
             + (IF x16 /\ op \in {\hA0, \hA2, \hC0, \hE0} THEN 1 ELSE 0)

elapsed_fetches_all(cur) == IF cur.compiled THEN cur.size ELSE 0   \* mutant: off by one
elapsed_fetches(cur) == IF cur.compiled THEN cur.size - 1 ELSE 0

Penalty(cur) ==
  [M |-> IF cur.m16 THEN 1 ELSE 0,          M2  |-> IF cur.m16 THEN 2 ELSE 0,
   X |-> IF cur.x16 THEN 1 ELSE 0,          DL  |-> IF cur.dl THEN 1 ELSE 0,
   IDX |-> IF cur.cross \/ cur.x16 THEN 1 ELSE 0,
   BR |-> IF cur.taken THEN 1 ELSE 0,       RTI |-> IF cur.native THEN 1 ELSE 0]

RECURSIVE Total(_)
Total(clocks) == IF clocks = <<>> THEN 0 ELSE Head(clocks) + Total(Tail(clocks))
BusClocks(log) == Total([i \in DOMAIN log |-> log[i].ck])

(* Clocks charged for the instruction: its fetches at the fetch speed, its  *)
(* accesses at their own, the rest of its count as internal cycles.         *)
model_clocks(cur, log) ==
  LET row  == CycleTable[cur.op]
      n    == row.base + Total([i \in DOMAIN row.pen |-> Penalty(cur)[row.pen[i]]])
      used == 1 + elapsed_fetches(cur) + Len(log)
  IN cur.speed * (1 + elapsed_fetches(cur)) + BusClocks(log)
       + (IF n > used THEN 6 * (n - used) ELSE 0)

-----------------------------------------------------------------------------
(* The cycles in order: F and O fetch an opcode and an operand byte, D is a *)
(* data, stack or vector access, I is internal; the other letters depend on *)
(* the flags (Shown) and stand for one of these (Class).                    *)

Letters(t) == [k \in 1..Len(t) |-> SubSeq(t, k, k)]

Templates == LET rows == Rows(<<
  <<Col(\h01), "FOdIDDDm">>, <<Col(\h03), "FOIDm">>, <<Col(\h05), "FOdDm">>,
  <<Col(\h07) \cup Col(\h17), "FOdDDDDm">>, <<Col(\h09), "FOp">>,
  <<Col(\h0D), "FOODm">>, <<Col(\h0F) \cup Col(\h1F), "FOOODm">>,
  <<Col(\h11), "FOdDDxDm">>, <<Col(\h12), "FOdDDDm">>, <<Col(\h13), "FOIDDIDm">>,
  <<Col(\h15), "FOdIDm">>, <<Col(\h19) \cup Col(\h1D), "FOOxDm">>,
  <<{\h91}, "FOdDDIDm">>, <<{\h99, \h9D}, "FOOIDm">>,
  <<Rmw(\h06), "FOdDmImD">>, <<Rmw(\h0E), "FOODmImD">>,
  <<Rmw(\h16), "FOdIDmImD">>, <<Rmw(\h1E), "FOOIDmImD">>,
  <<Two, "FI">>, <<{\h42}, "FO">>,
  <<{\h04, \h14}, "FOdDmImD">>, <<{\h0C, \h1C}, "FOODmImD">>,
  <<{\h89}, "FOp">>, <<{\h24}, "FOdDm">>, <<{\h2C}, "FOODm">>,
  <<{\h34}, "FOdIDm">>, <<{\h3C}, "FOOxDm">>,
  <<{\hA2, \hA0, \hE0, \hC0}, "FOq">>,
  <<{\hA6, \hA4, \h86, \h84, \hE4, \hC4}, "FOdDw">>,
  <<{\hAE, \hAC, \h8E, \h8C, \hEC, \hCC}, "FOODw">>,
  <<{\hB6, \hB4, \h96, \h94}, "FOdIDw">>, <<{\hBE, \hBC}, "FOOxDw">>,
  <<{\h64}, "FOdDm">>, <<{\h74}, "FOdIDm">>, <<{\h9C}, "FOODm">>,
  <<{\h9E}, "FOOIDm">>, <<{\hEB}, "FII">>,
  <<{\h48}, "FIDm">>, <<{\hDA, \h5A}, "FIDw">>, <<{\h68}, "FIIDm">>,
  <<{\hFA, \h7A}, "FIIDw">>, <<{\h8B, \h4B, \h08}, "FID">>,
  <<{\hAB, \h28}, "FIID">>, <<{\h0B}, "FIDD">>, <<{\h2B}, "FIIDD">>,
  <<{\hF4}, "FOODD">>, <<{\hD4}, "FOdDDDD">>, <<{\h62}, "FOOIDD">>,
  <<{\hC2, \hE2}, "FOI">>, <<Branches, "FOb">>, <<{\h82}, "FOOI">>,
  <<{\h4C}, "FOO">>, <<{\h5C}, "FOOO">>, <<{\h6C}, "FOODD">>,
  <<{\h7C, \h20}, "FOOIDD">>, <<{\hDC}, "FOODDD">>, <<{\hFC}, "FODDOIDD">>,
  <<{\h22}, "FOODIODD">>, <<{\h60}, "FIIDDI">>, <<{\h6B}, "FIIDDD">>,
  <<{\h40}, "FIIDDDn">>, <<{\h54, \h44}, "FOODDII">>, <<{\hCB, \hDB}, "FII">> >>)
  IN [op \in DOMAIN rows |-> Letters(rows[op])]

tmpl_int == Letters("FIDDDDDD")

Class == [F |-> "F", O |-> "O", p |-> "O", q |-> "O", D |-> "D", m |-> "D",
          w |-> "D", n |-> "D", I |-> "I", d |-> "I", x |-> "I", b |-> "I"]
Shown_short(cur) ==                        \* mutant: an RTI without its bank byte
  [F |-> TRUE, O |-> TRUE, D |-> TRUE, I |-> TRUE, d |-> cur.dl,
   x |-> cur.cross \/ cur.x16, b |-> cur.taken, m |-> cur.m16,
   w |-> cur.x16, n |-> FALSE, p |-> cur.m16, q |-> cur.x16]
Shown(cur) == [F |-> TRUE, O |-> TRUE, D |-> TRUE, I |-> TRUE, d |-> cur.dl,
               x |-> cur.cross \/ cur.x16, b |-> cur.taken, m |-> cur.m16,
               w |-> cur.x16, n |-> cur.native, p |-> cur.m16, q |-> cur.x16]

All == -1       \* upto: walk the whole template

(* The cycles up to the one that makes access number upto, or up to the     *)
(* first whose access has not been made.  A cycle is [clk, kind, idx], idx  *)
(* the number of its access, 0 for none.  A missing access ends the walk    *)
(* unless upto is All, where it counts as a 6-clock read.                   *)
RECURSIVE Walk(_, _, _, _, _)
Walk(cur, log, upto, t, at) ==
  IF t = <<>> THEN <<>>
  ELSE LET c      == Head(t)
           silent == c \in {"F", "I"} \/ (c = "O" /\ cur.compiled)
           left   == {i \in at[c]..Len(log) : log[i].fetch = (c = "O")}
           i      == IF silent \/ left = {} THEN 0 ELSE Min(left)
           cycle  == [idx  |-> i,
                      clk  |-> IF i # 0 THEN log[i].ck
                               ELSE IF silent /\ c # "I" THEN cur.speed ELSE 6,
                      kind |-> IF c = "I" THEN "idle"
                               ELSE IF i # 0 /\ log[i].write THEN "write" ELSE "read"]
       IN CASE ~silent /\ i = 0 /\ upto # All -> <<>>
            [] ~silent /\ i = upto            -> <<cycle>>
            [] OTHER -> <<cycle>> \o Walk(cur, log, upto, Tail(t),
                                          IF i = 0 THEN at ELSE [at EXCEPT ![c] = i + 1])

cyc_cycles(cur, log, upto) ==
  LET shown == Shown(cur)
      t == SelectSeq(IF cur.interrupt THEN tmpl_int ELSE Templates[cur.op], LAMBDA c : shown[c])
  IN Walk(cur, log, upto, [k \in DOMAIN t |-> Class[t[k]]], [F |-> 1, I |-> 1, O |-> 1, D |-> 1])

CycleClocks(cycles) == Total([k \in DOMAIN cycles |-> cycles[k].clk])
=============================================================================
