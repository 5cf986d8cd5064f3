--------------------------------- MODULE Cpu ---------------------------------
(* One instruction or interrupt entry at a time, run by the interpreter or  *)
(* as generated code, with the bus log and the cycle accounts kept while it *)
(* runs: interp_step, interp_interrupt and ct_insn's body over bus.c and    *)
(* cycles.c.  An execution is any of Executions: the registers, the values  *)
(* it meets, where its code lies and who runs it.                           *)
EXTENDS Ops, Cycles, Bus

CONSTANTS
  Executions(_),  \* for an opcode, or an interrupt entry (Interrupt), its executions:
                  \* records [op, s, in, at, memsel, compiled, known, interrupt]
  DataPlaces      \* addresses whose speeds the data accesses have

VARIABLES
  ex,     \* the execution under way, or None
  does,   \* what it does: CPU after it, accesses, flags for the cycles
  log     \* the accesses made so far: ct_bus_log
vars == <<ex, does, log>>

None == [op |-> -1]
Running == ex # None

(* The accesses of an execution in the code's order. *)
Effect(x) ==
  IF x.interrupt THEN interp_interrupt(x.s, x.in)
  ELSE IF x.compiled THEN
    generated(x.s, x.op, x.in, cur_size(x.op, Wide(x.s, "m"), Wide(x.s, "x")), x.known)
  ELSE interp_step(x.s, x.op, x.in)

(* cyc_begin's record.  The index crossing is known once the address is     *)
(* formed, a taken branch when the instruction has made its accesses.       *)
CurOf_late(x, d, n) ==                     \* mutant: the crossing is known at the end only
  [op |-> x.op, m16 |-> Wide(x.s, "m"), x16 |-> Wide(x.s, "x"),
   dl |-> Lo(x.s.DP) # 0, native |-> ~x.s.e, interrupt |-> x.interrupt,
   speed |-> cyc_master_per_cycle(x.at, x.memsel), compiled |-> x.compiled,
   size |-> cur_size(x.op, Wide(x.s, "m"), Wide(x.s, "x")),
   cross |-> d.cross /\ n = Len(d.acc), taken |-> d.taken /\ n = Len(d.acc)]
CurOf(x, d, n) ==
  [op |-> x.op, m16 |-> Wide(x.s, "m"), x16 |-> Wide(x.s, "x"),
   dl |-> Lo(x.s.DP) # 0, native |-> ~x.s.e, interrupt |-> x.interrupt,
   speed |-> cyc_master_per_cycle(x.at, x.memsel), compiled |-> x.compiled,
   size |-> cur_size(x.op, Wide(x.s, "m"), Wide(x.s, "x")),
   cross |-> d.cross /\ n >= d.ea, taken |-> d.taken /\ n = Len(d.acc)]
Cur == CurOf(ex, does, Len(log))

Init == ex = None /\ does = None /\ log = <<>>

(* cyc_begin: a fatal instruction stops the program and is not begun. *)
Begin(x) ==
  /\ x.compiled => Compiles(x.s, x.op)
  /\ ~Effect(x).fatal
  /\ ex' = x
  /\ does' = Effect(x)
  /\ log' = <<>>

(* read8 and write8: an operand byte comes from the code's own region, any  *)
(* other access has the speed of its place.                                 *)
Access ==
  /\ Running
  /\ Len(log) < Len(does.acc)
  /\ LET a == does.acc[Len(log) + 1]
     IN \E place \in IF a.k = "O" THEN {ex.at} ELSE DataPlaces :
          log' = Append(log, [fetch |-> a.k = "O", write |-> a.k = "W",
                              ck |-> bus_access_clocks(place, ex.memsel)])
  /\ UNCHANGED <<ex, does>>

Complete == Running /\ Len(log) = Len(does.acc)

(* cyc_finish (or interp_interrupt's return): charged and done. *)
Finish ==
  /\ Complete
  /\ ex' = None
  /\ does' = None
  /\ log' = <<>>

Interrupt == 256
Start == ~Running /\ \E op \in 0..255 \cup {Interrupt} : \E x \in Executions(op) : Begin(x)
Next == Start \/ Access \/ Finish
Spec == Init /\ [][Next]_vars

(* What an interrupt entry's caller charges, or cyc_finish. *)
Charge == IF ex.interrupt THEN cyc_master_per_cycle(ex.at, ex.memsel) + 6 + BusClocks(log)
          ELSE model_clocks(Cur, log)

-----------------------------------------------------------------------------
(* The registers the program can have: widths, 8-bit index registers when X *)
(* is set, 8-bit everything and page 1 in emulation mode.                   *)
Legal(s) ==
  /\ {s.A, s.X, s.Y, s.S, s.DP, s.PC} \subseteq 0..Word - 1
  /\ {s.DB, s.PB} \subseteq 0..Byte - 1
  /\ s.P \subseteq Flags
  /\ "x" \in s.P => s.X < Byte /\ s.Y < Byte
  /\ s.e => {"m", "x"} \subseteq s.P /\ Hi(s.S) = 1

(* cyc_cycles' promise to the scheduler's walk (cycles.h:31-37): walking to *)
(* a data access just made ends at that access's own cycle (a template one  *)
(* access short or in another order would place a register read at another  *)
(* access's clock); and what it has once said of an instruction it never    *)
(* takes back, although the page crossing and the branch only become known  *)
(* while it runs: sched.c's walk_insn goes on from the cycle it had reached.*)
AccessHasItsCycle ==
  /\ (Running /\ log # <<>> /\ ~log[Len(log)].fetch) =>
       LET walk == cyc_cycles(Cur, log, Len(log))
       IN walk # <<>> /\ walk[Len(walk)].idx = Len(log)
  /\ Complete => \A j \in DOMAIN log :
       ~log[j].fetch => IsPrefix(cyc_cycles(CurOf(ex, does, j), SubSeq(log, 1, j), j),
                                 cyc_cycles(Cur, log, All))

(* cyc_check as an invariant: at its end an instruction's cycles add up to  *)
(* the clocks it is charged by the per-opcode count, and each access has    *)
(* one cycle, for the interpreter, generated code and an interrupt entry.   *)
TemplateIsCount ==
  Complete => LET walk == cyc_cycles(Cur, log, All)
              IN /\ CycleClocks(walk) = Charge
                 /\ \A i \in DOMAIN log :
                      Cardinality({k \in DOMAIN walk : walk[k].idx = i}) = 1

SameDone(interp, native, table) ==
  LET bus == SelectSeq(interp.acc, LAMBDA a : a.k # "O")
  IN /\ interp.s = native.s
     /\ interp.cross = native.cross /\ interp.taken = native.taken
     /\ native.acc = IF table THEN SubSeq(bus, 1, Len(bus) - 2) ELSE bus

(* ops.h's "instruction semantics" against interp.c's: generated code and   *)
(* the interpreter leave the same CPU, make the same reads and writes at    *)
(* the same addresses in the same order (a switched jump table apart), and  *)
(* stop the program at the same instructions; and the registers are legal   *)
(* ones, which nothing checks again before the next instruction.            *)
NativeIsInterp ==
  /\ Running => Legal(does.s)
  /\ (Running /\ ~ex.interrupt /\ log = <<>> /\ Compiles(ex.s, ex.op)) =>
       SameDone(Effect([ex EXCEPT !.compiled = FALSE]), Effect([ex EXCEPT !.compiled = TRUE]),
                ex.known /\ ex.op \in {\h7C, \hFC})

(* cycles.h: "both charge exactly the same master clocks per instruction".  *)
(* An interpreted instruction, generated instead, passes the same cycles    *)
(* clock for clock and is charged the same, except that a switched jump     *)
(* table's two reads are charged 6 clocks whatever its region's speed.      *)
NativeTimedAsInterp ==
  (Complete /\ ~ex.interrupt /\ ~ex.compiled /\ Compiles(ex.s, ex.op)) =>
    LET table  == ex.known /\ ex.op \in {\h7C, \hFC}
        own    == SelectSeq(log, LAMBDA a : ~a.fetch)
        theirs == IF table THEN SubSeq(own, 1, Len(own) - 2) ELSE own
        gen    == CurOf([ex EXCEPT !.compiled = TRUE], does, Len(does.acc))
        clocks(walk) == [k \in DOMAIN walk |-> <<walk[k].clk, walk[k].kind>>]
        slow   == {i \in Len(log) - 1..Len(log) : log[i].ck # 6}
    IN IF table /\ slow # {}
       THEN model_clocks(Cur, log) >= model_clocks(gen, theirs)
       ELSE /\ clocks(cyc_cycles(Cur, log, All)) = clocks(cyc_cycles(gen, theirs, All))
            /\ model_clocks(Cur, log) = model_clocks(gen, theirs)

(* An interrupt entry and the RTI that ends its handler restore the         *)
(* program: the RTI pulls the frame's bytes where the entry pushed them, in *)
(* the reverse order, and the PC, bank, flags and stack pointer are back,   *)
(* whatever the registers' widths, in interp.c and as ops.h's op_rti.       *)
RtiUndoesInterrupt ==
  (Running /\ ex.interrupt /\ log = <<>>) =>
    LET frame == SubSeq(does.acc, 1, 4)                 \* PB, PC high, PC low, P
        in == [ex.in EXCEPT !.fl  = frame[4].v,
                            !.ptr = frame[1].v * Word + frame[2].v * Byte + frame[3].v]
    IN \A r \in {interp_step(does.s, \h40, in), generated(does.s, \h40, in, 1, FALSE)} :
         /\ r.s = ex.s
         /\ r.acc = [i \in 1..4 |-> R(frame[5 - i].a)]

(* The arithmetic's flags against what they mean: C is the unsigned carry   *)
(* (no borrow), V says the signed result does not fit, Z and N describe the *)
(* result; by the interpreter's formulas and generated code's alike.        *)
AddMeans(P, a, b, wide, r) ==
  LET int(v) == IF Sign(v, wide) THEN v - Size(wide) ELSE v
      sum == int(a) + int(b) + Carry(P)
  IN /\ ("c" \in r.P) = (a + b + Carry(P) >= Size(wide))
     /\ ("v" \in r.P) = (sum \notin -(Size(wide) \div 2)..(Size(wide) \div 2) - 1)
     /\ ("z" \in r.P) = (r.val = 0)
     /\ ("n" \in r.P) = (int(r.val) < 0)
ArithmeticMeans ==
  (Running /\ log = <<>> /\ ~ex.interrupt) =>
    LET mn   == Decode[ex.op][1]
        wide == Wide(ex.s, "m")
        a    == get_a(ex.s)
        v    == ex.in.val % Size(wide)
        b    == IF mn = "ADC" THEN v ELSE Size(wide) - 1 - v
    IN mn \in {"ADC", "SBC"} =>
         AddMeans(ex.s.P, a, b, wide, [val |-> get_a(does.s), P |-> does.s.P])
=============================================================================
