----------------------------- MODULE MCCompiled -----------------------------
(* Small programs of three functions: F at 1, G at 7 and H at 11.          *)
EXTENDS Compiled

F == 1
G == 7
H == 11

Ins(o, to, w) == [op |-> o, to |-> to, w |-> w]
Ret == Ins("ret", <<>>, 0)
Use == Ins("use", <<>>, 0)
Php == Ins("php", <<>>, 0)
PullP == Ins("plp", <<>>, 0)
Set(w) == Ins("set", <<>>, w)
Br(t) == Ins("br", <<t>>, 0)
Jmp(t) == Ins("jmp", <<t>>, 0)
Jml(t) == Ins("jml", <<t>>, 0)
CallOf(ts) == Ins("call", ts, 0)

(* F's first three instructions in any combination, against callees that   *)
(* widen, recurse, jump away or are left to the interpreter; two PHPs that *)
(* meet in front of a PLP; exits that never settle; a body without an end; *)
(* a recursion entered while another is being decoded, that leaves it be.  *)
FOps == {Use, Php, PullP, Set(8), CallOf(<<F>>), CallOf(<<G>>), CallOf(<<G, H>>),
         Br(5), Br(1), Jmp(G)}
FBodies == {<<a, b, c, Ret, Set(8), Ret>> : a \in FOps, b \in FOps, c \in FOps}
PhpsMeet == <<Br(5), Set(8), Php, Jmp(G), Php, Set(8)>>
NeverSettles == <<Br(4), CallOf(<<F>>), Jml(H), Set(8), Ret, Ret>>

CallsBoth == <<Br(4), CallOf(<<F>>), CallOf(<<G>>), Ret, Set(8), Ret>>
CallsItself == <<Br(9), CallOf(<<G>>), Set(8), Ret>>

GBodies == {<<Br(9), Ret, Set(8), Ret>>, <<Br(10), Set(8), CallOf(<<F>>), Ret>>,
            <<CallOf(<<F>>), Jml(H), Use, Ret>>, <<CallOf(<<H>>), Use, Ret, Ret>>}
Leaf == <<Set(8), Ret>>

Program(f, g, h, fs, gs, hs) ==
    [code |-> f \o g \o h,
     states |-> [a \in 1 .. 12 |-> CASE a = F -> fs [] a = G -> gs [] a = H -> hs [] OTHER -> {}]]

ManyPrograms ==
    {Program(f, g, Leaf, {16}, {16}, hs) : f \in FBodies, g \in GBodies, hs \in {{}, {16}}}
    \union {Program(<<Set(8), CallOf(<<G>>), Ret, Ret, Ret, Ret>>, g, Leaf, {16, 8}, {16, 8}, {16})
              : g \in GBodies}
    \union {Program(PhpsMeet, <<PullP, Ret, Ret, Ret>>, Leaf, {16}, {}, {}),
            Program(CallsBoth, CallsItself, Leaf, {16}, {16}, {16}),
            Program(NeverSettles, <<Ret, Ret, Ret, Ret>>, <<Ret, Ret>>, {16}, {}, {16}),
            Program(NeverSettles, <<Ret, Ret, Ret, Ret>>, <<Use, Use>>, {16}, {}, {16})}

(* A recursion inside another: 1 calls 3, which calls 8 and 1; 8 calls 3.  *)
Nested ==
    {[code |-> <<CallOf(<<3>>), Ret,
                 Br(7), CallOf(<<8>>), CallOf(<<1>>), Set(8), Ret,
                 CallOf(<<3>>), Use, Ret>>,
      states |-> [a \in 1 .. 10 |-> IF a \in {1, 3, 8} THEN {16} ELSE {}]]}
=============================================================================
