------------------------------- MODULE MCEdge -------------------------------
(* A small instance of Edge: a store of two bytes, of one, a $420B write,  *)
(* reads of $2137 and $4212 early and late in their instruction, and an    *)
(* instruction that shifts the alignment of all.                           *)
EXTENDS Edge

Fetch == [clk |-> 6, kind |-> "read", to |-> "none"]
Idle  == [clk |-> 6, kind |-> "idle", to |-> "none"]
Read(to)  == [clk |-> 6, kind |-> "read", to |-> to]
Write(to) == [clk |-> 8, kind |-> "write", to |-> to]

MCInsns == {<<Fetch, Write("a"), Write("b")>>, <<Fetch, Idle, Write("b")>>, <<Fetch, Write("mdmaen")>>,
            <<Fetch, Read("slhv")>>, <<Fetch, Fetch, Fetch, Read("hvbjoy")>>, <<Fetch, [Idle EXCEPT !.clk = 8]>>}
=============================================================================
