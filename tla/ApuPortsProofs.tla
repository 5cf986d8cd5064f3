--------------------------- MODULE ApuPortsProofs ---------------------------
(***************************************************************************)
(* Proofs about ApuPorts: the SPC700 stands at the CPU's time at every     *)
(* port access, and each of its cycles reads the writes of a half-cycle    *)
(* before its end, for every ratio of the clocks, every set of ports and   *)
(* values and instructions of any length.                                  *)
(***************************************************************************)
EXTENDS ApuPorts, TLAPS

Writes == [port : Ports, value : Values, off : Int]

Types ==
    /\ h \in Int /\ at \in Nat /\ lag \in Int /\ todo \in Nat
    /\ access \in {"none", "port", "line"}
    /\ port_new \in [Ports -> Values] /\ port_vis \in [Ports -> Values]
    /\ settled \in [Ports -> Values]
    /\ port_pending \in BOOLEAN
    /\ recent \subseteq Writes

(* Running what is still to run leaves the SPC700 less than a cycle behind *)
(* the access it is run for; between accesses it is never ahead of the     *)
(* CPU's last access, nor of the instruction's start.                      *)
InTime ==
    /\ access = "none" => todo = 0 /\ 0 <= Offset
    /\ access # "none" => 0 <= Offset - todo * Cycle /\ Offset - todo * Cycle < Cycle
    /\ h >= LineClocks => at = 0

(* No two writes come at one clock, and none comes after the last access;  *)
(* each came when the SPC700 was less than a cycle behind.                 *)
Ordered ==
    /\ \A r \in recent : r.off < Cycle /\ (r.off < Offset \/ (r.off = Offset /\ access # "port"))
    /\ \A q, r \in recent : q.off = r.off => q = r

IsLast(r, S, p) == r \in S /\ r.port = p /\ \A q \in S : q.port = p => q.off <= r.off
None(S, p) == \A r \in S : r.port # p

(* v[p] is what the writes in S leave in port p.                           *)
Leaves(v, S, p) ==
    \/ None(S, p) /\ v[p] = settled[p]
    \/ \E r \in S : IsLast(r, S, p) /\ v[p] = r.value

(* The latch holds what the writes that are due leave in each port, the    *)
(* last values what all of them leave; the two differ only while a write   *)
(* that is not due yet is pending.                                         *)
Latched ==
    /\ \A p \in Ports : Leaves(port_new, recent, p) /\ Leaves(port_vis, Due, p)
    /\ ~port_pending => port_vis = port_new
    /\ port_pending => \E r \in recent : r.off > Half

Inv == Types /\ InTime /\ Ordered /\ Latched

LEMMA Constants ==
    /\ Num \in Nat /\ Num > 0 /\ Den \in Nat /\ Den > 0 /\ LineClocks \in Nat
    /\ StartDelay \in Nat /\ StartDelay * Num >= 4 * Den
    /\ \A p \in Ports : p \in 0 .. 3
    /\ 0 \in Values
    /\ \A d \in InsnClocks : d \in Nat /\ d > 0
    /\ Half = Den /\ Cycle = 2 * Den /\ Half \in Nat /\ Cycle \in Nat
  BY ConstantsAssumption DEF Half, Cycle

-----------------------------------------------------------------------------
(* Arithmetic.                                                             *)

LEMMA Quotient ==
    ASSUME NEW a \in Nat, NEW d \in Nat, d > 0
    PROVE  a \div d \in Nat /\ a % d \in 0 .. d - 1 /\ a = (d * (a \div d)) + (a % d)
  OBVIOUS

LEMMA Products ==
    ASSUME NEW a \in Nat, NEW b \in Nat, NEW n \in Nat
    PROVE  a * n \in Nat /\ (a + b) * n = a * n + b * n /\ (a <= b => a * n <= b * n)
           /\ (n > 0 /\ a < b => a * n < b * n)
  OBVIOUS

(* The catch-up brings the SPC700 to less than a cycle behind.             *)
LEMMA CyclesTaken ==
    ASSUME NEW a \in Nat
    PROVE  Cycles(a) \in Nat /\ 0 <= a - Cycles(a) * Cycle /\ a - Cycles(a) * Cycle < Cycle
  <1> DEFINE q == a \div Den
             r == a % Den
  <1>1. q \in Nat /\ r \in 0 .. Den - 1 /\ a = Den * q + r  BY Constants, Quotient
  <1> HIDE DEF q, r
  <1>2. Cycles(a) = IF q - 1 > 0 THEN q \div 2 ELSE 0
    <2>1. (q - 1) + 1 = q  BY <1>1
    <2> QED  BY <2>1 DEF Cycles, q
  <1>3. CASE q > 1
    <2> DEFINE n == q \div 2
    <2>1. n \in Nat /\ (q = 2 * n \/ q = 2 * n + 1)  BY <1>1
    <2> HIDE DEF n
    <2>2. Den * (2 * n) = n * (2 * Den) /\ Den * (2 * n + 1) = n * (2 * Den) + Den
      BY <2>1, Constants
    <2>3. Cycles(a) = n  BY <1>1, <1>2, <1>3 DEF n
    <2>4. n * (2 * Den) \in Nat  BY <2>1, Constants
    <2> QED  BY <1>1, <2>1, <2>2, <2>3, <2>4, Constants
  <1>4. CASE q <= 1
    <2>1. Cycles(a) = 0  BY <1>1, <1>2, <1>4
    <2>2. Den * q = 0 \/ Den * q = Den
      <3>1. q = 0 \/ q = 1  BY <1>1, <1>4
      <3> QED  BY <3>1, Constants
    <2>3. 0 * Cycle = 0  BY Constants
    <2> QED  BY <1>1, <2>1, <2>2, <2>3, Constants
  <1> QED  BY <1>1, <1>3, <1>4

-----------------------------------------------------------------------------
(* What a set of writes leaves in a port.                                  *)

LEMMA LastWriteIs ==
    ASSUME NEW S, NEW p, NEW v, NEW r, IsLast(r, S, p), \A q \in S : q.off \in Int,
           \A q, s \in S : q.off = s.off => q = s
    PROVE  LastWrite(v, S, p) = r.value
  <1> DEFINE of == {q \in S : q.port = p}
  <1>1. r \in of /\ \A q \in of : q.off <= r.off  BY DEF IsLast
  <1>2. \A s \in of : (\A q \in of : q.off <= s.off) => s = r
    <2> SUFFICES ASSUME NEW s \in of, \A q \in of : q.off <= s.off PROVE s = r  OBVIOUS
    <2>1. r.off <= s.off /\ s.off <= r.off  BY <1>1
    <2> QED  BY <1>1, <2>1
  <1>3. (CHOOSE s \in of : \A q \in of : q.off <= s.off) = r  BY <1>1, <1>2
  <1> QED  BY <1>1, <1>3 DEF LastWrite

LEMMA LastWriteNone ==
    ASSUME NEW S, NEW p, NEW v, None(S, p)
    PROVE  LastWrite(v, S, p) = v[p]
  BY DEF LastWrite, None

LEMMA WantedIs ==
    ASSUME Types, Ordered, NEW v, NEW p \in Ports, Leaves(v, Due, p)
    PROVE  Wanted[p] = v[p]
  <1>1. \A q \in Due : q.off \in Int  BY DEF Types, Writes, Due
  <1>2. \A q, s \in Due : q.off = s.off => q = s  BY DEF Ordered, Due
  <1>3. CASE None(Due, p)
    <2>1. Wanted[p] = settled[p]  BY <1>3, LastWriteNone DEF Wanted
    <2>2. ~ \E r \in Due : IsLast(r, Due, p)  BY <1>3 DEF None, IsLast
    <2> QED  BY <2>1, <2>2 DEF Leaves
  <1>4. CASE ~None(Due, p)
    <2>1. PICK r \in Due : IsLast(r, Due, p) /\ v[p] = r.value  BY <1>4 DEF Leaves
    <2> QED  BY <1>1, <1>2, <2>1, LastWriteIs DEF Wanted
  <1> QED  BY <1>3, <1>4

LEMMA WantedIsVis == ASSUME Inv PROVE port_vis = Wanted
  <1>1. Wanted = [p \in Ports |-> Wanted[p]] /\ port_vis = [p \in Ports |-> port_vis[p]]
    BY DEF Inv, Types, Wanted
  <1>2. \A p \in Ports : Wanted[p] = port_vis[p]  BY WantedIs DEF Inv, Latched
  <1> QED  BY <1>1, <1>2

-----------------------------------------------------------------------------
(* The steps.                                                              *)

LEMMA OffsetType == ASSUME Types PROVE Offset \in Int /\ todo * Cycle \in Int
  BY Constants DEF Types, Offset

(* A step that touches neither the ports nor the writes keeps what is said *)
(* of them as long as no write comes to lie after the last access.         *)
LEMMA HistoryKept ==
    ASSUME Inv, Types', UNCHANGED <<ports, history>>,
           Offset <= Offset' /\ (access' = "port" => Offset < Offset')
    PROVE  Ordered' /\ Latched'
  <1>1. Ordered'
    <2>1. Offset \in Int /\ Offset' \in Int  BY Constants DEF Inv, Types, Offset
    <2>2. recent' = recent /\ \A r \in recent : r.off \in Int
      BY DEF history, Inv, Types, Writes
    <2>3. Cycle' = Cycle  BY DEF Cycle
    <2>4. access \in {"none", "port", "line"} /\ access' \in {"none", "port", "line"}
      BY DEF Inv, Types
    <2>5. ASSUME NEW r \in recent
          PROVE  r.off < Cycle /\ (r.off < Offset' \/ (r.off = Offset' /\ access' # "port"))
      <3>1. r.off < Cycle /\ (r.off < Offset \/ (r.off = Offset /\ access # "port"))
        BY DEF Inv, Ordered
      <3> QED  BY <2>1, <2>2, <2>4, <3>1
    <2> QED  BY <2>2, <2>3, <2>5 DEF Inv, Ordered
  <1>2. Latched'
    <2>1. Due' = Due  BY DEF Due, history, Half
    <2> QED  BY <2>1 DEF Inv, Latched, Leaves, IsLast, None, ports, history, Half
  <1> QED  BY <1>1, <1>2

LEMMA InitInv == ASSUME Init PROVE Inv
  <1>1. /\ Cleared \in [Ports -> Values] /\ StartDelay * Num \in Nat /\ 0 * Num = 0
    BY Constants DEF Cleared
  <1>2. Types
    <2>1. lag = StartDelay * Num - 2 * Cycle /\ lag \in Int  BY <1>1, Constants DEF Init
    <2>2. h \in Int /\ at \in Nat /\ todo \in Nat  BY Constants DEF Init
    <2>3. access \in {"none", "port", "line"} /\ recent \subseteq Writes  BY DEF Init
    <2>4. port_pending \in BOOLEAN  BY Zenon DEF Init
    <2> QED  BY <1>1, <2>1, <2>2, <2>3, <2>4 DEF Init, Types
  <1>3. Offset = StartDelay * Num - 4 * Den  BY <1>1, Constants DEF Init, Offset
  <1>4. InTime  BY <1>1, <1>3, Constants DEF Init, InTime
  <1>5. Ordered /\ Latched  BY DEF Init, Ordered, Latched, Leaves, None, Due
  <1> QED  BY <1>2, <1>4, <1>5 DEF Inv

LEMMA SyncInv ==
    ASSUME Inv, NEW d \in InsnClocks, NEW c \in 1 .. d, Sync(c)
    PROVE  Inv'
  <1>1. /\ at \in Nat /\ lag \in Int /\ c \in Nat /\ c > at /\ at' = c /\ lag' = lag /\ h' = h
        /\ access = "none" /\ access' = "port" /\ h < LineClocks
        /\ todo' = Cycles(lag + c * Num) /\ 0 <= Offset
    BY Constants DEF Sync, Inv, Types, InTime
  <1>2. /\ c * Num \in Nat /\ at * Num \in Nat /\ at * Num < c * Num
    BY <1>1, Constants, Products
  <1>3. Offset = lag + at * Num /\ Offset' = lag + c * Num  BY <1>1 DEF Offset
  <1>4. Offset' \in Nat /\ Offset < Offset'  BY <1>1, <1>2, <1>3
  <1>5. todo' \in Nat /\ 0 <= Offset' - todo' * Cycle /\ Offset' - todo' * Cycle < Cycle
    BY <1>1, <1>3, <1>4, CyclesTaken
  <1>6. Types'  BY <1>1, <1>5 DEF Sync, Inv, Types, ports, history
  <1>7. InTime'
    <2>1. Cycle' = Cycle /\ h \in Int /\ ~(h' >= LineClocks)
      BY <1>1, Constants DEF Cycle, Inv, Types
    <2> QED  BY <1>1, <1>5, <2>1 DEF InTime
  <1>8. UNCHANGED <<ports, history>>  BY DEF Sync
  <1> QED  BY <1>4, <1>6, <1>7, <1>8, OffsetType, HistoryKept DEF Inv

LEMMA CpuReadInv == ASSUME Inv, CpuRead PROVE Inv'
  <1>1. Types'  BY DEF CpuRead, Inv, Types, ports, history
  <1>2. /\ access = "port" /\ access' = "none" /\ todo = 0 /\ todo' = 0 /\ h' = h /\ at' = at
        /\ Offset' = Offset
    BY DEF CpuRead, Offset
  <1>3. InTime'
    <2>1. 0 * Cycle = 0 /\ Offset \in Int  BY Constants, OffsetType DEF Inv
    <2> QED  BY <1>2, <2>1 DEF Inv, InTime
  <1>4. UNCHANGED <<ports, history>> /\ Offset <= Offset'
    BY <1>2, OffsetType DEF CpuRead, Inv
  <1> QED  BY <1>1, <1>2, <1>3, <1>4, HistoryKept DEF Inv

LEMMA EndInsnInv ==
    ASSUME Inv, NEW d \in InsnClocks, EndInsn(d)
    PROVE  Inv'
  <1>1. /\ at \in Nat /\ lag \in Int /\ d \in Nat /\ d >= at /\ at' = 0 /\ lag' = lag + d * Num
        /\ h' = h + d /\ h \in Int /\ access = "none" /\ access' = "none" /\ 0 <= Offset
        /\ todo = 0 /\ todo' = 0
    BY Constants DEF EndInsn, Inv, Types, InTime
  <1>2. d * Num \in Nat /\ at * Num \in Nat /\ at * Num <= d * Num /\ 0 * Num = 0
    BY <1>1, Constants, Products
  <1>3. Offset = lag + at * Num /\ Offset' = lag + d * Num
    BY <1>1, <1>2 DEF Offset
  <1>4. Offset \in Int /\ Offset' \in Nat /\ Offset <= Offset'  BY <1>1, <1>2, <1>3
  <1>5. Types'  BY <1>1, <1>2 DEF EndInsn, Inv, Types, ports, history
  <1>6. InTime'  BY <1>1, <1>4 DEF InTime
  <1>7. UNCHANGED <<ports, history>>  BY DEF EndInsn
  <1> QED  BY <1>1, <1>4, <1>5, <1>6, <1>7, HistoryKept DEF Inv

LEMMA EndLineInv == ASSUME Inv, EndLine PROVE Inv'
  <1>1. /\ at = 0 /\ at' = at /\ lag \in Int /\ lag' = lag /\ h' = h /\ access = "none"
        /\ access' = "line" /\ todo' = Cycles(lag) /\ 0 <= Offset
    BY DEF EndLine, LineSync, Inv, Types, InTime
  <1>2. Offset = lag /\ Offset' = lag  BY <1>1, Constants DEF Offset
  <1>3. todo' \in Nat /\ 0 <= Offset' - todo' * Cycle /\ Offset' - todo' * Cycle < Cycle
    BY <1>1, <1>2, CyclesTaken
  <1>4. Types'  BY <1>1, <1>3 DEF EndLine, Inv, Types, ports, history
  <1>5. InTime'  BY <1>1, <1>3 DEF InTime, Cycle
  <1>6. UNCHANGED <<ports, history>>  BY DEF EndLine
  <1> QED  BY <1>1, <1>2, <1>4, <1>5, <1>6, HistoryKept DEF Inv

LEMMA NextLineInv == ASSUME Inv, NextLine PROVE Inv'
  <1>1. /\ at' = at /\ lag' = lag /\ h' = h - LineClocks /\ access' = "none"
        /\ todo = 0 /\ todo' = 0 /\ access = "line" /\ h \in Int
        /\ 0 <= Offset - todo * Cycle /\ (h >= LineClocks => at = 0)
    BY DEF NextLine, Inv, Types, InTime
  <1>2. 0 * Cycle = 0 /\ Offset \in Int /\ Offset' = Offset
    BY <1>1, Constants, OffsetType DEF Inv, Offset
  <1>3. Types'  BY <1>1, Constants DEF NextLine, Inv, Types, ports, history
  <1>4. InTime'  BY <1>1, <1>2, Constants DEF InTime
  <1>5. UNCHANGED <<ports, history>>  BY DEF NextLine
  <1> QED  BY <1>1, <1>2, <1>3, <1>4, <1>5, HistoryKept DEF Inv

LEMMA ResetInv == ASSUME Inv, Reset PROVE Inv'
  <1>1. /\ Cleared \in [Ports -> Values] /\ StartDelay * Num \in Nat /\ 0 * Num = 0
    BY Constants DEF Cleared
  <1>2. Types'
    <2>1. lag' = StartDelay * Num - 2 * Cycle /\ lag' \in Int
      BY <1>1, Constants DEF Reset, AfterReset
    <2>2. h' \in Int /\ at' \in Nat /\ todo' \in Nat  BY Constants DEF Reset, AfterReset
    <2>3. access' \in {"none", "port", "line"} /\ recent' \subseteq Writes
      BY DEF Reset, AfterReset
    <2>4. port_pending' \in BOOLEAN  BY Zenon DEF Reset, AfterReset
    <2> QED  BY <1>1, <2>1, <2>2, <2>3, <2>4 DEF Reset, AfterReset, Types
  <1>3. Offset' = StartDelay * Num - 4 * Den
    BY <1>1, Constants DEF Reset, AfterReset, Offset
  <1>4. InTime'  BY <1>1, <1>3, Constants DEF Reset, AfterReset, InTime
  <1>5. Ordered' /\ Latched'
    BY DEF Reset, AfterReset, Ordered, Latched, Leaves, None, Due
  <1> QED  BY <1>2, <1>4, <1>5 DEF Inv

(* The CPU's write is the last to its port, and due unless it is pending.  *)
LEMMA CpuWriteInv ==
    ASSUME Inv, NEW p \in Ports, NEW v \in Values, CpuWrite(p, v)
    PROVE  Inv'
  <1> DEFINE x == [port |-> p, value |-> v, off |-> Offset]
  <1>1. /\ access = "port" /\ access' = "none" /\ todo = 0 /\ todo' = 0
        /\ UNCHANGED <<h, at, lag, settled>> /\ recent' = recent \union {x}
        /\ Offset' = Offset /\ Offset \in Int
    BY OffsetType DEF CpuWrite, Offset, Inv
  <1>2. 0 <= Offset /\ Offset < Cycle
    <2>1. 0 * Cycle = 0  BY Constants
    <2> QED  BY <1>1, <2>1 DEF Inv, InTime
  <1>3. /\ x \in Writes /\ x.port = p /\ x.value = v /\ x.off = Offset
        /\ recent \subseteq Writes /\ \A r \in recent : r.off \in Int /\ r.off < Offset
    BY <1>1 DEF Writes, Inv, Types, Ordered
  <1> HIDE DEF x
  <1>4. \/ port_new[p] = v /\ UNCHANGED ports
        \/ /\ port_new' = [port_new EXCEPT ![p] = v]
           /\ \/ /\ Offset <= Half /\ port_vis' = [port_vis EXCEPT ![p] = v]
                 /\ UNCHANGED port_pending
              \/ ~(Offset <= Half) /\ port_pending' = TRUE /\ UNCHANGED port_vis
    BY DEF CpuWrite, LatchedNow
  <1>5. /\ port_new \in [Ports -> Values] /\ port_vis \in [Ports -> Values]
        /\ port_pending \in BOOLEAN
    BY DEF Inv, Types
  <1>6. Types'  BY <1>1, <1>3, <1>4, <1>5 DEF Inv, Types, ports
  <1>7. InTime'  BY <1>1, <1>2 DEF Inv, InTime
  <1>8. Ordered'
    <2>1. \A r \in recent' : r.off < Cycle /\ r.off <= Offset'
      BY <1>1, <1>2, <1>3 DEF Inv, Ordered
    <2>2. \A q, r \in recent' : q.off = r.off => q = r
      BY <1>1, <1>3 DEF Inv, Ordered
    <2>3. \A r \in recent' : r.off \in Int  BY <1>1, <1>3
    <2> QED  BY <1>1, <2>1, <2>2, <2>3 DEF Ordered, Cycle
  <1>9. ASSUME NEW u, NEW u1, NEW S, NEW q \in Ports, Leaves(u, S, q), S \subseteq recent,
               u1[q] = IF q = p THEN v ELSE u[q]
        PROVE  Leaves(u1, S \union {x}, q)
    <2>1. CASE q = p
      <3>1. IsLast(x, S \union {x}, q)  BY <1>1, <1>3, <1>9, <2>1 DEF IsLast
      <3> QED  BY <1>3, <1>9, <2>1, <3>1 DEF Leaves
    <2>2. CASE q # p
      BY <1>3, <1>9, <2>2 DEF Leaves, IsLast, None
    <2> QED  BY <2>1, <2>2
  <1>10. \A q \in Ports : port_new'[q] = IF q = p THEN v ELSE port_new[q]
    BY <1>4, <1>5 DEF ports
  <1>11. \A q \in Ports : Leaves(port_new', recent', q)
    BY <1>1, <1>9, <1>10 DEF Inv, Latched
  <1>12. CASE Offset <= Half
    <2>1. ~port_pending /\ ~port_pending' /\ port_vis = port_new
      BY <1>1, <1>3, <1>4, <1>12, Constants DEF Inv, Latched, ports
    <2>2. port_vis' = port_new'  BY <1>4, <1>12, <2>1 DEF ports
    <2>3. {r \in recent' : r.off <= Half} = Due \union {x}  BY <1>1, <1>3, <1>12 DEF Due
    <2>4. Due \subseteq recent  BY DEF Due
    <2>5. \A q \in Ports : Leaves(port_vis', Due \union {x}, q)
      BY <1>9, <1>10, <2>1, <2>2, <2>4 DEF Inv, Latched
    <2>6. Due' = Due \union {x}  BY <2>3 DEF Due, Half
    <2> QED  BY <1>1, <1>6, <1>7, <1>8, <1>11, <2>1, <2>2, <2>5, <2>6
             DEF Inv, Latched, Leaves
  <1>13. CASE ~(Offset <= Half)
    <2>1. port_vis' = port_vis  BY <1>4, <1>13 DEF ports
    <2>2. {r \in recent' : r.off <= Half} = Due  BY <1>1, <1>3, <1>13 DEF Due
    <2>3. Due' = Due  BY <2>2 DEF Due, Half
    <2>4. ~port_pending' => port_vis' = port_new'
      BY <1>4, <1>13 DEF ports, Inv, Latched
    <2>5. \E r \in recent' : r.off > Half
      BY <1>1, <1>3, <1>13, Constants
    <2>6. \A q \in Ports : Leaves(port_vis', Due', q)
      BY <2>1, <2>3 DEF Inv, Latched
    <2> QED  BY <1>1, <1>6, <1>7, <1>8, <1>11, <2>4, <2>5, <2>6
             DEF Inv, Latched, Leaves, Half
  <1> QED  BY <1>12, <1>13

(* After a cycle every write that is left is due in the next, and the      *)
(* latch holds the last values.                                            *)
LEMMA SpcCycleInv ==
    ASSUME Inv, NEW clear \in SUBSET {0, 1}, SpcCycle(clear)
    PROVE  Inv'
  <1> DEFINE moved(r) == [r EXCEPT !.off = @ - Cycle]
  <1>1. /\ todo > 0 /\ todo' = todo - 1 /\ lag' = lag - Cycle /\ h' = h /\ at' = at
        /\ access' = access /\ todo \in Nat /\ lag \in Int /\ at \in Nat
        /\ access \in {"port", "line"}
    BY DEF SpcCycle, Inv, Types, InTime
  <1>2. /\ recent' = {moved(r) : r \in Later(clear)} /\ Later(clear) \subseteq recent
    BY DEF SpcCycle, Aged, Later
  <1>3. \A r \in recent : /\ r \in Writes /\ r.off \in Int /\ moved(r) \in Writes
                          /\ moved(r).port = r.port /\ moved(r).value = r.value
                          /\ moved(r).off = r.off - Cycle
    BY Constants DEF Inv, Types, Writes
  <1> HIDE DEF moved
  <1>4. Offset \in Int /\ Offset' = Offset - Cycle
    BY <1>1, Constants, OffsetType DEF Inv, Offset
  <1>5. port_vis = Wanted  BY WantedIsVis
  <1>6. /\ port_new \in [Ports -> Values] /\ port_vis \in [Ports -> Values]
        /\ port_pending \in BOOLEAN
    BY DEF Inv, Types
  <1>7. /\ port_new' = ClearedIn(port_new, clear) /\ settled' = ClearedIn(port_vis, clear)
        /\ port_vis' = port_new' /\ port_pending' = FALSE
    BY <1>5, <1>6 DEF SpcCycle, Landing, ClearedNew, Inv, Latched
  <1>8. /\ port_new' \in [Ports -> Values] /\ settled' \in [Ports -> Values]
        /\ \A p \in Ports : port_new'[p] = IF p \div 2 \in clear THEN 0 ELSE port_new[p]
        /\ \A p \in Ports : settled'[p] = IF p \div 2 \in clear THEN 0 ELSE port_vis[p]
    BY <1>6, <1>7, Constants DEF ClearedIn
  <1>9. recent' \subseteq Writes  BY <1>2, <1>3
  <1>10. Types'
    <2>1. lag' \in Int /\ todo' \in Nat  BY <1>1, Constants
    <2>2. port_pending' \in BOOLEAN  BY <1>7, Zenon
    <2> QED  BY <1>1, <1>7, <1>8, <1>9, <2>1, <2>2 DEF Inv, Types
  <1>11. InTime'
    <2>1. todo' * Cycle = todo * Cycle - Cycle /\ todo * Cycle \in Int  BY <1>1, Constants
    <2> QED  BY <1>1, <1>4, <2>1, Constants DEF Inv, InTime, Cycle
  <1>12. Ordered'
    <2>1. ASSUME NEW r \in recent'
          PROVE  r.off < Cycle /\ (r.off < Offset' \/ (r.off = Offset' /\ access' # "port"))
      <3>1. PICK q \in Later(clear) : r = moved(q)  BY <1>2
      <3> QED  BY <1>1, <1>2, <1>3, <1>4, <3>1, Constants DEF Inv, Ordered
    <2>2. ASSUME NEW q \in recent', NEW r \in recent', q.off = r.off  PROVE q = r
      <3>1. PICK q1 \in Later(clear), r1 \in Later(clear) : q = moved(q1) /\ r = moved(r1)
        BY <1>2
      <3>2. q1.off = r1.off  BY <1>2, <1>3, <2>2, <3>1, Constants
      <3> QED  BY <1>2, <3>1, <3>2 DEF Inv, Ordered
    <2> QED  BY <2>1, <2>2 DEF Ordered, Cycle
  <1>13. Due' = recent'
    <2>1. \A r \in recent' : r.off <= Half
      <3> SUFFICES ASSUME NEW r \in recent' PROVE r.off <= Half  OBVIOUS
      <3>1. PICK q \in Later(clear) : r = moved(q)  BY <1>2
      <3> QED  BY <1>2, <1>3, <3>1, Constants DEF Inv, Ordered
    <2> QED  BY <2>1 DEF Due, Half
  <1>14. ASSUME NEW p \in Ports
         PROVE  \/ None(recent', p) /\ port_new'[p] = settled'[p]
                \/ \E r \in recent' : IsLast(r, recent', p) /\ port_new'[p] = r.value
    <2>1. CASE p \div 2 \in clear
      <3>1. \A r \in Later(clear) : r.port # p  BY <2>1 DEF Later
      <3>2. None(recent', p)  BY <1>2, <1>3, <3>1 DEF None
      <3> QED  BY <1>8, <2>1, <3>2
    <2>2. CASE p \div 2 \notin clear /\ None(recent, p)
      <3>1. None(Due, p) /\ port_vis[p] = settled[p]
        BY <2>2 DEF None, Due, Inv, Latched, Leaves, IsLast
      <3>2. port_new[p] = settled[p]  BY <2>2 DEF Inv, Latched, Leaves, None, IsLast
      <3>3. None(recent', p)  BY <1>2, <1>3, <2>2 DEF None
      <3> QED  BY <1>8, <2>2, <3>1, <3>2, <3>3
    <2>3. CASE p \div 2 \notin clear /\ ~None(recent, p)
      <3>1. PICK r \in recent : IsLast(r, recent, p) /\ port_new[p] = r.value
        BY <2>3 DEF Inv, Latched, Leaves
      <3>2. CASE r.off > Half
        <4>1. r \in Later(clear)  BY <2>3, <3>1, <3>2 DEF Later, IsLast
        <4>2. IsLast(moved(r), recent', p)
          BY <1>2, <1>3, <3>1, <4>1, Constants DEF IsLast
        <4> QED  BY <1>2, <1>3, <1>8, <2>3, <3>1, <4>1, <4>2
      <3>3. CASE ~(r.off > Half)
        <4>1. \A q \in recent : q.port = p => q.off <= Half
          BY <1>3, <3>1, <3>3, Constants DEF IsLast
        <4>2. None(recent', p)
          BY <1>2, <1>3, <4>1, Constants DEF None, Later
        <4>3. IsLast(r, Due, p)
          BY <1>3, <3>1, <4>1 DEF IsLast, Due
        <4>4. Wanted[p] = r.value
          <5>1. \A q \in Due : q.off \in Int  BY <1>3 DEF Due
          <5>2. \A q, s \in Due : q.off = s.off => q = s  BY DEF Inv, Ordered, Due
          <5> QED  BY <4>3, <5>1, <5>2, LastWriteIs DEF Wanted
        <4> QED  BY <1>5, <1>8, <2>3, <3>1, <4>2, <4>4
      <3> QED  BY <3>2, <3>3
    <2> QED  BY <2>1, <2>2, <2>3
  <1>15. Latched'
    BY <1>7, <1>13, <1>14 DEF Latched, Leaves
  <1> QED  BY <1>10, <1>11, <1>12, <1>15 DEF Inv

LEMMA StepInv == ASSUME Inv, [Next]_vars PROVE Inv'
  <1>1. CASE \E d \in InsnClocks : \E c \in 1 .. d : Sync(c)  BY <1>1, SyncInv
  <1>2. CASE \E clear \in SUBSET {0, 1} : SpcCycle(clear)  BY <1>2, SpcCycleInv
  <1>3. CASE CpuRead  BY <1>3, CpuReadInv
  <1>4. CASE \E p \in Ports, v \in Values : CpuWrite(p, v)  BY <1>4, CpuWriteInv
  <1>5. CASE \E d \in InsnClocks : EndInsn(d)  BY <1>5, EndInsnInv
  <1>6. CASE EndLine  BY <1>6, EndLineInv
  <1>7. CASE NextLine  BY <1>7, NextLineInv
  <1>8. CASE Reset  BY <1>8, ResetInv
  <1>9. CASE UNCHANGED vars
    BY <1>9 DEF vars, ports, history, Inv, Types, InTime, Ordered, Latched, Leaves, IsLast, None,
                Due, Offset, Half, Cycle
  <1> QED  BY <1>1, <1>2, <1>3, <1>4, <1>5, <1>6, <1>7, <1>8, <1>9 DEF Next

-----------------------------------------------------------------------------
(* "So the SPC700 is exactly at the CPU's time on every access": the       *)
(* catch-up (snes_apu_catch_up) runs every cycle that ends by the access   *)
(* and none that ends after it.                                            *)
THEOREM InStepTheorem == Spec => []InStep
  <1>1. Init => Inv  BY InitInv
  <1>2. Inv /\ [Next]_vars => Inv'  BY StepInv
  <1>3. Inv => InStep
    <2>1. 0 * Cycle = 0  BY Constants
    <2> QED  BY <2>1, OffsetType DEF Inv, InTime, InStep
  <1> QED  BY <1>1, <1>2, <1>3, PTL DEF Spec

(* Latching a write at once or after the next cycle (apu_reg_write) shows  *)
(* each cycle of the SPC700 the writes of a half-cycle before its end.     *)
THEOREM ReadsTheorem == Spec => []ReadsAsOfClock
  <1>1. Init => Inv  BY InitInv
  <1>2. Inv /\ [Next]_vars => Inv'  BY StepInv
  <1>3. Inv => ReadsAsOfClock  BY WantedIsVis DEF ReadsAsOfClock
  <1> QED  BY <1>1, <1>2, <1>3, PTL DEF Spec
=============================================================================
