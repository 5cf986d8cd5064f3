-------------------------------- MODULE Bus --------------------------------
(* The speed of a bus access at an address (runtime/bus.c) and of a code    *)
(* fetch (runtime/cycles.c).  An address is a pair <<bank, lo>>; memsel is  *)
(* $420D bit 0.                                                             *)
EXTENDS Naturals

(* Clocks of one access.  The code tests address bits: bit 22 or bit 15     *)
(* first, then bit 14 of a + $6000, then bits 9 to 14 of a - $4000.         *)
bus_access_clocks(a, memsel) ==
  LET bank == a[1]
      lo   == a[2]
  IN CASE (bank \div \h40) % 2 = 1 \/ lo >= \h8000 ->
            IF bank >= \h80 /\ memsel THEN 6 ELSE 8
       [] ((lo + \h6000) \div \h4000) % 2 = 1          -> 8
       [] ((lo + \h10000 - \h4000) \div \h200) % \h40 # 0 -> 6
       [] OTHER                                        -> 12

(* Clocks of a CPU cycle that fetches code, from the ranges that are ROM    *)
(* instead of the address's bits.                                           *)
cyc_master_per_cycle(a, memsel) ==
  LET rom == a[1] >= \hC0 \/ (a[1] % \h80 < \h40 /\ a[2] >= \h8000)
  IN IF a[1] >= \h80 /\ rom /\ memsel THEN 6 ELSE 8
=============================================================================
