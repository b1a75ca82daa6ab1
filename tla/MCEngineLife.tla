--------------------------- MODULE MCEngineLife ---------------------------
(***************************************************************************)
(* EngineLife with three statistics and two drivers: ENA without the       *)
(* allowances, and one that lacks half of the TX checksum and RSS.         *)
(***************************************************************************)
EXTENDS EngineLife

MCNames == <<"bw_in_allowance_exceeded", "tx_q0_doorbells", "rx_q0_mbuf_alloc_fail">>

MCCaps ==
  {[offloads |-> Bits, ena |-> TRUE, xstats |-> {MCNames[2], MCNames[3]}],
   [offloads |-> {"tx_ip", "rx_ip", "rx_tcp"}, ena |-> FALSE, xstats |-> {}]}

Alike == Permutations(Engines) \cup Permutations(Threads) \cup Permutations(Lcores)
=============================================================================
