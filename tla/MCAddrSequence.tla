--------------------------- MODULE MCAddrSequence ---------------------------
(* A small instance of AddrSequence: four addresses that need every way of  *)
(* storing one (a neighbour, a full buffer, an unaligned address, a page    *)
(* too far away).                                                           *)
EXTENDS AddrSequence

MCAddrs == {0, 2, 4, 7}

\* A node of PMEM and one that numa_collection does not know.
MCNids == {1, 3}

=============================================================================
