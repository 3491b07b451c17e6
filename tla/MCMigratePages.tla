--------------------------- MODULE MCMigratePages ---------------------------
(* Three small pages and a huge one on a machine whose third node only some *)
(* configurations know.                                                     *)
EXTENDS MigratePages, TLC

CONSTANTS page1, page2, page3, huge

Node(i, t, p) == [id |-> i, type |-> t, peer |-> p]

MCPair    == <<Node(0, "DRAM", 1), Node(1, "PMEM", 0)>>
MCThree   == <<Node(0, "DRAM", 2), Node(1, "PMEM", -1), Node(2, "PMEM", 0)>>
MCSwapped == <<Node(1, "DRAM", 0), Node(0, "PMEM", 1)>>
MCTooMany == <<Node(0, "DRAM", 1), Node(7, "PMEM", 0)>>
MCUntyped == <<Node(0, "DRAM", 2), Node(2, "END", 0), Node(1, "PMEM", 5)>>

MCLists(third) ==
  [types |-> [i \in 0 .. 2 |-> <<"DRAM", "PMEM", third>>[i + 1]],
   links |-> <<Node(1, "", 0), Node(0, "", 1)>>]
MCBadLists == [MCLists("PMEM") EXCEPT !.links = <<Node(0, "", 7)>>]

MCOneFile == {[lists |-> NoLists, entries |-> MCThree]}
MCFiles ==
  {[lists |-> NoLists, entries |-> e] : e \in {MCThree, MCSwapped, MCTooMany, MCUntyped, <<>>}}
  \cup {[lists |-> l, entries |-> MCPair] : l \in {MCLists("END"), MCBadLists}}

MCSysfs == <<Node(0, "DRAM", 1), Node(1, "PMEM", 0), Node(2, "PMEM", 0)>>

MCHomes == [p \in {page1, page2, page3, huge} |-> IF p \in {page1, huge} THEN 0 ELSE 1]

Entry(p, n) == [page |-> p, refs |-> n]
MCTables ==
  {[PTE |-> <<Entry(page1, 0), Entry(page2, 2), Entry(page3, 2)>>, PMD |-> <<Entry(huge, 1)>>],
   [PTE |-> <<Entry(page2, 0), Entry(page3, 1), Entry(page1, 1)>>, PMD |-> <<>>]}

MCParam ==
  [hot_threshold |-> 1, hot_threshold_max |-> 2, promote_remain |-> 1,
   cold_threshold |-> 1, cold_threshold_min |-> 0, demote_remain |-> 1, enabled |-> TRUE]
MCParams ==
  {[PTE |-> MCParam, PMD |-> MCParam],
   [PTE |-> [MCParam EXCEPT !.hot_threshold = 2, !.cold_threshold = 0], PMD |-> NoParam],
   [PTE |-> NoParam, PMD |-> MCParam]}

MCBatchOf == [PTE |-> 2, PMD |-> 1]
MCKbOf    == [PTE |-> 1, PMD |-> 4]

Symmetry == Permutations(Cells)
=============================================================================
