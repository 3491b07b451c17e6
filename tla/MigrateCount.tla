----------------------------- MODULE MigrateCount ----------------------------
(***************************************************************************)
(* How much a period migrates: the memory sizes of calc_memory_size() and  *)
(* the two limits of calc_migrate_count() (GlobalScan.cc), computed from   *)
(* the histograms that count_refs() left in every range.                   *)
(*                                                                         *)
(* A histogram maps a reference count to a number of pages.  A cell is a   *)
(* range and a page type, numbered in the order of the code's loops.       *)
(***************************************************************************)
EXTENDS Integers

CONSTANTS
  NrRanges,    \* idle_ranges
  PageKb,      \* <<size of a 4K page, size of a 2M page>>
  NrWalks,     \* nr_walks: the largest reference count
  PeriodKb,    \* option.one_period_migration_size
  MinDeltaKb   \* the imbalance that is always tolerated (100 MB)

Types == {1, 2}
Cells == 2 * NrRanges
AllCells == 1..Cells
TypeOf(c) == 2 - (c % 2)
Refs == 0..NrWalks
CellKb(c) == PageKb[TypeOf(c)]

\* Below 16 KB one of the shares of calc_migrate_count() is zero, and it divides by
\* it: no smaller period is configured.
ASSUME MigrateCountAssumption ==
  /\ NrRanges \in Nat \ {0} /\ NrWalks \in Nat \ {0}
  /\ PageKb \in [Types -> Nat \ {0}]
  /\ PeriodKb \in Nat /\ PeriodKb >= 16 /\ MinDeltaKb \in Nat

\* The histograms of all cells, on one of the two kinds of memory
Histograms == [AllCells -> [Refs -> Nat]]

Lesser(a, b) == IF a <= b THEN a ELSE b
Greater(a, b) == IF a >= b THEN a ELSE b

\* Kilobytes of the pages with a reference count in N, in the cells C.
KbOf(hist, C, N) ==
  LET inCells(n) == LET sum[c \in 0..Cells] ==
                          IF c = 0 THEN 0
                          ELSE sum[c - 1] + (IF c \in C THEN hist[c][n] * CellKb(c) ELSE 0)
                    IN  sum[Cells]
      total[n \in -1..NrWalks] ==
        IF n = -1 THEN 0 ELSE total[n - 1] + (IF n \in N THEN inCells(n) ELSE 0)
  IN  total[NrWalks]

\* calc_memory_size(): the global_total_* members.  ratio is global_dram_ratio, a
\* whole percentage; without any page it does not matter.
MemorySize(pmem, dram) ==
  LET pmem_kb == KbOf(pmem, AllCells, Refs)
      dram_kb == KbOf(dram, AllCells, Refs)
  IN  [pmem_kb |-> pmem_kb, dram_kb |-> dram_kb, mem_kb |-> pmem_kb + dram_kb,
       ratio |-> IF pmem_kb + dram_kb = 0 THEN 0
                 ELSE (100 * dram_kb) \div (pmem_kb + dram_kb)]

TargetKb(size, percent) == (size.mem_kb * percent) \div 100

\* in_adjust_ratio_stage()
AdjustsRatio(size, percent) == percent # 0 /\ size.ratio # percent

\* in_unbalanced_stage()
IsUnbalanced(size, percent) ==
  LET delta == size.dram_kb - TargetKb(size, percent)
  IN  /\ percent # 0
      /\ Greater(delta, -delta) > Greater(size.mem_kb \div 100, MinDeltaKb)

SharesAwayFromTarget(limit, size, percent) ==
  LET most == limit - limit \div 8
      delta == IF percent = 0 THEN 0
               ELSE Greater(-most, Lesser(size.dram_kb - TargetKb(size, percent), most))
  IN  [promote |-> (limit + delta) \div 2, demote |-> (limit - delta) \div 2]

\* The shares of the limit that lead the DRAM ratio to its target.
Shares(limit, size, percent) ==
  LET most == limit - limit \div 8
      delta == IF percent = 0 THEN 0
               ELSE Greater(-most, Lesser(TargetKb(size, percent) - size.dram_kb, most))
  IN  [promote |-> (limit + delta) \div 2, demote |-> (limit - delta) \div 2]

\* calc_migrate_count(): what may be promoted and demoted.  The shares are cut
\* down to the hot and the cold pages there are, in the same proportion.  Quotients
\* are exact here; the code's demote_ratio is a float, whose rounding is left out.
MigrateLimits(pmem, dram, percent) ==
  LET size == MemorySize(pmem, dram)
      unbalanced == IsUnbalanced(size, percent)
      gap == size.pmem_kb - (size.mem_kb * (100 - percent)) \div 100
      too_many_aep == unbalanced /\ gap > 0
      limit == IF too_many_aep THEN Greater(PeriodKb, gap \div 8) ELSE PeriodKb
      promote_kb == Shares(limit, size, percent).promote
      demote_kb == Shares(limit, size, percent).demote
      hottest(t) == Lesser(KbOf(pmem, {c \in AllCells : TypeOf(c) = t}, {NrWalks}), promote_kb)
      avail_hot == IF too_many_aep
                     THEN Lesser(KbOf(pmem, AllCells, Refs \ {0}), promote_kb)
                     ELSE hottest(1) + hottest(2)
      avail_cold == Lesser(KbOf(dram, AllCells, Refs \ {NrWalks}), demote_kb)
      need_more_cold == demote_kb > promote_kb
      page_kb == (avail_hot * demote_kb) \div promote_kb
      demote_limit == Lesser(avail_cold, page_kb)
      limits(p, d) == [promote |-> p, demote |-> d]
  IN  CASE avail_cold > 0 /\ avail_hot > 0 ->
             limits(IF need_more_cold /\ page_kb > avail_cold
                      THEN (demote_limit * promote_kb) \div demote_kb ELSE avail_hot,
                    demote_limit)
        [] avail_cold = 0 /\ avail_hot > 0 ->
             limits(IF unbalanced /\ ~need_more_cold THEN avail_hot ELSE 0, 0)
        [] avail_cold > 0 /\ avail_hot = 0 ->
             limits(0, IF unbalanced /\ need_more_cold THEN avail_cold ELSE 0)
        [] OTHER -> limits(0, 0)

\* What calc_migrate_parameter() starts from, for histograms and an option.dram_percent.
InputOf(pmem, dram, percent) ==
  LET size == MemorySize(pmem, dram)
      limits == MigrateLimits(pmem, dram, percent)
  IN  [pmem |-> pmem, dram |-> dram, dram_percent |-> percent,
       adjusting |-> AdjustsRatio(size, percent),
       promote_limit_kb |-> limits.promote, demote_limit_kb |-> limits.demote]

InputType ==
  [pmem : Histograms, dram : Histograms, dram_percent : 0..100, adjusting : BOOLEAN,
   promote_limit_kb : Nat, demote_limit_kb : Nat]
=============================================================================
