----------------------------- MODULE MigrateParam ----------------------------
(***************************************************************************)
(* Which pages a period migrates: calc_migrate_parameter() and             *)
(* anti_thrashing() (GlobalScan.cc) choose, for every range and page type, *)
(* a threshold of references above which pages move from PMEM to DRAM      *)
(* (hot) and one below which they move back (cold), so that the whole      *)
(* period stays within two limits; promote_and_demote() (EPTMigrate.cc)    *)
(* then picks the pages.                                                   *)
(*                                                                         *)
(* The loop goes from the hottest reference count down and from the        *)
(* coldest up at once; one turn visits every cell, a range and a page      *)
(* type, first for its hot pages, then for its cold ones.                  *)
(***************************************************************************)
EXTENDS MigrateCount

CONSTANTS
  Inputs,      \* what InputOf() gives for the histograms that are considered
  AntiThrash,  \* option.anti_thrash_threshold
  Uncounted    \* cells that count_refs() skipped: a walk of the range failed

ASSUME MigrateParamAssumption ==
  /\ Inputs \subseteq InputType
  /\ \A chosen \in Inputs : chosen = InputOf(chosen.pmem, chosen.dram, chosen.dram_percent)
  /\ AntiThrash \in Nat /\ Uncounted \subseteq AllCells

VARIABLES
  input,              \* histograms, ratio stage and limits; they do not change
  i, cell, part,      \* loop position: turn, cell, and "hot", "cold" or "done"
  parameter,          \* migrate_parameter of each cell
  promote_count_kb, demote_count_kb

vars == <<input, i, cell, part, parameter, promote_count_kb, demote_count_kb>>

pmem == input.pmem       \* histograms of the pages on PMEM
dram == input.dram
promote_limit_kb == input.promote_limit_kb
demote_limit_kb == input.demote_limit_kb
in_adjust_ratio_stage == input.adjusting

\* init_migration_parameter(): no page is selected
InitialParameter ==
  [hot_threshold |-> NrWalks + 1, hot_threshold_max |-> NrWalks + 1,
   nr_promote |-> 0, promote_remain |-> 0,
   cold_threshold |-> -1, cold_threshold_min |-> -1,
   nr_demote |-> 0, demote_remain |-> 0, enabled |-> FALSE]

Init ==
  /\ input \in Inputs
  /\ i = 0 /\ cell = 1 /\ part = "hot"
  /\ parameter = [c \in AllCells |-> InitialParameter]
  /\ promote_count_kb = 0 /\ demote_count_kb = 0

-----------------------------------------------------------------------------
(* One cell of one turn.                                                   *)

hot_threshold == NrWalks - i
cold_threshold == i

NextCellTurnsInside ==
  /\ part' = IF cell = Cells /\ i = NrWalks THEN "done" ELSE "hot"
  /\ i' = IF i = NrWalks THEN 0 ELSE i + 1
  /\ cell' = IF i < NrWalks THEN cell ELSE IF cell = Cells THEN 1 ELSE cell + 1

\* The next cell, or the first cell of the next turn.
NextCell ==
  /\ part' = IF cell = Cells /\ i = NrWalks THEN "done" ELSE "hot"
  /\ cell' = IF cell = Cells THEN 1 ELSE cell + 1
  /\ i' = IF cell = Cells /\ i < NrWalks THEN i + 1 ELSE i

TakenWhole(nr, room) == nr * CellKb(cell)

\* Kilobytes to take of a cell that offers nr pages and a limit with room left.
Taken(nr, room) == Lesser(nr * CellKb(cell), room)

WholePagesRoundedUp(kb) == (kb + CellKb(cell) - 1) \div CellKb(cell)

\* nr_kb >> shift
WholePages(kb) == kb \div CellKb(cell)

\* The guards in the code's order: no histogram is read once the limit is reached.
HotWanted == promote_count_kb < promote_limit_kb /\ hot_threshold > 0

SelectHot ==
  LET nr_kb   == Taken(pmem[cell][hot_threshold], promote_limit_kb - promote_count_kb)
      nr_page == WholePages(nr_kb)
      p       == [parameter[cell] EXCEPT
                    !.nr_promote = @ + nr_page,
                    !.promote_remain = nr_page,
                    !.hot_threshold = hot_threshold,
                    !.hot_threshold_max = NrWalks,
                    !.enabled = TRUE]
  IN  /\ part = "hot" /\ HotWanted /\ pmem[cell][hot_threshold] # 0
      /\ parameter' = [parameter EXCEPT ![cell] = p]
      /\ promote_count_kb' = promote_count_kb + nr_kb
      /\ part' = "cold"
      /\ UNCHANGED <<input, i, cell, demote_count_kb>>

SkipHot ==
  /\ part = "hot" /\ (HotWanted => pmem[cell][hot_threshold] = 0)
  /\ part' = "cold"
  /\ UNCHANGED <<input, i, cell, parameter, promote_count_kb, demote_count_kb>>

\* anti_thrashing(): the hot and the cold threshold of a cell that moves pages
\* both ways are to lie anti_thrash_threshold apart.  If they do not, one of them
\* moves; the last test is made with the thresholds read at the start.
FarApartNearly(p) == p.hot_threshold - p.cold_threshold >= AntiThrash - 1
FarApart(p) == p.hot_threshold - p.cold_threshold >= AntiThrash

AntiThrashing(p) ==
  LET cold == Greater(p.hot_threshold - AntiThrash, 0)
      hot == Lesser(p.cold_threshold + AntiThrash, NrWalks)
      moved == IF p.hot_threshold = NrWalks
                 THEN [p EXCEPT !.cold_threshold = cold,
                                !.demote_remain = Lesser(dram[cell][cold], p.nr_demote)]
                 ELSE [p EXCEPT !.hot_threshold = hot,
                                !.promote_remain = Lesser(pmem[cell][hot], p.nr_promote)]
  IN  IF p.cold_threshold < 0 \/ p.hot_threshold > NrWalks \/ FarApart(p)
        THEN p
        ELSE [moved EXCEPT !.enabled = FALSE]

\* A cell that anti_thrashing() disabled is skipped.
ColdWanted ==
  /\ demote_count_kb < demote_limit_kb /\ cold_threshold < NrWalks

ThrashDisabled == ~parameter[cell].enabled /\ parameter[cell].nr_demote # 0

SelectCold ==
  LET nr_kb   == Taken(dram[cell][cold_threshold], demote_limit_kb - demote_count_kb)
      nr_page == WholePages(nr_kb)
      p       == [parameter[cell] EXCEPT
                    !.nr_demote = @ + nr_page,
                    !.demote_remain = nr_page,
                    !.cold_threshold = cold_threshold,
                    !.cold_threshold_min = 0,
                    !.enabled = TRUE]
  IN  /\ part = "cold" /\ ColdWanted /\ dram[cell][cold_threshold] # 0 /\ ~ThrashDisabled
      /\ parameter' = [parameter EXCEPT ![cell] = IF in_adjust_ratio_stage THEN p ELSE AntiThrashing(p)]
      /\ demote_count_kb' = demote_count_kb + nr_kb
      /\ NextCell
      /\ UNCHANGED <<input, promote_count_kb>>

SkipCold ==
  /\ part = "cold"
  /\ ColdWanted => dram[cell][cold_threshold] = 0 \/ ThrashDisabled
  /\ NextCell
  /\ UNCHANGED <<input, parameter, promote_count_kb, demote_count_kb>>

Next == SelectHot \/ SkipHot \/ SelectCold \/ SkipCold

Spec == Init /\ [][Next]_vars

-----------------------------------------------------------------------------
(* The pages that migrate() then moves.                                    *)

PromotedAtThreshold(c, n) ==
  LET p == parameter[c]
  IN  IF p.enabled /\ p.hot_threshold <= n /\ n <= p.hot_threshold_max THEN pmem[c][n] ELSE 0

\* promote_and_demote(): of the cell's pages on PMEM with n references, those above
\* the threshold and the first promote_remain ones at it.
Promoted(c, n) ==
  LET p == parameter[c]
  IN  IF ~p.enabled THEN 0
      ELSE IF n = p.hot_threshold THEN Lesser(pmem[c][n], p.promote_remain)
      ELSE IF p.hot_threshold < n /\ n <= p.hot_threshold_max THEN pmem[c][n] ELSE 0

Demoted(c, n) ==
  LET p == parameter[c]
  IN  IF ~p.enabled THEN 0
      ELSE IF n = p.cold_threshold THEN Lesser(dram[c][n], p.demote_remain)
      ELSE IF p.cold_threshold_min <= n /\ n < p.cold_threshold THEN dram[c][n] ELSE 0

\* The pages moved, as histograms.
PromotedPages == [c \in AllCells |-> [n \in Refs |-> Promoted(c, n)]]
DemotedPages  == [c \in AllCells |-> [n \in Refs |-> Demoted(c, n)]]

PromotedKb == KbOf(PromotedPages, AllCells, Refs)
DemotedKb  == KbOf(DemotedPages, AllCells, Refs)

-----------------------------------------------------------------------------
(* Properties.                                                             *)

ParameterType ==
  [hot_threshold : 1..(NrWalks + 1), hot_threshold_max : {NrWalks, NrWalks + 1},
   nr_promote : Nat, promote_remain : Nat,
   cold_threshold : -1..(NrWalks - 1), cold_threshold_min : {-1, 0},
   nr_demote : Nat, demote_remain : Nat, enabled : BOOLEAN]

\* Type correctness; thresholds stay inside the histogram, and what is counted
\* against a limit never exceeds it.
TypeOK ==
  /\ input \in InputType
  /\ i \in Refs /\ cell \in AllCells /\ part \in {"hot", "cold", "done"}
  /\ parameter \in [AllCells -> ParameterType]
  /\ promote_count_kb \in 0..promote_limit_kb /\ demote_count_kb \in 0..demote_limit_kb

Done == part = "done"

\* Thresholds and remainders are overwritten in every turn and by anti_thrashing(),
\* and many cells share a limit: together they must not move more than it.
WithinLimits == Done => PromotedKb <= promote_limit_kb /\ DemotedKb <= demote_limit_kb

\* The budget of one cell: its pages alone stay within what was counted.
CellWithinCount ==
  \A c \in AllCells : /\ parameter[c].nr_promote * CellKb(c) <= promote_count_kb
                      /\ parameter[c].nr_demote * CellKb(c) <= demote_count_kb

\* Two descriptions of the same set of pages agree: the number the loop counted
\* (nr_promote, nr_demote: what is logged and reserved) and the pages that the
\* thresholds and the remainders select; anti_thrashing() may only take pages away.
PagesOf(hist, c) == KbOf(hist, {c}, Refs) \div CellKb(c)

SelectsWhatItCounts ==
  Done => \A c \in AllCells :
    LET p == parameter[c]
        hot == PagesOf(PromotedPages, c)
        cold == PagesOf(DemotedPages, c)
    IN  /\ hot <= p.nr_promote /\ cold <= p.nr_demote
        /\ in_adjust_ratio_stage => hot = p.nr_promote /\ cold = p.nr_demote

\* The limit goes to the hottest pages of PMEM and to the coldest of DRAM over all
\* ranges and page types: no page is left behind by one that deserves less.
HottestAndColdestFirst ==
  Done /\ in_adjust_ratio_stage =>
    \A c, d \in AllCells, m, n \in Refs : m < n =>
      /\ Promoted(c, m) > 0 => Promoted(d, n) = pmem[d][n]
      /\ Demoted(c, n) > 0 => Demoted(d, m) = dram[d][m]

\* "it adjusts the page distribution among DRAM and PMEM to reach target ratio
\* firstly" (doc/ReleaseNote.txt:68): a migration never leads away from the target,
\* up to the one page that the smaller of two limits may cut off.
TowardsTarget ==
  Done /\ in_adjust_ratio_stage =>
    LET page == Greater(PageKb[1], PageKb[2])
        size == MemorySize(pmem, dram)
        target == TargetKb(size, input.dram_percent)
    IN  /\ size.dram_kb < target => DemotedKb < PromotedKb + page
        /\ size.dram_kb > target => PromotedKb < DemotedKb + page

\* "It's the refcount gap between hot page threshold and cold page threshold"
\* (doc/ReleaseNote.txt:85): a cell that moves pages both ways while the ratio is right
\* keeps them that far apart, else the same pages would come back.
ThresholdsApart ==
  Done /\ ~in_adjust_ratio_stage =>
    \A c \in AllCells, m, n \in Refs :
      Promoted(c, m) > 0 /\ Demoted(c, n) > 0 => m - n >= AntiThrash

\* "sys-refs will skip the migration if the thrashing is still exist even after
\* applied the protection" (doc/ReleaseNote.txt:87-88): a cell is skipped only then.
SkipsOnlyThrashing ==
  Done => \A c \in AllCells :
    LET p == parameter[c]
    IN  p.nr_promote > 0 /\ p.nr_demote > 0 /\ ~p.enabled =>
          p.hot_threshold - p.cold_threshold < AntiThrash

\* "Fix core dump when target process exit suddenly" (ProcIdlePages.cc:348): a
\* range without counted references has no histogram, and none is read.
ReadsCountedOnly ==
  /\ part = "hot" /\ HotWanted => cell \notin Uncounted
  /\ part = "cold" /\ ColdWanted => cell \notin Uncounted
=============================================================================
