------------------------------ MODULE HotPages ------------------------------
(***************************************************************************)
(* hmd (src/pmu-refs): in every interval, samples of accesses to PMEM are  *)
(* read from the event buffers of the CPUs into the hot page table, until  *)
(* there are enough of them; then the hottest pages, by process, are moved *)
(* to the DRAM node of their PMEM node, if they are hotter than what is    *)
(* there.  Pages that could not be moved are filtered out afterwards.      *)
(* PMUMemoryOptimizer (hmd.cc), PmuState (pmu.cc), MigrationState          *)
(* (migration.cc).                                                         *)
(*                                                                         *)
(* External: perf events fill the buffers of enabled CPUs; move_pages(2)   *)
(* tells where pages are or moves them, may fail, and may answer with a    *)
(* positive number and no statuses; other programs move pages meanwhile.   *)
(***************************************************************************)
EXTENDS HotSketch, AddressRangeFilter, Sequences, Functions, FiniteSetsExt

CONSTANTS
  Cpus, RingSize,      \* CPUs 1 .. n; bound: records in a buffer
  Skid, Other,         \* records: a sample of the kernel's; one that is no sample
  RecordsOf,           \* what the processes on each CPU access
  NodeType, Promote,   \* node -> "DRAM", "PMEM"; PMEM node -> its DRAM node, or -1
  Homes,               \* page <<pid, address>> -> the node it is on at first, -2 if on none
  DramReads,           \* how far the DRAM counters of each CPU may advance: [local, remote]
  NodeOf, Used,        \* CPU -> its node; node -> mem_used() in items
  CountMultiple,       \* dram_count_multiple
  PagesPer,            \* pages of an item: 1 << npg_shift
  MovePagesMax,        \* move_pages_max
  Expected, PeriodMin, UnitsMax,  \* expected_samples, sample_period_min, interval_max
  ResetIntervals, Configured,     \* arfilter_reset_intervals; ranges <<pid, start, size>>
  MaxIntervals, MaxSamples, MaxDrifts  \* bounds

Pages == DOMAIN Homes
Nodes == DOMAIN NodeType

ASSUME HotPagesAssumption ==
  /\ Keys \subseteq [pid : Nat, addr : Nat] /\ PagesPer \in Nat \ {0} /\ MovePagesMax \in Nat
  /\ Expected \in Nat \ {0} /\ PeriodMin \in Nat \ {0}
  /\ Homes \in [Pages -> Nodes \cup {-2}]
  /\ IsFiniteSet(Configured) /\ Configured \subseteq Nat \X Nat \X (Nat \ {0})
  /\ \A k \in Keys : \A j \in 0 .. PagesPer - 1 : <<k.pid, k.addr * PagesPer + j>> \in Pages
  /\ MovePagesMax >= PagesPer /\ {Skid, Other} \cap Keys = {}
  /\ \A c \in Cpus : RecordsOf[c] \subseteq Keys \cup {Skid, Other}
  /\ \A n \in Nodes : NodeType[n] = "PMEM" => Promote[n] \in Nodes \cup {-1}

VARIABLES
  pc,
  sk,                   \* cmsk_
  period, period_next,  \* pmem_sample_period_, pmem_sample_period_next_
  samples, unit_begin,  \* stats_.samples, pmem_samples_unit_begin_
  units, full,          \* i and full of main()
  ring, enabled, cpu,   \* event buffers; enabled events; the CPU that is drained
  average,              \* dram_count_avg_
  rmap, reset_in,       \* arfilter_; arfilter_reset_intervals of main()
  at, hot, status, target,  \* migrate_pages(): next item; the pages of one process
  where,                \* the node of each page
  interrupted,
  sampled, leftover,    \* history: samples of this interval; items left over when sorted
  failed,               \* history: pages that failed since the filter was reset
  positive,             \* history: has a call answered with a positive number since then?
  intervals, records, drifts  \* history

pmuVars  == <<period, period_next, samples, unit_begin, units, full, ring, enabled, cpu>>
moveVars == <<at, hot, status, target>>
pastVars == <<sampled, leftover, failed, positive, intervals, records, drifts>>
vars == <<pc, sk, pmuVars, average, rmap, reset_in, moveVars, where, interrupted, pastVars>>

ConfiguredFilter ==
  LET insert[s \in SUBSET Configured] ==
        IF s = {} THEN <<>>
        ELSE LET r == CHOOSE x \in s : TRUE IN insert_range(insert[s \ {r}], r[1], r[2], r[3])
  IN insert[Configured]

Init ==
  /\ pc = "interval"
  /\ \E hash_mode \in BOOLEAN : sk = cmsk_init(hash_mode)
  /\ period = PeriodMin /\ period_next = 0 /\ samples = 0 /\ unit_begin = 0
  /\ units = 0 /\ full = FALSE
  /\ ring = [c \in Cpus |-> <<>>] /\ enabled = {} /\ cpu = 0
  /\ average = [n \in Nodes |-> 0]
  /\ rmap = ConfiguredFilter /\ reset_in = ResetIntervals
  /\ at = 1 /\ hot = <<>> /\ status = <<>> /\ target = <<>>
  /\ where = Homes /\ interrupted = FALSE
  /\ sampled = [k \in Keys |-> 0] /\ leftover = {}
  /\ failed = {} /\ positive = FALSE
  /\ intervals = 0 /\ records = 0 /\ drifts = 0

-----------------------------------------------------------------------------
(* Sampling.                                                               *)

BeginInterval ==
  /\ pc = "interval" /\ ~interrupted /\ intervals < MaxIntervals
  /\ sk' = cmsk_age(sk) /\ sampled' = [k \in Keys |-> 0] /\ leftover' = {}
  /\ samples' = 0 /\ units' = 0 /\ full' = FALSE
  /\ period' = IF period_next = 0 THEN period ELSE period_next
  /\ period_next' = 0
  /\ average' = [n \in Nodes |-> 0]
  /\ intervals' = intervals + 1 /\ pc' = "unit"
  /\ UNCHANGED <<unit_begin, ring, enabled, cpu, rmap, reset_in, moveVars, where, interrupted,
                 failed, positive, records, drifts>>

Finish ==
  /\ pc = "interval" /\ interrupted /\ pc' = "done"
  /\ UNCHANGED <<sk, pmuVars, average, rmap, reset_in, moveVars, where, interrupted, pastVars>>

\* pmem_expected_samples_margin_ is never set: the margin is 0.
BeginUnit ==
  /\ pc = "unit"
  /\ IF samples >= Expected \/ interrupted \/ full \/ units >= UnitsMax
       THEN pc' = "count" /\ UNCHANGED <<unit_begin, enabled>>
       ELSE pc' = "read" /\ unit_begin' = samples /\ enabled' = Cpus
  /\ UNCHANGED <<sk, period, period_next, samples, units, full, ring, cpu, average, rmap, reset_in,
                 moveVars, where, interrupted, pastVars>>

\* perf writes a record while the events of the CPU are enabled.
Record(c) ==
  /\ c \in enabled /\ Len(ring[c]) < RingSize /\ records < MaxSamples
  /\ \E r \in RecordsOf[c] : ring' = [ring EXCEPT ![c] = Append(@, r)]
  /\ records' = records + 1
  /\ UNCHANGED <<pc, sk, period, period_next, samples, unit_begin, units, full, enabled, cpu, average,
                 rmap, reset_in, moveVars, where, interrupted, sampled, leftover, failed, positive, intervals,
                 drifts>>

\* One record of read_pmem_samples_fd().
ReadRecord(c) ==
  LET r == Head(ring[c]) IN
  /\ ring[c] # <<>> /\ ~full
  /\ ring' = [ring EXCEPT ![c] = Tail(@)]
  /\ samples' = IF r = Other THEN samples ELSE samples + 1
  /\ IF r \in Keys
       THEN sk' = cmsk_update(sk, r) /\ full' = Full(sk, sk') /\ sampled' = [sampled EXCEPT ![r] = @ + 1]
       ELSE UNCHANGED <<sk, full, sampled>>

\* A full table ends the measurement at once; the other buffers keep their
\* records for the next interval.
ReadSelected(c) ==
  /\ pc = "read" /\ ReadRecord(c)
  /\ IF full' THEN pc' = "drain" /\ cpu' = 1 /\ enabled' = enabled \ {1}
     ELSE UNCHANGED <<pc, cpu, enabled>>
  /\ UNCHANGED <<period, period_next, unit_begin, units, average, rmap, reset_in, moveVars, where,
                 interrupted, leftover, failed, positive, intervals, records, drifts>>

UnitOver ==
  /\ pc = "read"
  /\ pc' = "drain" /\ cpu' = 1 /\ enabled' = enabled \ {1}
  /\ UNCHANGED <<sk, period, period_next, samples, unit_begin, units, full, ring, average, rmap, reset_in,
                 moveVars, where, interrupted, pastVars>>

\* end_measure: each CPU is disabled, then what its buffer still holds is read.
DrainRecord ==
  /\ pc = "drain" /\ ReadRecord(cpu)
  /\ UNCHANGED <<pc, period, period_next, unit_begin, units, enabled, cpu, average, rmap, reset_in,
                 moveVars, where, interrupted, leftover, failed, positive, intervals, records, drifts>>

\* adjust_sample_period_prepare(): the next period, or 0 when it stays.
PeriodNext ==
  LET n == samples - unit_begin
      scaled == (n * period) \div Expected IN
  IF n > Expected \/ (n < Expected /\ period > PeriodMin)
    THEN IF scaled < PeriodMin THEN PeriodMin ELSE scaled
    ELSE 0

DrainNext ==
  /\ pc = "drain" /\ (full \/ ring[cpu] = <<>>)
  /\ IF cpu + 1 \in Cpus
       THEN /\ cpu' = cpu + 1 /\ enabled' = enabled \ {cpu + 1}
            /\ UNCHANGED <<pc, period_next, units>>
       ELSE /\ UNCHANGED enabled /\ cpu' = 0
            /\ IF PeriodNext # 0 THEN period_next' = PeriodNext /\ pc' = "count" /\ UNCHANGED units
               ELSE units' = units + 1 /\ pc' = "unit" /\ UNCHANGED period_next
  /\ UNCHANGED <<sk, period, samples, unit_begin, full, ring, average, rmap, reset_in, moveVars, where,
                 interrupted, pastVars>>

-----------------------------------------------------------------------------
(* Migration.                                                              *)

DramNodes == {n \in Nodes : NodeType[n] = "DRAM"}

\* read_dram_count(): remote accesses are spread over the other DRAM nodes.
DramCount(advance, n) ==
  MapThenSumSet(LAMBDA c : advance[c].local, {c \in Cpus : NodeOf[c] = n})
  + IF n \notin DramNodes \/ Cardinality(DramNodes) = 1 THEN 0
    ELSE MapThenSumSet(LAMBDA c : advance[c].remote \div (Cardinality(DramNodes) - 1),
                       {c \in Cpus : NodeOf[c] # n})

calc_dram_count_avg(advance) ==
  [n \in Nodes |-> IF Used[n] = 0 THEN 0 ELSE DramCount(advance, n) \div Used[n]]

\* Counts of the interval, cmsk_sort() and the filter's own interval.
Count ==
  /\ pc = "count"
  /\ \E advance \in DramReads : average' = calc_dram_count_avg(advance)
  /\ sk' \in cmsk_sort(sk) /\ leftover' = Leftover(sk)
  /\ IF ResetIntervals # 0 /\ reset_in = 1
       THEN /\ rmap' = ConfiguredFilter /\ failed' = {} /\ positive' = FALSE
            /\ reset_in' = ResetIntervals
       ELSE /\ UNCHANGED <<rmap, failed, positive>>
            /\ reset_in' = IF ResetIntervals = 0 THEN reset_in ELSE reset_in - 1
  /\ at' = 1 /\ pc' = "group"
  /\ UNCHANGED <<pmuVars, hot, status, target, where, interrupted, sampled, intervals, records, drifts>>

\* cmsk_hot_pages(): how many items may be moved.
HotItems == LET most == MovePagesMax \div PagesPer IN IF sk.len < most THEN sk.len ELSE most

\* The last of the items from at on that belong to the same process.
RunEnd ==
  CHOOSE e \in at .. HotItems :
    /\ \A i \in at .. e : sk.items[i].key.pid = sk.items[at].key.pid
    /\ e = HotItems \/ sk.items[e + 1].key.pid # sk.items[at].key.pid

\* The elements of s at some of its places.
Chosen(s, places) ==
  LET taken[i \in 0 .. Len(s)] ==
        IF i = 0 THEN <<>> ELSE IF i \in places THEN Append(taken[i - 1], s[i]) ELSE taken[i - 1]
  IN taken[Len(s)]

\* The pages of items at .. last that are not filtered, with their counts.
HotPagesOf(last) ==
  LET all == [i \in 1 .. (last - at + 1) * PagesPer |->
                LET item == sk.items[at + (i - 1) \div PagesPer] IN
                [page  |-> <<item.key.pid, item.key.addr * PagesPer + ((i - 1) % PagesPer)>>,
                 count |-> item.count]]
  IN Chosen(all, {i \in DOMAIN all : ~search_address(rmap, all[i].page[1], all[i].page[2])})

\* The vectors of one process are written again before they are read.
NextGroup == pc' = "group" /\ hot' = <<>> /\ status' = <<>> /\ target' = <<>>

Group ==
  /\ pc = "group"
  /\ IF at > HotItems THEN pc' = "interval" /\ UNCHANGED <<at, hot>>
     ELSE /\ hot' = HotPagesOf(RunEnd) /\ at' = RunEnd + 1
          /\ pc' = IF hot' = <<>> THEN "group" ELSE "locate"
  /\ UNCHANGED <<sk, pmuVars, average, rmap, reset_in, status, target, where, interrupted, pastVars>>

OnPmem(h) == IF where[h.page] \in Nodes THEN NodeType[where[h.page]] = "PMEM" ELSE FALSE
TargetOf(h) == Promote[where[h.page]]

\* is_page_hot_in_target_dram_node()
HotEnough(h) == h.count * period >= average[TargetOf(h)] * CountMultiple

\* get_current_nodes(), get_target_nodes(), filter().  A process that is gone
\* ends it; so does, and with it the program, a PMEM node without a DRAM node.
Locate ==
  /\ pc = "locate"
  /\ LET pmem == Chosen(hot, {i \in DOMAIN hot : OnPmem(hot[i])})
         kept == Chosen(pmem, {i \in DOMAIN pmem : HotEnough(pmem[i])}) IN
     \/ NextGroup
     \/ /\ \E i \in DOMAIN pmem : TargetOf(pmem[i]) = -1
        /\ pc' = "crashed" /\ UNCHANGED <<hot, status, target>>
     \/ /\ \A i \in DOMAIN pmem : TargetOf(pmem[i]) # -1
        /\ IF kept = <<>> THEN NextGroup
           ELSE /\ hot' = kept /\ target' = [i \in DOMAIN kept |-> TargetOf(kept[i])]
                /\ status' = [i \in DOMAIN hot |-> where[hot[i].page]]
                /\ pc' = "move"
  /\ UNCHANGED <<sk, pmuVars, average, rmap, reset_in, at, where, interrupted, pastVars>>

Inserted(map, pages) ==
  LET insert[i \in 0 .. Len(pages)] ==
        IF i = 0 THEN map ELSE insert_range(insert[i - 1], pages[i][1], pages[i][2], 1)
  IN insert[Len(pages)]

\* The pages of the process that are not at their target according to result.
Unmoved(result) ==
  Chosen([i \in DOMAIN hot |-> hot[i].page], {i \in DOMAIN hot : result[i] # target[i]})

\* The second call moves some of the pages.  A positive answer says that pages
\* were left; then the statuses that are read are still those of the first call,
\* for the pages before filter().
Move ==
  /\ pc = "move"
  /\ \E moving \in SUBSET {hot[i].page : i \in DOMAIN hot}, more \in BOOLEAN :
       LET answers == [i \in DOMAIN hot |-> IF hot[i].page \in moving \/ where[hot[i].page] = target[i]
                                              THEN target[i] ELSE -16] IN
       /\ more => Unmoved(answers) # <<>>
       /\ where' = [p \in Pages |-> IF p \in moving
                      THEN target[CHOOSE i \in DOMAIN hot : hot[i].page = p] ELSE where[p]]
       /\ rmap' = Inserted(rmap, Unmoved(IF more THEN status ELSE answers))
       /\ failed' = failed \cup Range(Unmoved(answers))
       /\ positive' = (positive \/ more)
  /\ NextGroup
  /\ UNCHANGED <<sk, pmuVars, average, reset_in, at, interrupted, sampled, leftover,
                 intervals, records, drifts>>

\* The second call fails: the process is gone.
MoveFails ==
  /\ pc = "move" /\ NextGroup
  /\ UNCHANGED <<sk, pmuVars, average, rmap, reset_in, at, where, interrupted, pastVars>>

-----------------------------------------------------------------------------
\* The kernel or another program moves a page between the two calls.
Drift ==
  /\ drifts < MaxDrifts /\ pc = "move"
  /\ \E i \in DOMAIN hot, n \in Nodes :
       n # where[hot[i].page] /\ where' = [where EXCEPT ![hot[i].page] = n]
  /\ drifts' = drifts + 1
  /\ UNCHANGED <<pc, sk, pmuVars, average, rmap, reset_in, moveVars, interrupted, sampled, leftover,
                 failed, positive, intervals, records>>

\* SIGINT or SIGTERM, when it is noticed; until then it only ends a select().
Interrupt ==
  /\ pc \in {"interval", "unit"} /\ ~interrupted /\ interrupted' = TRUE
  /\ UNCHANGED <<pc, sk, pmuVars, average, rmap, reset_in, moveVars, where, pastVars>>

Next ==
  \/ BeginInterval \/ Finish \/ BeginUnit \/ UnitOver \/ DrainRecord \/ DrainNext
  \/ \E c \in Cpus : Record(c) \/ ReadSelected(c)
  \/ Count \/ Group \/ Locate \/ Move \/ MoveFails \/ Drift \/ Interrupt

Spec == Init /\ [][Next]_vars

-----------------------------------------------------------------------------
(* Properties.                                                             *)

\* The table is never written past its last item, although items of a buffer
\* are still unread when it is full, and move_pages() copies the pages of one
\* process into vectors of move_pages_max (cmsk.cc:178, migration.cc:153).
TypeOK ==
  /\ SketchTypeOK(sk)
  /\ pc \in {"interval", "unit", "read", "drain", "count", "group", "locate", "move", "done", "crashed"}
  /\ period >= PeriodMin
  /\ Len(hot) <= MovePagesMax
  /\ where \in [Pages -> Nodes \cup {-2}]

Reported(key) == {n \in 1 .. sk.len : sk.items[n].key = key}

\* "Top-K frequent items with Cout-Min-Sketch" (cmsk.h:63).  Items left over
\* from earlier intervals are sorted with the others and may take their
\* places (cmsk.cc:259).  Without any, every page sampled as often as the
\* threshold and twice the error of the sketch is reported; no page is reported
\* twice or without a sample; and its count is exact with hash_mode, and no more
\* than it was sampled if it shares not all its counters with other pages.
HotPagesReported ==
  pc = "group" /\ leftover = {} =>
    \A k \in Keys :
      LET seen  == {l \in Keys \ {k} : sampled[l] > 0}
          alone == \E r \in Rows : \A l \in seen : Column(r, l) # Column(r, k) IN
      /\ sampled[k] >= Threshold + 2 * cms_error(sk) => Reported(k) # {}
      /\ Cardinality(Reported(k)) <= 1
      /\ \A n \in Reported(k) :
           /\ sampled[k] > 0
           /\ sk.hash_mode => sk.items[n].count = sampled[k]
           /\ alone => sk.items[n].count <= sampled[k]

ConfiguredPages == UNION {AddressesOf(r[1], r[2], r[3]) : r \in Configured}

\* AddressRangeFilter joins ranges as pages fail one by one
\* (AddressRangeFilter.cc:133): unless a call answered with a positive number, it
\* covers just the configured ranges and the pages that could not be moved since
\* it was reset.  Its ranges never meet, and no page of them is asked for again.
FilterExact ==
  /\ ~positive => Covered(rmap) = failed \cup ConfiguredPages
  /\ Apart(rmap)
  /\ \A i \in DOMAIN hot : hot[i].page \notin Covered(rmap)

\* A page that the filter covers is a configured one or one that could not be moved
\* since it was reset: "Failed to move page" (migration.cc:141) is said of every page
\* that is inserted.
FiltersWhatFailed == Covered(rmap) \subseteq failed \cup ConfiguredPages

=============================================================================
