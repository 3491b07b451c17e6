# memory-optimizer in TLA+

`sys-refs` keeps hot pages in DRAM and cold pages in persistent memory (PMEM). It scans
the page tables of its target processes through `/proc/PID/idle_pages`, counts how often
each page was referenced, chooses thresholds from the histograms of these counts, and
moves pages between NUMA nodes at a limited rate. This directory models that loop, checks
the models with TLC and proves theorems about them with TLAPS. It also models the
kernel module behind `idle_pages` and `hmd`, a second program that finds hot pages by
sampling accesses (`pmu-refs/`).

Paths below are relative to `src/`.

## The system

| Component | State | Operations | What makes it correct |
|---|---|---|---|
| Scan loop, worker pool (`GlobalScan`, `Queue`) | `idle_ranges`, `work_queue`, `done_queue`, threads, `nround`, `nr_scan_rounds`, `nr_walks`, `conf_reload_flag` | `main_loop`, `collect`, `walk_multi`, `walk_once`, `migrate`, `progressive_profile`, `consumer_loop`, `stop_threads`, `reload_conf` | a range is used by one thread at a time; a batch visits every range once and is a barrier; walk counters of ranges and loop agree; the loop ends |
| Reference table (`AddrSequence`) | clusters of 8-bit distances in shared 64 KB buffers, two iterators, byte counters | `rewind`, `inc_payload`, `set_payload`, `update_nodeid`, `get_first`, `get_next`, `prepare_update` | it is a table from addresses to counts; no access outside the buffers; counters agree with the entries |
| Walks and statistics (`ProcIdlePages`, `EPTScan`) | per range: a table and histograms for 4K and 2M pages, `nr_walks`, `io_error` | `walk`, `get_memory_type`, `count_refs`, `gather_walk_stats` | every page is located once, between first and second walk; a failed range is left out everywhere |
| Migration planning (`calc_migrate_count`, `calc_migrate_parameter`, `anti_thrashing`) | `migrate_parameter` of each range and page type | one computation per period | limits are kept over all ranges and page types, hottest and coldest go first, the DRAM ratio approaches its target, pages do not go back and forth |
| Page migration (`EPTMigrate`, `MovePages`) | batches, results, statistics | `migrate`, `promote_and_demote`, `do_interleave_move_pages` | selects what was planned; counts what moved |
| Bandwidth limit (`BandwidthLimit`) | `last_time`, `allow_bytes`, a mutex | `add_and_sleep` | the rate is kept although all workers share it |
| NUMA nodes (`Numa`) | `node_map_`, which owns the nodes, lists of them, a peer of each | `collect` from two kinds of options or from sysfs, again by every reload | pointers stay valid over a reload, types and peers follow the file |
| Options (`Option`, `OptionParser`, `sys-refs.cc`) | the option object | parse, reparse on SIGUSR1 | a reload leaves a consistent configuration |
| Processes (`Process`, `AddressRangeFilter`) | processes, ranges | `collect`, `split_ranges` | ranges do not overlap and cover the process |
| Kernel module (`kernel_module/`) | a control block with a packed buffer and a cursor, accessed bits | `read` of `idle_pages` for a process or a KVM guest | the byte stream describes the pages walked, in order, and fits its buffers |
| `hmd` (`pmu-refs/`) | event buffers, sketch and hash table of pages, sample period, address filter | sampling, sorting, migration, filter of failed pages | the hottest pages are found and their counts are right; pages that cannot be moved are left alone |
| `task-refs`, `page-refs`, scripts | | | separate programs |

How they interact. The main thread collects ranges, hands each to a worker through
`work_queue` and takes it back from `done_queue`. The ranges have no lock: the queues are
the only synchronisation. A worker's walk feeds the tables of its range; after the first
walk of a round the main thread locates the pages. When all rounds are over, the main
thread counts references, plans, and hands the ranges out again for migration. All
migrating workers share one `BandwidthLimit`. A signal handler sets a flag, and the loop
reads the configuration again at the start of the next period, which also collects the NUMA
nodes again, while every migration looks up the peers of nodes. A walk reads `idle_pages` once
for each part of each VMA, and the kernel module runs a page-table walk in every read. `hmd`
shares the NUMA nodes' code and nothing else.

What is hard here: the hand-over without locks; options that change between two batches;
failed walks, whose ranges stay in the period; an iterator-based update that only works
for increasing addresses; a loop that shares two limits among many cells and overwrites
its thresholds in each turn; a throttler that writes its state before it takes its lock,
rounds, caps and sleeps under the lock; a page-table walk whose report ends in the middle
anywhere and resumes in the next read, while pages are touched, split, collapsed and unmapped;
answers of `move_pages` that are partial or missing; nodes that are replaced while others point
to them; a table that is emptied by its length alone. `PROJECT.json` lists these hazards line by line.

## Modules

| Module | Models | Code |
|---|---|---|
| `RefCounts` | abstract: a table of reference counts | contract in `AddrSequence.h:80-90` |
| `AddrSequence` | the table as clusters, buffers and iterators, with the protocol of its callers | `AddrSequence.cc/.h`; `EPTScan.cc` `get_memory_type`; `EPTMigrate.cc` `normalize_addr_sequence` |
| `ScanPhases` | abstract: batches that visit every range once | the loop as its callers see it |
| `ScanPool` | main thread, workers, queues, rounds, reload, stop | `GlobalScan.cc`, `Queue.h`, `ProcIdlePages::walk` |
| `MigrateCount` | memory sizes and the period's two limits, as operators | `calc_memory_size`, `calc_migrate_count`, `in_unbalanced_stage` |
| `MigrateParam` | the parameter loop, one cell per step, and the pages the parameters select | `calc_migrate_parameter`, `anti_thrashing`, `promote_and_demote` |
| `BandwidthLimit` | the shared throttler | `BandwidthLimit.cc` |
| `IdleStream` | the encoding of a report in a buffer of limited size, and its parser, as operators | `ept_idle.c` `eic_add_page`, `ept_idle_copy_user`; `ProcIdlePages::parse_idlepages` |
| `IdleWalk` | one walk: VMAs, reads, the page-table walk and the process that runs meanwhile | `ProcIdlePages::walk`, `walk_vma`; `ept_idle.c`, `ept_idle_native_pagewalk.c` |
| `NumaNodes` | collection of the nodes, and again by reloads | `Numa.cc`, `OptionParser::reparse` |
| `MigratePages` | one range migrates: selection, batches, answers, statistics, profile | `EPTMigrate.cc`, `MovePages.cc`, `GlobalScan::progressive_profile` |
| `AddressRangeFilter` | joined address ranges, as operators on a map | `AddressRangeFilter.cc` |
| `HotSketch` | count-min sketch and hash table of hot pages, as operators | `pmu-refs/cmsk.cc` |
| `HotPages` | the loop of `hmd` | `pmu-refs/hmd.cc`, `pmu.cc`, `migration.cc` |
| `AddrSequenceProofs`, `ScanPoolProofs`, `MigrateParamProofs`, `BandwidthLimitProofs`, `MigratePagesProofs`, `IdleWalkProofs`, `IdleCoverProofs`, `HotPagesProofs` | theorems | |
| `MC...` | instances for TLC | |

`AddrSequence` implements `RefCounts` and `ScanPool` implements `ScanPhases`, each by
`INSTANCE ... WITH` and the abstract specification as a property. `MigrateParam` extends
`MigrateCount`, `IdleWalk` extends `IdleStream`, `MigratePages` extends `NumaNodes`, and `HotPages`
extends `HotSketch` and `AddressRangeFilter`. `ScanPool` abstracts a walk to "counted, or failed, or both", which is what
the loop sees of a range; the contents of one walk are `AddrSequence`'s. The histograms that
`MigrateCount` starts from are what `count_refs` makes of the tables.

### AddrSequence and RefCounts

State: `addr_clusters` (start, place in a buffer, items), `buf_pool`, `buf_used_count`, the
byte counters per location, `find_iter`, `walk_iter`. An item keeps a distance in pages, a
payload, a node and a location. The search loop of an update is one action per step
(`SeekNext`, `SeekFound`, `SeekMissing`), so it may be wrong by the position at which it
starts. The environment follows the callers: a walk reports addresses in increasing order and
may report one again; pages are located in batches after each first walk, and a batch may
fail; reports read the table; normalization reads and writes it at once, with one iterator
each. A node without an object gives the location UNKNOWN.

Memory may run out at two places. `AllocateFails` is a buffer that cannot be allocated: nothing
changes. `ClusterFails` is the cluster vector that cannot grow (`AddrSequence.cc:303-307`): the buffer
that was just taken stays, `buf_used_count` is 0, and the last cluster is still in the old, full
buffer. `inc_page_refs` goes on, and the next address that can be merged is written behind that
buffer: `ItemsInBuffers` is false there, of the code as of the model. `MCAddrSequence.cfg` without its line
`CONSTRAINT InLastBuffer` shows it in six states: 0 and 2 fill a buffer, the vector cannot grow for 4, and 4, reported
again, is merged behind 2. From there on the memory that the program reads is not known to be its
own, so all properties are stated of behaviours in which this did not happen: `InLastBuffer`, the
last cluster lies in the last buffer, is the `CONSTRAINT` of `addr_sequence` and a hypothesis of
the theorems. `ClusterFails` is still taken there when the buffer is not full, when it does no harm, and for the first
cluster.

### ScanPool and ScanPhases

`pc` names the statement the main thread stands at; a worker is in `pop`, `wait`, `job`,
`push` or `notify`. `pop()` and `push()` take the lock for one step, and the notification is
a step of its own after it. Waits may end spuriously. `Signal` sets the flag at any time;
`ReloadConf` takes it and any configuration of `ReloadedConfs`. A walk may fail before or
after it is counted. `max_threads` may be 0: then the main thread does the jobs.

### MigrateCount and MigrateParam

A cell is a range and a page type. `i`, `cell` and `part` are the position in the nested
loops; each step handles the hot or the cold pages of a cell, with the guards in the order of
the code. `Promoted` and `Demoted` then say which pages `promote_and_demote` picks, which is
what the properties are about: the parameters are only as good as the pages they select.
Percentages are whole numbers and the model divides exactly before it truncates. The code divides and
multiplies `float`s (`demote_ratio`, `global_dram_ratio`), whose rounding is not modelled: a
quotient that is exact here may be truncated to one less there, and one of more than 24 bits differ by more.

### BandwidthLimit

Time is counted in ticks of a fraction of a second, since the code sleeps whole seconds. The
branch of the first call is three actions outside the lock. `forgiven` and `lost` record what
late first calls erase or drop; the properties are stated with them, so that they say how far
the rate is kept in spite of the race.

### IdleStream and IdleWalk

`eic` is the kernel's control block: packed items, what was copied out, the position to resume at
and the address the reader will be at next. An item is an address or a run of pages of one type, and
weighs as many bytes as it takes. `w` holds the loop variables of the page walk: the entry it is at
and the ends of the VMA, range and PMD. One step is one page-table entry, one return of a page-table
level, or a gap passed over; the user's steps are `Walk`, `WalkVma`, `ReadStart`, `Parse` and `ReadDone`.
Between steps the process touches pages, splits, collapses and unmaps PMDs and changes its VMAs; what
`mmap_sem` excludes is excluded (`Unlocked`). For a guest the walk goes over memory slots in guest
addresses. `stable` are the pages mapped all along, `skipped` those whose PMD the module took for a
duplicate, `cut` the addresses that a run passed behind the end of the VMA it was counted in, `cleared` the
bits cleared by the read.

### NumaNodes and MigratePages

A node is the memory cell it lives in; a cell that was freed keeps its content until it is used
again, so a dangling pointer is a cell outside `node_map`. `setup` is the stage of `collect` and the
entry it is at. `MigratePages` plans a page type at once (`PlanOf` is the loop over the table), then takes a
turn of the inner loop per step. `move_pages` answers for each page, or moves some and stores nothing (then
the program asks where the pages are, which may fail), or fails: the old answers stay, as
`std::vector::resize` leaves them. `arrived` is computed from where the pages really are.

### AddressRangeFilter, HotSketch and HotPages

The filter is a function from a process and a start to a size; iterators are keys. The sketch keeps
16-bit counters and the hash table's chains as links between items; the hash is a constant. Records
arrive in the event buffers of enabled CPUs at any time; a read may end with any number of them
left. The pages of one process are located, filtered and moved in two system calls, between which
others move pages. `failed` are the pages that the second call did not bring to their targets since
the filter was reset, by the call's own answers; what enters the filter is by the statuses the program
reads. The two differ after a positive answer, which stores no statuses (`positive`).

## Runs

| Run | Result | Bounds |
|---|---|---|
| `addr_sequence` | unless the cluster vector fails to grow after a new buffer (`CONSTRAINT InLastBuffer`): no access outside a buffer or cluster, pages located unless their batch failed, size, byte counters and normalized payloads agree with the entries, implements `RefCounts` | see `MCAddrSequence`: addresses around the largest distance and one unaligned, buffers of 2 items, 2 walks, 1 repeated address in each, a node and one without an object |
| `scan_pool` | exclusive ranges, no job left between periods, aligned walk counters, pages located once, implements `ScanPhases`, terminates | 2 workers, 2 ranges, 2 rounds and the one more the loop's `<=` allows, 1 signal, three configurations |
| `pool_reload` | **violated**: a period that starts to scan need not migrate | 0 threads, reload to 1 |
| `migrate_param` | limits, budgets, order, direction and thresholds | 2 ranges, both page types, 3 walks; 6912 inputs |
| `params_skip` | **violated**: a cell is skipped although its thresholds were moved apart | as above |
| `params_failed` | **violated**: the histogram of a failed range is read | one failed range |
| `bandwidth` | rate kept, debt bounded, calls return | 2 workers, 4 calls, batches of 0, 3 and 4 bytes at 2 bytes per second |
| `ept_idle` | buffers fit, parser and module agree on the cursor, no page is counted twice or out of order, every page that stays is counted except those `skipped` and `cut`, a full buffer loses one access at most, the walk ends | 11 layouts of 12 pages, 2 to a PMD and 4 to a PUD; buffers of 7 bytes in the kernel and 6 to 14 for the reader; runs of 2; 2 touches, 1 change of mappings |
| `migrate_pages` | pages have targets, peers are alive, nodes follow the file, the statistics count what arrived | 3 nodes, 7 files, 1 reload; 3 small and 1 huge page, batches of 2 and 1; 1 page moved by others |
| `numa_reload` | **violated**: lists name freed nodes | 1 file, 1 reload |
| `hot_pages` | tables stay in bounds, hot pages are reported, the filter is exact until a call answers with a positive number | 3 items of 2 pages in 2 processes, 2 items in the table, 2 CPUs with a buffer of 1, 5 records, 2 intervals |
| `filter_positive` | **violated**: a page that moved is in the filter | as above |

Why the bounds are enough. Every decision of `AddrSequence` compares an address with the
last one or an index with a buffer's end; the addresses include one at the largest distance,
one beyond it and one unaligned, and buffers fill within the run. Two workers and two ranges
are the least that let jobs overtake each other and a notification go to the wrong one of two
waiters; jobs of more ranges repeat these steps. In `MigrateParam` two ranges with two page
sizes share a limit that cuts a cell off in the middle of a page, and three walks leave counts
between hottest and coldest. Two callers suffice for the race in `BandwidthLimit`; four calls let a
late first call meet an account in debt. The buffers of `ept_idle` hold two or three items, so that reads
end inside PMDs, PUDs and holes and at boundaries of VMAs and slots; each layout pairs some of these.
In `migrate_pages` one reload is the least after which cells are used again, and batches of two leave
answers for a shorter one. In `hot_pages` the table has fewer places than there are pages, each page
shares a counter with another, and the second interval starts with items and records of the first. Deadlock is checked in `scan_pool`, where the finished
program stutters by an action of its own. `ept_idle` checks it too:
a finished walk stutters. The other models end (a bounded number of walks, of calls, of periods or
intervals, a program that crashed, or the end of the loop), so their configurations do not check it.

Fairness. `ScanPool` assumes weak fairness of the main thread and of each worker: the operating
system runs runnable threads, and no thread is required to be favoured. Nothing is assumed of
signals or spurious wake-ups. `BandwidthLimit` assumes that time passes and that a call that has
started goes on; the mutex is free again after each sleep, and with a bounded number of calls
weak fairness suffices. No new call needs to come. `IdleWalk` assumes only that the thread that walks keeps
running. `MigratePages` and `HotPages` state safety only.

## Disagreements with documents and comments

1. `pool_reload`: `max_threads` is read again on reload, threads are created once. From 0 to n
   the loop waits for ever (`GlobalScan.cc:394`, against `doc/ReleaseNote.txt:96-113`).
2. `params_skip`: `anti_thrashing` tests the old thresholds in the end and so disables every cell it
   protects (`GlobalScan.cc:1264`, against `doc/ReleaseNote.txt:87-88`).
3. `params_failed`: `calc_migrate_parameter` indexes the empty histograms of a failed range
   (`GlobalScan.cc:1165`, against `ProcIdlePages.cc:348`, which guards the same access).
4. `numa_reload`: a reload leaves freed nodes in `nodes_`, `dram_nodes_` and `pmem_nodes_`
   (`Numa.cc:263`, against `Numa.h:124`). `PeersAlive` shows that migration, which goes through `node_map_`, is
   safe as long as a reload takes the nodes from the same place; a list of options that loses a node, or a
   switch from options to sysfs, leaves that node in `node_map_` with a peer that was freed.
5. `filter_positive`: after a positive answer of `move_pages`, `__move_pages` compares the targets with the statuses of
   the first call, for the places the pages had before `filter()`: pages that moved are filtered, and said to have
   failed ("Failed to move page", `pmu-refs/migration.cc:139-141`).

Met while modelling, and not given a run of their own:

- "points into AddrSequence::bufs" (`AddrSequence.h:30`): when the cluster vector cannot grow right after a new buffer
  was taken (`AddrSequence.cc:304`), the next merge writes behind the last cluster's full buffer, see above.
- Where only hot or only cold pages are left, the limit of that side is half the period's and more, also when the
  target is nearer (`GlobalScan.cc:1114`): DRAM may be taken past it in one period and back in the next.
- The promotion share is counted once per page size (`GlobalScan.cc:1052`), so a period may exceed
  `one_period_migration_size`, which `doc/ReleaseNote.txt:92` says applies to all page sizes.
- "Skip duplicate PMD_IDLE_PTES" (`ept_idle.c:803`): `last_va` also skips the rest of a PMD that a full buffer
  cut off, and the part of a PMD that belongs to a second VMA. `CountsWhatIsThere` therefore excepts `skipped` too.
- "The new pages can be simply ignored" (`ProcIdlePages.cc:404`): not only new pages are behind the end of a VMA. A run
  may go on into the next VMA; `inc_page_refs` stops at the end, but `parse_idlepages` moves its address behind the
  whole run (line 431), and the next VMA is read from there (`next_va`), so that the pages between are counted in neither,
  in every walk and although nothing changed. Items behind that run are read again, but their accessed bits are gone by
  then. `CountsWhatIsThere` therefore excepts `cut`; without the exception the layout `MCMeet` alone violates it.
- "align kernel/user vision of cursor position" (`ept_idle.c:165`): a hole is rounded up too, and so moves `restart_gpa`
  behind the end of a memory slot that ends inside an unmapped PMD. Where another slot begins there, at another
  distance from the guest's addresses, its first pages are passed over. The layouts have no such slots; with slots of
  the pages 4 to 6 at 0 and 7 to 11 at 7, and PMD 1 unmapped, page 7 is mapped all along and not counted.
- "leave status array untouched" (`MovePages.cc:186`, with the query of line 241) handles a positive answer only:
  when a batch fails altogether, the answers of the batch before are counted for it. `CountsWhatArrived`
  therefore excepts kinds with an unanswered call.
- "Top-K frequent items" (`cmsk.h:63`): `achash_sort` sorts items left over from earlier intervals with the new
  ones, and these take the places of pages sampled now. `HotPagesReported` therefore excepts intervals that sort such items.
- `hmd`'s aging option (`-a`) and `pmem_expected_samples_margin_` have no effect: neither is ever set.

## Proofs

Every theorem holds for all values of the constants that the module's assumptions admit; the bounds
that only make a model finite for TLC (numbers of walks, calls, reloads, samples) are arbitrary there.
Each component has an invariant that is inductive and implies what the runs check.

Induction and sums. A module that needs them begins with the lemmas it takes: induction over sets
(the set of numbers that satisfy a formula has no least missing number), that recursive functions over numbers
exist, sums over `1..n`, how a sum compares with another, that an order of summation does not matter.
`MigrateParamProofs` has the most of them; other modules use the same form for sums over histograms,
for partial sums of distances, and for ranges inserted one by one.

`AddrSequenceProofs`. For any addresses, page size, width of a payload, buffer and cluster sizes and
numbers of walks, whether or not a buffer can be allocated, under the hypothesis `[]InLastBuffer`: no failure of the
cluster vector (`ClusterFails`) has left the last cluster behind in a full buffer. Without the hypothesis
`ItemsInBuffers` is false of the code.
- `TypeCorrect`, `BuffersKept`, `IteratorsKept`, from `IInv`. `Packed`: clusters fill the buffers from
  front to back, and the last one ends at `buf_used_count`; without it the next item of the last cluster
  might be the first of another. `Summed`: an item's address is its cluster's start and a sum of distances,
  so partial sums exist and reach reported addresses, both iterators carry the sum of the items before theirs,
  and `last_cluster_end` is the last address appended; that a stored distance fits its field, and that a read
  delivers a reported address, rests on it. `CallTyped` and `GotTyped` type what is in flight.
- `SizeExact`, `EveryPageLocated`, `PayloadsNormalized`, from `OInv`: addresses increase along the table
  (`Ordered`), and no search or read has passed what it is asked for or what is still due. Each part of it
  says that for one caller: `Walks` for updates of later walks, `Locates` for the batches of
  `get_memory_type`, which update behind the position `get_next` has reached, `Normalizes` for the pair of
  iterators of `normalize_addr_sequence`; `Nodes` says which pages have a node already.
- `CountersExact` (`Gauges`): the byte counters are those of the entries at each location, at every walk. It
  has the hypothesis that a payload can hold the number of walks. Nothing in the loop of `sys-refs` (`GlobalScan::walk_multi`)
  enforces it: the options default to 3 scans in 2 rounds (`Option.h:127-128`), and with more than 255 walks the counters are
  wrong, as a hazard says.
- `ContractImplemented`: the refinement of `RefCounts`. `Counts` bounds payloads by walks, so that no
  increment wraps; it needs a payload that holds the addresses reported twice as well. `TableFacts` says
  what an action does to the map from addresses to entries.
The two hypotheses on payloads are true in the configurations.

`ScanPoolProofs`. For any ranges, threads, options and reloads.
- `TypeCorrect`, with `WorkerJobs` (what a worker may hold at each place); `Exclusive`, that two threads
  never have one range; `QuiescentBetween`, that no job is left when options or ranges change. `Accounts`
  says that `nr` is the number of jobs queued, held and done, and `Apart` that there is one job per range among
  them; `QuitAccounts` counts the jobs that end the threads.
- `PhasesImplemented`, the refinement of `ScanPhases`, step by step: a range is unvisited while it is not
  handed out, queued, or held by a worker that has not finished it, and `OneBatch` says that all jobs of a batch have
  the intent of the batch.
- `WalksAlign`, from `Aligned`, which relates the counters of rounds, scans and walks at each place of the main
  thread to those of the ranges.
- `PagesLocated`: `Located` says how often pages were located at each place, where during the first batch a range
  counts as pending until its job is gathered; `DoneOnce` says that it is gathered once.

`MigrateParamProofs`. For any number of ranges, walks and page sizes and for all inputs of `InputType`.
- `TypeCorrect` (thresholds inside the histogram, amounts counted within the limits) and `BudgetKept` (a
  cell's pages within what was counted). `TakenPages` is the arithmetic both rest on: whole pages never weigh more than
  the kilobytes taken for them.
- `HottestFirst`: while the ratio is adjusted no page of PMEM is promoted while a hotter one stays, and no page of
  DRAM is demoted while a colder one stays, over all ranges and page types. `HotOrder` (and `ColdOrder`, its mirror
  image) says why: a limit that has room left means that everything the loop passed is taken as a whole, and
  thresholds only move on while there is room. It needs that the cell a limit cuts off is the last one, and
  that nothing but `anti_thrashing` disables a cell.
- `LimitsKept`, `CountedAndSelected`, `NoThrashing` and `LeadsToTarget`, from `Books`, which relates
  the loop's running totals to the final thresholds: `HotBooks` and `ColdBooks` say that what was counted against a limit
  is what the pages of all cells weigh, that thresholds and remainders select just these pages while the ratio is
  adjusted and no more of them afterwards, and that with room left all pages passed are taken. `Stage` ties
  the limits to `calc_migrate_count`, which gives the right side the larger one: `LeadsToTarget` rests on it.
  `HotFirst` says that, while the ratio is right, hot thresholds move only in the first turn, so that `anti_thrashing`
  leaves no gap to a later one.

`BandwidthLimitProofs`. `TypeCorrect`, `RateKept` and `DebtKept` hold for any workers, rate, ticks per second,
history and batches, under `BandwidthLimitAssumption` (a batch is earned within the history: true
from 11 Mb/s on). `Throttled` is not inductive: it speaks of moments without a sleeper. The
invariant `Books` adds `Ledger`, the balance that the variables keep (what was charged and what is
still allowed never exceed what was earned by `last_time` and what was forgiven), and `SleepPays`, that a
sleeper's wake-up time lies late enough for its debt. The one nonlinear fact, that a truncated
sleep leaves less than a second of debt, is `SleepCovers`, from `DivisionRest`. `DebtKept` adds `Repaid`: before the
next batch is charged, the time since `last_time` repays the debt but for the rest of a second, although the history caps
what that time is credited.

`MigratePagesProofs`.
- `PeersOwned`: for any number of nodes, any files and any reloads that take the nodes from where they were
  first, no node has a peer that was freed. `Peers` says that every node that is owned is created by the entries
  (`Reached`), that its pointers were reset when the collection comes to it (`Fresh`), and that after the collection
  they name owned nodes (`Linked`).
- `FileFollowed`: after a collection, type and peers of the nodes are those of the last file. `Follows` keeps, at
  each entry of a list that also holds the entries of all earlier files, the types that the entries passed so
  far give (`TypedBefore`) and the peers (`LinkedBefore`); `FileLast` says that the entries of the last file end the list.
- `TypeCorrect`, from `MovesTyped`: every planned address has a node and a target, every answer is a node or
  an error, also where answers are left over from a longer batch.
- `CountsExact`, from `Accounts`: what is counted as moved, by pair of nodes, is what arrived, whatever
  others move meanwhile. The boxed key has 8 bits for a node, so the theorem has the hypothesis `NodesFitKey`, at
  most 128 nodes. The sum over the statistics' map must not depend on the map's order.

`IdleWalkProofs`.
- `TypeCorrect` and `BuffersNotOverrun` hold for all layouts, runs and buffers the code's
  minimum admits, whatever the process does meanwhile. `TypeInv` types the control block and the cursors of all loops;
  `Room` says at each place of the page walk what the kernel's buffer still holds: nothing is added unless it
  fits, and the place that `init_ept_idle_ctrl_buffer` keeps back is enough for the `SET_HVA` of the copy.
- `CursorsAgreeHolds`: when a read returns, `parse_idlepages` ends at the address where the module put `f_pos`. The
  property holds between reads only; what is inductive, `CursorInv`, speaks of the `Report`: the items that reached the
  reader followed by those that the kernel's buffer still holds. While the module walks, a parser of that report stands at
  `next_hva` (`Together`); `Stands` says at each loop where that is relative to the loop's cursor (at it, or at the end
  of a page that was counted whole), and `Adds` what one `eic_add_page` does to the report: nothing, a longer last run, a
  new run, or a `SET_HVA` before it. The parser is a recursive function over the items, so that the steps of a parse are
  facts about its prefixes (`ParsesThrough`).
- `LosesOnePerFullBufferHolds`: of what the walk found, a buffer that was full costs one page at most. `LossInv` says
  it of every step: the pages found that the report does not hold are at most as many as the buffers that were full. It has the hypothesis `SlotsAligned`, that a memory slot lies in its huge pages as
  the guest's addresses do: in others a huge page would start before the address that the walk asked for. KVM maps huge
  pages only into such slots, and the runs' layouts are of this kind.
- `CountedInOrderHolds`: a page size's pages are counted in increasing order, none twice. What is inductive, `OrderInv`,
  has a part for each stage of a read. While the module walks (`KernelOrder`), what was counted followed by what the `Report`
  holds (`Found`) is in order and ends before the cursor, or else before the end of the PMD of `last_va`, which
  `mm_idle_pmd_entry` does not enter again (`AtCursor`). While the report is parsed (`ParseOrder`), the rest of it is in order
  with what is counted. Between reads (`UserOrder`), what is counted ends before the reader's address.
  A small page may follow a large one that it lies in: the order is per size, so that all counted pages must be aligned
  for the large page to end before anything that follows it (`AlignedApart`). The parser stops at the end of the VMA, and pages
  behind it are left to a later read; that no page reaches over the place where it stops follows from where the runs
  of a report begin (`RunsSettle`). The hypothesis `GuestPagesAligned` says of a guest's huge pages what `SlotsAligned` says of
  slots, for PUDs too, and only of those that the walk meets; it asks nothing of other processes. In the run `ept_idle` it
  holds by the choice of the slots: `start` and `gpa` of each differ by a multiple of `PudPages`.
- `CountsWhatIsThereHolds` (in `IdleCoverProofs`, which extends `IdleWalkProofs`): a page that was mapped all along is counted. `Missing` are the pages of `stable` that were not
  skipped, `Done` those counted or in `cut`. What is inductive, `CoverInv`, says that every missing page is in the page table
  and in a VMA or slot of today (`Stay`), and at each stage that the pages missing in front of a cursor are done (`Covered`)
  and that none lies between two cursors (`Free`). While the module walks (`KernelCover`), none lies between the parser of the
  `Report` and the cursor, nor is passed over by the report itself: `Gapless` says of its items that addresses and holes
  pass over no missing page and that runs begin where their pages do, so that the parser counts all of a run
  (`RunCountsAll`). While the report is parsed (`ParseCover`), the same holds of the rest of it; between reads (`UserCover`), of
  the reader's address and the VMAs it has passed. The page table may lose pages between any two steps, but only such as leave
  `stable`.
  Besides `GuestPagesAligned` it has the hypothesis `SlotsApart`: slots share no address, and two that are mapped at
  different distances from the guest's addresses do not meet inside one PMD of the guest. Without it the property is
  false, see above; in the run `ept_idle` all slots of a guest have the same distance.
- Mappings and slots end at `TaskSize` at the latest, VMAs are in order, and those of a process that are walked are still
  covered by such after a change, for `ChangeVmas` lets VMAs grow, merge and split; unmapping is `Remap`
  (`LayoutsAssumption`).

`HotPagesProofs`. `TypeCorrect` and `FailedFiltered` (whose equation of the filter with what failed is for behaviours up to the first
positive answer since the filter was reset; the rest of it is not restricted), for any hash functions, sizes of table and sketch, ranges and
sequences of samples. `InsertRange` is about `insert_range` alone: applied to any map whose ranges are kept apart, it
leaves one that is, and that covers the addresses of the new range in addition and no others; a range that joins below, above
or on both sides and those inside it are replaced, and no other range is touched. `Sketched` types the table and adds that an
item that counts, even behind `len`, is of a page: `cmsk_sort` may bring it back. `HInv` says further that the table has
room whenever a record is read, that nothing is in flight outside of `migrate_pages`, and that no page in flight is filtered.

`HotPagesReportedHolds`: what a sorted table reports, against what was sampled in the interval.

- The hypothesis `SamplesFit` says that an interval's samples fit into the counters of 16 bits. The code does not ensure it: `cms_count_t`
  wraps (`pmu-refs/cmsk.h:16`), and then a hot page may look cold. The loop aims at 20000 samples in an interval.
- `SampleInv` says `CountsRight` while samples are read, and `Reports` once the table is sorted without anything left over.
  The parts of `CountsRight` are `Linked` (links of a chain lead to later items of the same bucket, every item is the first
  of its bucket or behind another one, no page has two), `Exact` with `hash_mode`, and otherwise `Estimated` (no counter
  is below the samples of a page that it counts, and one that the page has alone equals them) and `Held` (an item is not
  above any counter of its page; a page sampled as often as the threshold and the error has one, which misses no
  more samples than the error).
- `Linked` makes a walk of a chain find exactly the items of its bucket (`ChainIs`), so that a page is not inserted twice.
  Sorting is shown to be a permutation (`Permutation`) that has the items that count first (`CountingFirst`); the cut
  keeps none that does not count and all that reach it (`CutKeeps`).

Only model-checked: all liveness, which is out of the prover's reach.

## Not modelled

Splitting of ranges by RSS and policies of processes; the scan interval (floating-point curve
fitting); hotness drift beyond normalization; text parsers and reports; `task-refs`,
`page-refs`, scripts. Of the kernel module: dirty bits, the format of EPT entries, TLB flushes
(`tlb_flush.c`) and the lifetime of the module. Of `hmd`: opening of events, counters of memory
controllers, statistics. Of the NUMA nodes: lists of CPUs, free memory, and `dump`, which only reads, also where a collection failed.
Of the parser of `idle_pages`: the branch for an unknown type, which does not advance (`ProcIdlePages.cc:397-401`); the
kernel module packs the types of `ept_idle.h` only. Rounding of `float`s.

Several hazards of `PROJECT.json` have no property and say why: the losses that `skipped`, `cut`, `leftover` and `unanswered`
except are in the models, but not caught; one period at a time is planned, so that nothing is said of a DRAM
ratio that swings; `WithinLimits` is about the computed limits and not the configured size; bursts are not bounded.

Dead code is left out: the locate-and-move path with its DRAM quota
(`MovePages::locate_move_pages`, `calc_target_nodes`, `account_stats_count`), `EPTMigrate::migrate(type)` with
`select_top_pages`, and `smooth_payloads` have no caller.

Assumed: a period of at least 16 KB, at least one scan per round, a rate of at least
11 Mb/s.

## Plan

Done: `AddrSequence`, `ScanPool`, `MigrateParam` and `BandwidthLimit`; `IdleStream` and `IdleWalk`; `NumaNodes` and
`MigratePages`; `AddressRangeFilter`, `HotSketch` and `HotPages`; each with proofs. Next:

1. `BandwidthLimit` composed with `MigratePages`: several ranges in turn on one throttler.
2. The rest of `GlobalScan`: hotness drift, exit of the loop; splitting of ranges in `Process`.
