---------------------------- MODULE AddrSequence ----------------------------
(***************************************************************************)
(* The sparse array of page addresses and reference counts of one range    *)
(* and one page type (AddrSequence.h, AddrSequence.cc), driven the way one *)
(* scan period drives it: walks (ProcIdlePages::walk, inc_page_refs), the  *)
(* location of its pages (EPTScan::get_memory_type), the reads at the end  *)
(* of the period (count_refs_one, promote_and_demote) and normalisation    *)
(* (EPTMigrate::normalize_addr_sequence).                                  *)
(*                                                                         *)
(* Addresses are grouped in clusters; an item stores the distance to the   *)
(* item before it in pages.  Items live in fixed-size buffers and a        *)
(* cluster never leaves the buffer it starts in.  An update searches from  *)
(* where the previous one stopped: one step of Seek* is one turn of the    *)
(* loop of update_addr() and update_nodeid().                              *)
(***************************************************************************)
EXTENDS Integers, Sequences, FiniteSets

CONSTANTS
  PageSize,      \* pagesize: bytes of a page of this type
  MaxDelta,      \* MAX_DELTA_DIST: the largest distance an item can store
  BufItems,      \* MAX_ITEM_COUNT: items per buffer
  PayloadMod,    \* 2^w for the w-bit payload of an item
  Addrs,         \* addresses the kernel may report
  Nids,          \* what move_pages() may say of a page: its node, or < 0
  DramNodes, PmemNodes, \* the nodes that numa_collection knows, by type
  Chunk,         \* addresses located by one move_pages() call
  HotThreshold,  \* global_hot_threshold: counts normalised to 1 ...
  HotMax,        \* ... lie between these two
  MaxWalks,      \* bound: walks in the period (nr_scans * nr_scan_rounds)
  MaxRepeats,    \* bound: addresses reported a second time in one walk
  MaxEntries,    \* bound: addresses in the sequence
  None, EndOfSequence

ASSUME SizesAssumption ==
  /\ PageSize \in Nat \ {0} /\ MaxDelta \in Nat \ {0}
  /\ BufItems \in Nat \ {0} /\ PayloadMod \in Nat \ {0, 1}
  /\ Chunk \in Nat \ {0} /\ HotThreshold \in Nat /\ HotMax \in Nat
  /\ MaxWalks \in Nat /\ MaxRepeats \in Nat /\ MaxEntries \in Nat

ASSUME ValuesAssumption ==
  /\ Addrs \subseteq Nat
  /\ Nids \subseteq Int \ {-1} /\ DramNodes \cup PmemNodes \subseteq Nat
  /\ None \notin [op : {"inc", "set", "nid"}, addr : Addrs, arg : {0, 1} \cup Nids]
  /\ EndOfSequence \notin [addr : Addrs, refs : Nat, nid : Int]
  /\ None \notin [addr : Addrs, refs : Nat, nid : Int]

VARIABLES
  addr_clusters,   \* sequence of [start, buf, off, deltas]
  buf_pool,        \* how many buffers were allocated
  buf_used_count,  \* items used in the last of them
  addr_size, nr_walks, top_bytes, young_bytes, last_cluster_end,
  find_iter, walk_iter,
  call,            \* the update in progress, or None
  got,             \* what the last get_first()/get_next() delivered
  phase,           \* what the callers are doing
  last_addr,       \* the last address presented in this pass
  repeats,         \* addresses reported twice in this walk
  addr_set,        \* addresses read and waiting to be located
  filling,         \* is addr_set still being filled?
  touched,         \* history: entries counted in this walk
  clean,           \* history: no entry was counted twice in one walk
  missed           \* history: a batch of addresses could not be located

seqVars  == <<addr_clusters, buf_pool, buf_used_count, addr_size>>
statVars == <<top_bytes, young_bytes>>
envVars  == <<phase, last_addr, repeats, addr_set, filling, touched, clean, missed>>
vars == <<seqVars, statVars, nr_walks, last_cluster_end, find_iter, walk_iter, call, got, envVars>>

-----------------------------------------------------------------------------
(* Items, clusters and iterators.                                          *)

NoNid == -1
Locations == {"DRAM", "PMEM", "UNKNOW"}

Location(nid) ==
  CASE nid \in PmemNodes -> "PMEM" [] nid \in DramNodes \ PmemNodes -> "DRAM" [] OTHER -> "UNKNOW"

NewItem(d, n) == [delta |-> d, payload |-> n, nid |-> NoNid, location |-> "DRAM"]

Last(s) == s[Len(s)]

AtEnd(it) == it.cluster = it.end + 1

Item(it) == addr_clusters[it.cluster].deltas[it.index]

\* do_walk(): the address under the iterator.
AddrAt(it) == addr_clusters[it.cluster].start + (it.sum + Item(it).delta) * PageSize

\* Fault: the end of a cluster noticed one item late.
MoveNextLate(it) ==
  IF it.index > Len(addr_clusters[it.cluster].deltas)
    THEN [it EXCEPT !.index = 1, !.sum = 0, !.cluster = @ + 1]
    ELSE [it EXCEPT !.index = @ + 1, !.sum = @ + Item(it).delta]

\* Fault: delta_sum carried over into the next cluster.
MoveNextKeepsSum(it) ==
  IF it.index + 1 > Len(addr_clusters[it.cluster].deltas)
    THEN [it EXCEPT !.index = 1, !.sum = @ + Item(it).delta, !.cluster = @ + 1]
    ELSE [it EXCEPT !.index = @ + 1, !.sum = @ + Item(it).delta]

\* do_walk_move_next()
MoveNext(it) ==
  IF it.index + 1 > Len(addr_clusters[it.cluster].deltas)
    THEN [it EXCEPT !.index = 1, !.sum = 0, !.cluster = @ + 1]
    ELSE [it EXCEPT !.index = @ + 1, !.sum = @ + Item(it).delta]

\* reset_iterator(iter, new_start) over the clusters cs
ResetIterator(cs, new_start) ==
  [cluster |-> new_start, end |-> Len(cs), sum |-> 0, index |-> 1]

\* Fault: a page is top only above nr_walks.
CountLocationAbove(item) ==
  /\ young_bytes' = IF item.payload >= 1
                      THEN [young_bytes EXCEPT ![item.location] = @ + PageSize]
                      ELSE young_bytes
  /\ top_bytes' = IF item.payload > nr_walks
                    THEN [top_bytes EXCEPT ![item.location] = @ + PageSize]
                    ELSE top_bytes

\* update_addr_location_count() for an item just written
CountLocation(item) ==
  /\ young_bytes' = IF item.payload >= 1
                      THEN [young_bytes EXCEPT ![item.location] = @ + PageSize]
                      ELSE young_bytes
  /\ top_bytes' = IF item.payload >= nr_walks
                    THEN [top_bytes EXCEPT ![item.location] = @ + PageSize]
                    ELSE top_bytes

NoBytes == [l \in Locations |-> 0]

InAppendPeriod == nr_walks < 2

IsBufferFull == buf_used_count = BufItems

-----------------------------------------------------------------------------
(* The first walk: append_addr().                                          *)

\* Fault: any distance is stored.
CanMergeAnyDistance(a) ==
  ~IsBufferFull /\ (a - last_cluster_end) % PageSize = 0

\* Fault: the end of the buffer is not noticed.
CanMergeIntoFullBuffer(a) ==
  LET addr_delta == a - last_cluster_end
  IN  addr_delta \div PageSize <= MaxDelta /\ addr_delta % PageSize = 0

CanMergeIntoCluster(a) ==
  LET addr_delta == a - last_cluster_end
  IN  /\ addr_delta \div PageSize <= MaxDelta
      /\ ~IsBufferFull
      /\ addr_delta % PageSize = 0

\* addr <= last_cluster_end: IGNORE_DUPLICATED_ADDR
RefuseDuplicate(a) ==
  /\ addr_clusters # <<>> /\ a <= last_cluster_end
  /\ UNCHANGED <<seqVars, last_cluster_end, find_iter>>

\* Fault: an address reported twice in the first walk is appended again.
AppendableTwice(a) == addr_clusters # <<>> => a >= last_cluster_end

Appendable(a) == addr_clusters # <<>> => a > last_cluster_end

SaveIntoCluster(a) ==
  /\ addr_size' = addr_size + 1
  /\ last_cluster_end' = a

\* save_into_cluster() on the last cluster
MergeIntoCluster(a, n) ==
  /\ addr_clusters # <<>> /\ Appendable(a) /\ CanMergeIntoCluster(a)
  /\ LET delta == (a - last_cluster_end) \div PageSize
     IN  addr_clusters' = [addr_clusters EXCEPT ![Len(addr_clusters)].deltas =
                             Append(@, NewItem(delta, n))]
  /\ buf_used_count' = buf_used_count + 1
  /\ SaveIntoCluster(a)
  /\ UNCHANGED <<buf_pool, find_iter>>

NeedsCluster(a) ==
  Appendable(a) /\ (addr_clusters # <<>> => ~CanMergeIntoCluster(a))

\* create_cluster(): the new cluster starts where the used part of the last
\* buffer ends, in a new buffer if that one is full, and find_iter moves to it.
CreateCluster(a, n) ==
  LET off == IF IsBufferFull THEN 0 ELSE buf_used_count
      buf == IF IsBufferFull THEN buf_pool + 1 ELSE buf_pool
      new == [start |-> a, buf |-> buf, off |-> off, deltas |-> <<NewItem(0, n)>>]
  IN  /\ NeedsCluster(a)
      /\ addr_clusters' = Append(addr_clusters, new)
      /\ buf_pool' = buf
      /\ buf_used_count' = off + 1
      /\ find_iter' = ResetIterator(addr_clusters', Len(addr_clusters'))
      /\ SaveIntoCluster(a)

\* allocate_buf() fails: nothing changed yet.
AllocateFails(a) ==
  /\ NeedsCluster(a) /\ IsBufferFull
  /\ UNCHANGED <<seqVars, last_cluster_end, find_iter>>

\* addr_clusters.push_back() fails: a new buffer stays, and is the one that is_buffer_full()
\* speaks of, although the last cluster is still in the full one.
ClusterFails(a) ==
  /\ NeedsCluster(a)
  /\ IF IsBufferFull
       THEN buf_pool' = buf_pool + 1 /\ buf_used_count' = 0
       ELSE UNCHANGED <<buf_pool, buf_used_count>>
  /\ UNCHANGED <<addr_clusters, addr_size, last_cluster_end, find_iter>>

AppendAddr(a, n) ==
  /\ \/ RefuseDuplicate(a)
     \/ MergeIntoCluster(a, n)
     \/ CreateCluster(a, n)
     \/ AllocateFails(a)
     \/ ClusterFails(a)
  /\ UNCHANGED <<statVars, nr_walks, walk_iter, call, got>>

-----------------------------------------------------------------------------
(* Updates: the search loop of update_addr() and update_nodeid().          *)

Ask(op, a, arg) ==
  /\ call' = [op |-> op, addr |-> a, arg |-> arg]
  /\ UNCHANGED <<seqVars, statVars, nr_walks, last_cluster_end, find_iter,
                 walk_iter, got>>

\* An update_nodeid() after, or a set_payload() in, the append period: -1.
Deny ==
  UNCHANGED <<seqVars, statVars, nr_walks, last_cluster_end, find_iter, walk_iter, call, got>>

\* next_addr < addr: do_walk_move_next()
SeekNext ==
  /\ call # None
  /\ ~AtEnd(find_iter)
  /\ AddrAt(find_iter) < call.addr
  /\ find_iter' = MoveNext(find_iter)
  /\ UNCHANGED <<seqVars, statVars, nr_walks, last_cluster_end, walk_iter,
                 call, got, envVars>>

\* do_walk_update_payload(), do_walk_update_nid()
Written(item) ==
  CASE call.op = "inc" -> [item EXCEPT !.payload = (@ + 1) % PayloadMod]
    [] call.op = "set" -> [item EXCEPT !.payload = call.arg]
    [] call.op = "nid" -> [item EXCEPT !.nid = call.arg, !.location = Location(call.arg)]

\* next_addr = addr: the item is written and counted, except that an idle page
\* (n = 0) is left alone; find_iter stays on it.
SeekFound ==
  LET item == Written(Item(find_iter))
      idle == call.op = "inc" /\ call.arg = 0
  IN  /\ call # None
      /\ ~AtEnd(find_iter)
      /\ AddrAt(find_iter) = call.addr
      /\ IF idle
           THEN UNCHANGED <<addr_clusters, statVars, touched, clean>>
           ELSE /\ addr_clusters' = [addr_clusters EXCEPT
                     ![find_iter.cluster].deltas[find_iter.index] = item]
                /\ CountLocation(item)
                /\ touched' = IF call.op = "inc" THEN touched \cup {call.addr} ELSE touched
                /\ clean' = (clean /\ (call.op = "inc" => call.addr \notin touched))
      /\ call' = None
      /\ UNCHANGED <<buf_pool, buf_used_count, addr_size, nr_walks, last_cluster_end,
                     find_iter, walk_iter, got,
                     phase, last_addr, repeats, addr_set, filling, missed>>

\* next_addr > addr, or END_OF_SEQUENCE: ADDR_NOT_FOUND, find_iter stays.
SeekMissing ==
  /\ call # None
  /\ ~AtEnd(find_iter) => AddrAt(find_iter) > call.addr
  /\ call' = None
  /\ UNCHANGED <<seqVars, statVars, nr_walks, last_cluster_end, find_iter,
                 walk_iter, got, envVars>>

-----------------------------------------------------------------------------
(* Sequential reads: get_first() and get_next().                           *)

DoGet(it) ==
  IF AtEnd(it)
    THEN got' = EndOfSequence /\ walk_iter' = it
    ELSE /\ got' = [addr |-> AddrAt(it), refs |-> Item(it).payload, nid |-> Item(it).nid]
         /\ walk_iter' = MoveNext(it)

GetFirst ==
  IF addr_clusters = <<>>
    THEN got' = EndOfSequence /\ UNCHANGED walk_iter
    ELSE DoGet(ResetIterator(addr_clusters, 1))

GetNext == DoGet(walk_iter)

\* Fault: the search does not start from the first cluster again.
PrepareUpdateKeepsPlace ==
  /\ UNCHANGED find_iter
  /\ last_cluster_end' = 0

\* prepare_update()
PrepareUpdate ==
  /\ find_iter' = ResetIterator(addr_clusters, 1)
  /\ last_cluster_end' = 0

-----------------------------------------------------------------------------
(* One period of the callers.                                              *)

Init ==
  /\ addr_clusters = <<>> /\ buf_pool = 0 /\ buf_used_count = BufItems
  /\ addr_size = 0 /\ nr_walks = 0 /\ last_cluster_end = 0
  /\ top_bytes = NoBytes /\ young_bytes = NoBytes
  /\ find_iter = ResetIterator(<<>>, 1) /\ walk_iter = ResetIterator(<<>>, 1)
  /\ call = None /\ got = None
  /\ phase = "rest" /\ last_addr = -1 /\ repeats = 0
  /\ addr_set = <<>> /\ filling = FALSE
  /\ touched = {} /\ clean = TRUE /\ missed = FALSE

\* ProcIdlePages::walk() calls rewind() before it reads.
BeginWalk ==
  /\ phase = "rest" /\ nr_walks < MaxWalks
  /\ phase' = "walk"
  /\ find_iter' = ResetIterator(addr_clusters, 1)
  /\ nr_walks' = nr_walks + 1
  /\ last_cluster_end' = 0
  /\ top_bytes' = NoBytes /\ young_bytes' = NoBytes
  /\ touched' = {}
  /\ UNCHANGED <<seqVars, walk_iter, call, got, last_addr, repeats, addr_set, filling, clean, missed>>

\* The kernel reports addresses in order; a huge page that two VMAs share is
\* reported twice (EPTScan.cc:143-146).
Reported(a) ==
  /\ phase = "walk" /\ call = None
  /\ a > last_addr \/ (a = last_addr /\ repeats < MaxRepeats)
  /\ last_addr' = a
  /\ repeats' = IF a = last_addr THEN repeats + 1 ELSE repeats
  /\ UNCHANGED <<phase, addr_set, filling, clean, missed>>

\* inc_payload(a, n): n = 0 for an idle page, 1 for an accessed one
AppendPageRef(a, n) ==
  /\ InAppendPeriod /\ Reported(a) /\ (addr_size < MaxEntries \/ ~Appendable(a))
  /\ AppendAddr(a, n)
  /\ UNCHANGED touched

CountPageRef(a, n) ==
  ~InAppendPeriod /\ Reported(a) /\ Ask("inc", a, n) /\ UNCHANGED touched

EndWalk ==
  /\ phase = "walk" /\ call = None /\ nr_walks > 1
  /\ phase' = "rest"
  /\ last_addr' = -1 /\ repeats' = 0
  /\ UNCHANGED <<seqVars, statVars, nr_walks, last_cluster_end, find_iter, walk_iter,
                 call, got, addr_set, filling, touched, clean, missed>>

\* EPTScan::get_memory_type() runs after the first walk of every scan round.
BeginLocate ==
  /\ phase = "walk" /\ call = None
  /\ phase' = "locate"
  /\ PrepareUpdate
  /\ GetFirst
  /\ addr_set' = <<>> /\ filling' = TRUE
  /\ last_addr' = -1 /\ repeats' = 0
  /\ UNCHANGED <<seqVars, statVars, nr_walks, call, touched, clean, missed>>

\* A batch is complete: move_pages() locates it, or fails and it is skipped.
LocateBatch(batch) ==
  /\ filling' = FALSE
  /\ \/ addr_set' = batch /\ UNCHANGED missed
     \/ addr_set' = <<>> /\ missed' = TRUE

CollectAddr ==
  /\ phase = "locate" /\ filling /\ got # EndOfSequence
  /\ LET batch == Append(addr_set, got.addr)
     IN  IF Len(batch) >= Chunk
           THEN LocateBatch(batch) /\ UNCHANGED <<got, walk_iter>>
           ELSE addr_set' = batch /\ GetNext /\ UNCHANGED <<filling, missed>>
  /\ UNCHANGED <<seqVars, statVars, nr_walks, last_cluster_end, find_iter, call,
                 phase, last_addr, repeats, touched, clean>>

\* The addresses left when the sequence ends.
CollectRest ==
  /\ phase = "locate" /\ filling /\ got = EndOfSequence /\ addr_set # <<>>
  /\ LocateBatch(addr_set)
  /\ UNCHANGED <<seqVars, statVars, nr_walks, last_cluster_end, find_iter, walk_iter,
                 call, got, phase, last_addr, repeats, touched, clean>>

\* update_nodeid() for the next address of the batch
LocateAddr(nid) ==
  /\ phase = "locate" /\ ~filling /\ call = None /\ addr_set # <<>>
  /\ IF InAppendPeriod THEN Ask("nid", Head(addr_set), nid) ELSE Deny
  /\ addr_set' = Tail(addr_set)
  /\ UNCHANGED <<phase, last_addr, repeats, filling, touched, clean, missed>>

NextBatch ==
  /\ phase = "locate" /\ ~filling /\ call = None /\ addr_set = <<>>
  /\ got # EndOfSequence
  /\ GetNext
  /\ filling' = TRUE
  /\ UNCHANGED <<seqVars, statVars, nr_walks, last_cluster_end, find_iter, call,
                 phase, last_addr, repeats, addr_set, touched, clean, missed>>

EndLocate ==
  /\ phase = "locate" /\ call = None /\ addr_set = <<>> /\ got = EndOfSequence
  /\ phase' = "rest"
  /\ UNCHANGED <<seqVars, statVars, nr_walks, last_cluster_end, find_iter, walk_iter,
                 call, got, last_addr, repeats, addr_set, filling, touched,
                 clean, missed>>

\* The end of the period: the sequence is read from the start, again and again
\* (count_refs_one(), promote_and_demote(), calc_page_hotness_drifting()).
ReadFirst ==
  /\ \/ phase = "rest" /\ nr_walks > 0 /\ phase' = "report"
     \/ phase \in {"report", "drift"} /\ got = EndOfSequence /\ UNCHANGED phase
  /\ GetFirst
  /\ touched' = {}
  /\ UNCHANGED <<seqVars, statVars, nr_walks, last_cluster_end, find_iter, call,
                 last_addr, repeats, addr_set, filling, clean, missed>>

ReadNext ==
  /\ phase \in {"report", "drift"} /\ got # EndOfSequence
  /\ GetNext
  /\ UNCHANGED <<seqVars, statVars, nr_walks, last_cluster_end, find_iter, call,
                 envVars>>

\* normalize_addr_sequence(): every payload becomes 1 if it is hot, else 0.
BeginNormalize ==
  /\ phase = "report" /\ got = EndOfSequence
  /\ phase' = "normalize"
  /\ PrepareUpdate
  /\ GetFirst
  /\ filling' = TRUE
  /\ UNCHANGED <<seqVars, statVars, nr_walks, call, last_addr, repeats, addr_set,
                 touched, clean, missed>>

NormalizeAddr ==
  LET hot == HotThreshold <= got.refs /\ got.refs <= HotMax
  IN  /\ phase = "normalize" /\ filling /\ got # EndOfSequence
      /\ IF InAppendPeriod THEN Deny ELSE Ask("set", got.addr, IF hot THEN 1 ELSE 0)
      /\ filling' = FALSE
      /\ UNCHANGED <<phase, last_addr, repeats, addr_set, touched, clean, missed>>

NormalizeNext ==
  /\ phase = "normalize" /\ ~filling /\ call = None
  /\ GetNext
  /\ filling' = TRUE
  /\ UNCHANGED <<seqVars, statVars, nr_walks, last_cluster_end, find_iter, call,
                 phase, last_addr, repeats, addr_set, touched, clean, missed>>

EndNormalize ==
  /\ phase = "normalize" /\ filling /\ got = EndOfSequence
  /\ phase' = "drift"
  /\ UNCHANGED <<seqVars, statVars, nr_walks, last_cluster_end, find_iter, walk_iter,
                 call, got, last_addr, repeats, addr_set, filling, touched,
                 clean, missed>>

Next ==
  \/ BeginWalk \/ EndWalk
  \/ \E a \in Addrs, n \in {0, 1} : AppendPageRef(a, n) \/ CountPageRef(a, n)
  \/ SeekNext \/ SeekFound \/ SeekMissing
  \/ BeginLocate \/ CollectAddr \/ CollectRest \/ NextBatch \/ EndLocate
  \/ \E nid \in Nids : LocateAddr(nid)
  \/ ReadFirst \/ ReadNext
  \/ BeginNormalize \/ NormalizeAddr \/ NormalizeNext \/ EndNormalize

Spec == Init /\ [][Next]_vars

-----------------------------------------------------------------------------
(* Properties.                                                             *)

ItemType == [delta : 0..MaxDelta, payload : 0..(PayloadMod - 1),
             nid : Nids \cup {NoNid}, location : Locations]

ClusterType == [start : Addrs, buf : Nat \ {0}, off : Nat, deltas : Seq(ItemType)]

IterType == [cluster : Nat \ {0}, end : Nat, sum : Nat, index : Nat \ {0}]

\* Type correctness; an item's distance and payload fit their 8-bit fields.
TypeOK ==
  /\ addr_clusters \in Seq(ClusterType)
  /\ buf_pool \in Nat /\ buf_used_count \in 0..BufItems
  /\ addr_size \in Nat /\ nr_walks \in 0..MaxWalks
  /\ top_bytes \in [Locations -> Nat] /\ young_bytes \in [Locations -> Nat]
  /\ last_cluster_end \in Addrs \cup {0}
  /\ find_iter \in IterType /\ walk_iter \in IterType
  /\ call \in {None} \cup [op : {"inc", "set", "nid"}, addr : Addrs, arg : {0, 1} \cup Nids]
  /\ phase \in {"rest", "walk", "locate", "report", "normalize", "drift"}
  /\ last_addr \in Addrs \cup {-1} /\ repeats \in 0..MaxRepeats
  /\ addr_set \in Seq(Addrs) /\ filling \in BOOLEAN
  /\ touched \subseteq Addrs /\ clean \in BOOLEAN /\ missed \in BOOLEAN

Clusters == DOMAIN addr_clusters
Items(c) == DOMAIN addr_clusters[c].deltas
Positions == UNION {{c} \X Items(c) : c \in Clusters}

\* No ClusterFails() has left the last cluster behind in a full buffer.  Where it
\* does, the next address that can be merged is written behind that buffer, and
\* nothing is known of the memory it overwrites: the other properties are about
\* sequences to which this did not happen.
InLastBuffer == addr_clusters # <<>> => Last(addr_clusters).buf = buf_pool

\* An item outside its buffer, or in the place of another item, is memory the
\* sequence does not own: "deltas; // points into AddrSequence::bufs"
\* (AddrSequence.h:30).  Every cluster lies inside one allocated buffer, and no
\* two share a place.
ItemsInBuffers ==
  /\ \A c \in Clusters :
       LET k == addr_clusters[c]
       IN  k.deltas # <<>> /\ k.buf <= buf_pool /\ k.off + Len(k.deltas) <= BufItems
  /\ \A c, d \in Clusters : c < d =>
       \/ addr_clusters[c].buf < addr_clusters[d].buf
       \/ /\ addr_clusters[c].buf = addr_clusters[d].buf
          /\ addr_clusters[c].off + Len(addr_clusters[c].deltas) <= addr_clusters[d].off

\* An iterator is either exhausted or on an item that exists: do_walk() reads
\* cur_delta_ptr[delta_index] without a check, whatever was appended, located or
\* rewound since the iterator was set.
InBounds(it) ==
  /\ it.end <= Len(addr_clusters)
  /\ it.cluster <= it.end + 1
  /\ it.cluster <= it.end => it.index \in Items(it.cluster)

IteratorsInBounds == InBounds(find_iter) /\ InBounds(walk_iter)

\* The address of the i-th item of cluster c, summed from the cluster's start.
ItemAddr(c, i) ==
  LET k == addr_clusters[c]
      sum[j \in 0..i] == IF j = 0 THEN 0 ELSE sum[j - 1] + k.deltas[j].delta
  IN  k.start + sum[i] * PageSize

\* The table a sequence stands for.
Table ==
  LET at == [p \in Positions |-> ItemAddr(p[1], p[2])]
  IN  [a \in {at[p] : p \in Positions} |->
         LET p == CHOOSE q \in Positions : at[q] = a
             item == addr_clusters[p[1]].deltas[p[2]]
         IN  [refs |-> item.payload, nid |-> item.nid]]

\* No address is stored twice and size() counts the addresses: the byte totals
\* of gather_walk_stats() are size() << pageshift.
SizeIsEntries ==
  /\ addr_size = Cardinality(Positions)
  /\ addr_size = Cardinality(DOMAIN Table)

\* The byte counters of a walk are exact.  A page counts as young at its
\* location if it was accessed in this walk, as top if it was accessed in every
\* walk; in the first walk a page is counted when it is located.  Only a page
\* reported twice in a walk may break this.
Stored(p) == addr_clusters[p[1]].deltas[p[2]]

Seen(p) ==
  IF InAppendPeriod THEN Stored(p).nid # NoNid /\ Stored(p).payload > 0
                    ELSE ItemAddr(p[1], p[2]) \in touched

StatsExact ==
  (clean /\ phase \in {"walk", "locate", "rest"}) =>
    \A l \in Locations :
      LET counted == {p \in Positions : Stored(p).location = l /\ Seen(p)}
          top     == {p \in counted : Stored(p).payload >= nr_walks}
      IN  /\ young_bytes[l] = PageSize * Cardinality(counted)
          /\ top_bytes[l] = PageSize * Cardinality(top)

\* get_memory_type() updates a page while get_next() is already past it: when it
\* ends, every page of the sequence was located unless move_pages() failed.
LocatedAll ==
  (nr_walks > 0 /\ phase \in {"rest", "report"} /\ ~missed) =>
    \A p \in Positions : /\ Stored(p).nid # NoNid
                         /\ Stored(p).location = Location(Stored(p).nid)

\* After normalisation every payload is 0 or 1: it is the sum of two of them
\* that calc_page_hotness_drifting() compares with 1 and 2.
NormalizedPayloads ==
  (phase = "drift" /\ ~InAppendPeriod) => \A a \in DOMAIN Table : Table[a].refs <= 1

\* The sequence implements its contract: a table that the first walk fills and
\* later walks update wherever the page lies, read in order and in full.
Contract ==
  INSTANCE RefCounts WITH table <- Table, walks <- nr_walks, pending <- call

ImplementsContract == Contract!Spec
=============================================================================
