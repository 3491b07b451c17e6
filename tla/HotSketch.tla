----------------------------- MODULE HotSketch -----------------------------
(***************************************************************************)
(* The hot page table of hmd (cmsk.cc): a count-min sketch (cms) estimates *)
(* how often each page of each process was sampled, and pages estimated    *)
(* above a threshold get an item of their own in a chained hash table      *)
(* (achash).  With hash_mode every page sampled gets an item.              *)
(*                                                                         *)
(* A table is a record: hash_mode; the matrix and the total of the sketch; *)
(* the buckets, items and len of the hash table.  Item numbers start at 1; *)
(* 0 ends a chain.  Left out: what is only printed (samples, hist), and    *)
(* aging by halves, because cmsk.aging_method stays CMSK_AGING_CLEAR: the  *)
(* option never reaches it.                                                *)
(***************************************************************************)
EXTENDS Integers, FiniteSets

CONSTANTS
  Keys,       \* pages sampled: [pid, addr]
  NoKey,
  Depth,      \* cms.depth
  Width,      \* 1 << cms.width_order
  Size,       \* 1 << achash.size_order
  Threshold,  \* achash.threshold
  HashOf      \* hash(): row -> key -> number

ASSUME SketchAssumption ==
  /\ Depth \in Nat \ {0}
  /\ Width > 1 /\ \E order \in 1 .. 31 : Width = 2 ^ order
  /\ Size > 0 /\ \E order \in 0 .. 31 : Size = 2 ^ order
  /\ Threshold \in Nat \ {0} /\ NoKey \notin Keys
  /\ HashOf \in [1 .. Depth -> [Keys -> Nat]]

Rows    == 1 .. Depth
Columns == 0 .. Width - 1
Counts  == 0 .. 65535     \* cms_count_t, and the 16 bits of item.count
CmsCount(n) == n % 65536

NoItem == [key |-> NoKey, count |-> 0, next |-> 0]

cmsk_init(hash_mode) ==
  [hash_mode |-> hash_mode, total |-> 0, len |-> 0,
   matrix  |-> [r \in Rows |-> [c \in Columns |-> 0]],
   buckets |-> [b \in 0 .. Size - 1 |-> 0],
   items   |-> [n \in 1 .. Size |-> NoItem]]

\* cmsk_age(): the items are forgotten by len alone, their contents stay.
cmsk_age(sk) == [cmsk_init(sk.hash_mode) EXCEPT !.items = sk.items]

-----------------------------------------------------------------------------
Column(r, key) == HashOf[r][key] % Width

Estimate(matrix, key) ==
  LET counts == {matrix[r][Column(r, key)] : r \in Rows} IN CHOOSE n \in counts : \A m \in counts : n <= m

cms_error(sk) == sk.total \div (Width \div 2)

cms_update(sk, key) ==
  [sk EXCEPT !.total = @ + 1,
             !.matrix = [r \in Rows |->
               [c \in Columns |-> CmsCount(sk.matrix[r][c] + IF c = Column(r, key) THEN 1 ELSE 0)]]]

-----------------------------------------------------------------------------
\* The bucket of a key: the hash of the last row, which the sketch masked.
Bucket(sk, key) ==
  (IF sk.hash_mode THEN HashOf[Depth][key] ELSE Column(Depth, key)) % Size

\* The item numbers on the chain of a bucket.
Chain(sk, b) ==
  LET walk[i \in 0 .. Size] == IF i = 0 THEN sk.buckets[b]
                               ELSE IF walk[i - 1] = 0 THEN 0 ELSE sk.items[walk[i - 1]].next
  IN {walk[i] : i \in 0 .. Size} \ {0}

\* Fault: pages of different processes share an item.
FaultSameKey(key, other) == other # NoKey /\ key.addr = other.addr

SameKey(key, other) == key = other

achash_new_item(sk, key) ==
  [sk EXCEPT !.len = @ + 1,
             !.items[sk.len + 1] = [key |-> key, next |-> 0,
                                    count |-> CmsCount(IF sk.hash_mode THEN 1 ELSE Threshold)]]

\* A key met on its chain is counted, another is linked to the end of it.
achash_update(sk, key) ==
  LET b     == Bucket(sk, key)
      chain == Chain(sk, b)
      met   == {n \in chain : SameKey(key, sk.items[n].key)}
      tail  == CHOOSE n \in chain : sk.items[n].next = 0
      added == achash_new_item(sk, key) IN
  IF met # {} THEN [sk EXCEPT !.items[CHOOSE n \in met : TRUE].count = CmsCount(@ + 1)]
  ELSE IF chain = {} THEN [added EXCEPT !.buckets[b] = added.len]
  ELSE [added EXCEPT !.items[tail].next = added.len]

\* One sample.
cmsk_update(sk, key) ==
  IF sk.hash_mode THEN achash_update([sk EXCEPT !.total = @ + 1], key)
  ELSE LET counted == cms_update(sk, key) IN
       IF Estimate(counted.matrix, key) >= Threshold + cms_error(counted)
         THEN achash_update(counted, key) ELSE counted

\* Fault: the table is full one item late.
FaultFull(before, after) == after.len > before.len /\ after.len > Size

\* What cmsk_update() returns: a new item took the last place.
Full(before, after) == after.len > before.len /\ after.len >= Size

-----------------------------------------------------------------------------
\* The least count that cmsk_sort() keeps.
Cut(sk) == Threshold + (IF sk.hash_mode THEN 0 ELSE cms_error(sk))

\* achash_sort(): all items, also those behind len; equal counts in any order.
\* The links make no sense afterwards and are not read until the next interval.
Sorted(items) ==
  {[n \in 1 .. Size |-> [items[p[n]] EXCEPT !.next = 0]] :
     p \in {q \in [1 .. Size -> 1 .. Size] :
              /\ Cardinality({q[n] : n \in 1 .. Size}) = Size
              /\ \A m, n \in 1 .. Size : m < n => items[q[m]].count >= items[q[n]].count}}

\* Where the sorted items before end fall to a count.
achash_bsearch(items, end, count) == Cardinality({n \in 1 .. end : items[n].count > count})

\* cmsk_sort(): the tables it may leave.  len is cut by a binary search below
\* its last item, unless that one is above the threshold too.
cmsk_sort(sk) ==
  IF sk.len = 0 THEN {sk}
  ELSE {[sk EXCEPT !.items = items,
           !.len = IF items[sk.len].count >= Cut(sk) THEN sk.len
                   ELSE achash_bsearch(items, sk.len - 1, CmsCount(Cut(sk) - 1))] :
          items \in Sorted(sk.items)}

\* Items that belong to earlier intervals.
Leftover(sk) == {sk.items[n] : n \in sk.len + 1 .. Size} \ {NoItem}

-----------------------------------------------------------------------------
SketchTypeOK(sk) ==
  /\ sk.len \in 0 .. Size /\ sk.total \in Nat
  /\ \A b \in DOMAIN sk.buckets : sk.buckets[b] \in 0 .. Size
  /\ \A n \in 1 .. sk.len : sk.items[n].key \in Keys /\ sk.items[n].count \in Counts

=============================================================================
