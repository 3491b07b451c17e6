------------------------- MODULE AddrSequenceProofs --------------------------
(***************************************************************************)
(* AddrSequence for any addresses, page size, buffer size and number of    *)
(* walks, whatever the interleaving of updates and reads, as long as the   *)
(* last cluster lies in the last buffer (InLastBuffer): no read or write   *)
(* leaves the buffers (IInv); the table is ordered, every page that is     *)
(* asked for is found, located and normalised (OInv); the byte counters    *)
(* are exact (Gauges); and the sequence implements the table of RefCounts  *)
(* (Counts, TableFacts).                                                   *)
(***************************************************************************)
EXTENDS AddrSequence, FiniteSetTheorems, WellFoundedInduction, TLAPS

-----------------------------------------------------------------------------
(* Sums over the numbers 1..n, and proofs by induction over them: the      *)
(* induction theorems of the library take the formula as an operator, here *)
(* it is the set of the numbers that satisfy it.                           *)

\* f runs through the sums of v up to n.
RunsThrough(f, v, n) ==
  /\ f[0] = 0
  /\ \A i \in 1..n : f[i] = f[i - 1] + v[i]

LessOnNat == {pair \in Nat \X Nat : pair[1] < pair[2]}

\* Every set of natural numbers has a least element.
LEMMA LessWellFounded == IsWellFoundedOn(LessOnNat, Nat)
  BY NatLessThanWellFounded, Zenon DEF OpToRel, LessOnNat

\* A set that holds 0 and the successor of each of its numbers holds them all.
LEMMA SetInduction ==
  ASSUME NEW S, 0 \in S, \A n \in Nat : n \in S => n + 1 \in S
  PROVE  \A n \in Nat : n \in S
  <1> DEFINE T == Nat \ S
  <1>1. \A x, y \in Nat : y < x => <<y, x>> \in LessOnNat
    BY DEF LessOnNat
  <1> SUFFICES ASSUME T # {} PROVE FALSE
    OBVIOUS
  <1>2. \E x \in T : \A y \in T : <<y, x>> \notin LessOnNat
    <2>1. T \subseteq Nat
      OBVIOUS
    <2> HIDE DEF T
    <2> QED
      BY LessWellFounded, WFMin, <2>1, Zenon
  <1>3. PICK x \in T : \A y \in T : <<y, x>> \notin LessOnNat
    BY <1>2
  <1>4. x \in Nat /\ x # 0 /\ x \notin S
    OBVIOUS
  <1>5. x - 1 \in Nat /\ x - 1 < x
    BY <1>4
  <1>6. x - 1 \in S
    BY <1>1, <1>3, <1>4, <1>5
  <1> QED
    BY <1>4, <1>5, <1>6

\* Only one function runs through the sums.
LEMMA RunsUnique ==
  ASSUME NEW v, NEW n \in Nat, NEW f, NEW g, RunsThrough(f, v, n), RunsThrough(g, v, n)
  PROVE  f[n] = g[n]
  <1> DEFINE S == {k \in Nat : k <= n => f[k] = g[k]}
  <1>1. 0 \in S
    BY DEF RunsThrough
  <1>2. ASSUME NEW k \in Nat, k \in S PROVE k + 1 \in S
    <2> SUFFICES ASSUME k + 1 <= n PROVE f[k + 1] = g[k + 1]
      OBVIOUS
    <2>1. k + 1 \in 1..n /\ (k + 1) - 1 = k /\ f[k] = g[k]
      BY <1>2
    <2> QED
      BY <2>1 DEF RunsThrough
  <1> HIDE DEF S
  <1>3. n \in S
    BY <1>1, <1>2, SetInduction
  <1> QED
    BY <1>3 DEF S

-----------------------------------------------------------------------------
(* The invariant.                                                          *)

\* What an update writes fits an item.
CallTyped ==
  call # None => /\ call.op = "nid" => call.arg \in Nids
                 /\ call.op # "nid" => call.arg \in {0, 1}

\* What a read delivered is an address that was reported.
Entry == [addr : Addrs, refs : 0..(PayloadMod - 1), nid : Nids \cup {NoNid}]

GotTyped ==
  phase \in {"locate", "report", "normalize", "drift"} => got = EndOfSequence \/ got \in Entry

\* The clusters fill the buffers from front to back, the last one up to buf_used_count.
\* Without any there may be a buffer from a ClusterFails().
Packed ==
  /\ ItemsInBuffers
  /\ addr_clusters = <<>> => IsBufferFull \/ buf_pool # 0
  /\ addr_clusters # <<>> =>
       LET last == addr_clusters[Len(addr_clusters)]
       IN  last.buf = buf_pool /\ last.off + Len(last.deltas) = buf_used_count

\* s[i] is the distance of item i from the start of its cluster: the recursive sum of
\* ItemAddr() as a witness instead of a definition.
PartialSums(s, deltas) ==
  /\ s \in [0..Len(deltas) -> Nat]
  /\ s[0] = 0
  /\ \A i \in DOMAIN deltas : s[i] = s[i - 1] + deltas[i].delta

Sums(f) ==
  /\ DOMAIN f = Clusters
  /\ \A c \in Clusters :
       /\ PartialSums(f[c], addr_clusters[c].deltas)
       /\ \A i \in Items(c) : addr_clusters[c].start + f[c][i] * PageSize \in Addrs

\* An iterator carries the sum of the items before its own.
Good(it, f) ==
  /\ it \in IterType /\ InBounds(it)
  /\ it.cluster <= it.end => it.sum = f[it.cluster][it.index - 1]

\* While addresses are appended, last_cluster_end is the last of them.
Appending == phase = "walk" /\ nr_walks = 1 /\ addr_clusters # <<>>

EndsAt(f, a) ==
  LET n == Len(addr_clusters)
  IN  addr_clusters[n].start + f[n][Len(addr_clusters[n].deltas)] * PageSize = a

Summed ==
  \E f : /\ Sums(f) /\ Good(find_iter, f) /\ Good(walk_iter, f)
         /\ Appending => EndsAt(f, last_cluster_end)

IInv ==
  /\ TypeOK /\ CallTyped /\ GotTyped /\ Packed /\ Summed
  /\ nr_walks = 0 => addr_clusters = <<>> /\ phase # "walk"

-----------------------------------------------------------------------------
(* Clusters and iterators.                                                 *)

\* What a cluster is made of.
LEMMA ClusterFacts ==
  ASSUME addr_clusters \in Seq(ClusterType), NEW c \in Clusters
  PROVE  /\ addr_clusters[c] \in ClusterType
         /\ addr_clusters[c].start \in Addrs /\ addr_clusters[c].start \in Nat
         /\ addr_clusters[c].deltas \in Seq(ItemType)
         /\ Items(c) = 1 .. Len(addr_clusters[c].deltas)
         /\ Len(addr_clusters[c].deltas) \in Nat
         /\ \A i \in Items(c) : /\ addr_clusters[c].deltas[i] \in ItemType
                                /\ addr_clusters[c].deltas[i].delta \in Nat
  <1>1. addr_clusters[c] \in ClusterType
    BY DEF Clusters
  <1>2. addr_clusters[c].start \in Addrs /\ addr_clusters[c].deltas \in Seq(ItemType)
    BY <1>1 DEF ClusterType
  <1>3. addr_clusters[c].start \in Nat
    BY <1>2, ValuesAssumption
  <1>4. Items(c) = 1 .. Len(addr_clusters[c].deltas) /\ Len(addr_clusters[c].deltas) \in Nat
    BY <1>2 DEF Items
  <1>5. \A i \in Items(c) : addr_clusters[c].deltas[i] \in ItemType
    BY <1>2 DEF Items
  <1>6. \A i \in Items(c) : addr_clusters[c].deltas[i].delta \in Nat
    BY <1>5, SizesAssumption DEF ItemType
  <1> QED
    BY <1>1, <1>2, <1>3, <1>4, <1>5, <1>6

\* An iterator that is not exhausted stands on an item, and do_walk() delivers its address.
LEMMA OnItem ==
  ASSUME addr_clusters \in Seq(ClusterType), NEW f, Sums(f), NEW it, Good(it, f), ~AtEnd(it)
  PROVE  /\ it.cluster \in Clusters /\ it.cluster <= it.end /\ it.index \in Items(it.cluster)
         /\ Item(it) \in ItemType /\ Item(it).delta \in Nat
         /\ it.sum + Item(it).delta = f[it.cluster][it.index]
         /\ AddrAt(it) \in Addrs
  <1>1. /\ it.cluster \in Nat \ {0} /\ it.end \in Nat /\ it.index \in Nat \ {0} /\ it.sum \in Nat
        /\ it.cluster <= it.end + 1 /\ it.cluster # it.end + 1 /\ it.end <= Len(addr_clusters)
    BY DEF Good, IterType, InBounds, AtEnd
  <1>2. it.cluster <= it.end /\ it.cluster \in Clusters
    <2>1. Len(addr_clusters) \in Nat /\ Clusters = 1 .. Len(addr_clusters)
      BY DEF Clusters
    <2> QED
      BY <1>1, <2>1
  <1>3. it.index \in Items(it.cluster) /\ it.sum = f[it.cluster][it.index - 1]
    BY <1>2 DEF Good, InBounds
  <1>4. Item(it) \in ItemType /\ Item(it).delta \in Nat
    BY <1>2, <1>3, ClusterFacts DEF Item
  <1>5. f[it.cluster][it.index] = f[it.cluster][it.index - 1] + Item(it).delta
    BY <1>2, <1>3 DEF Sums, PartialSums, Items, Item
  <1>6. addr_clusters[it.cluster].start + f[it.cluster][it.index] * PageSize \in Addrs
    BY <1>2, <1>3 DEF Sums
  <1> QED
    BY <1>2, <1>3, <1>4, <1>5, <1>6 DEF AddrAt

\* do_walk_move_next() leads to the next item, or exhausts the iterator.
LEMMA MoveNextGood ==
  ASSUME addr_clusters \in Seq(ClusterType), ItemsInBuffers, NEW f, Sums(f),
         NEW it, Good(it, f), ~AtEnd(it)
  PROVE  Good(MoveNext(it), f)
  <1>1. /\ it.cluster \in Clusters /\ it.cluster <= it.end /\ it.index \in Items(it.cluster)
        /\ Item(it).delta \in Nat /\ it.sum + Item(it).delta = f[it.cluster][it.index]
    BY OnItem
  <1>2. /\ it = [cluster |-> it.cluster, end |-> it.end, sum |-> it.sum, index |-> it.index]
        /\ it.cluster \in Nat \ {0} /\ it.end \in Nat /\ it.index \in Nat \ {0} /\ it.sum \in Nat
        /\ it.end <= Len(addr_clusters)
    BY DEF Good, IterType, InBounds
  <1>3. /\ Items(it.cluster) = 1 .. Len(addr_clusters[it.cluster].deltas)
        /\ Len(addr_clusters[it.cluster].deltas) \in Nat
    BY <1>1, ClusterFacts
  <1>4. CASE it.index + 1 > Len(addr_clusters[it.cluster].deltas)
    <2>1. MoveNext(it) = [cluster |-> it.cluster + 1, end |-> it.end, sum |-> 0, index |-> 1]
      BY <1>2, <1>4 DEF MoveNext
    <2>2. ASSUME it.cluster + 1 <= it.end
          PROVE  1 \in Items(it.cluster + 1) /\ f[it.cluster + 1][0] = 0
      <3>1. it.cluster + 1 \in Clusters
        <4>1. Len(addr_clusters) \in Nat /\ Clusters = 1 .. Len(addr_clusters)
          BY DEF Clusters
        <4> QED
          BY <1>2, <2>2, <4>1
      <3>2. addr_clusters[it.cluster + 1].deltas # <<>>
        BY <3>1 DEF ItemsInBuffers
      <3>3. addr_clusters[it.cluster + 1].deltas \in Seq(ItemType)
        BY <3>1, ClusterFacts
      <3>4. 1 \in Items(it.cluster + 1)
        BY <3>2, <3>3 DEF Items
      <3> QED
        BY <3>1, <3>4 DEF Sums, PartialSums
    <2> QED
      BY <1>1, <1>2, <2>1, <2>2 DEF Good, IterType, InBounds
  <1>5. CASE ~(it.index + 1 > Len(addr_clusters[it.cluster].deltas))
    <2>1. MoveNext(it) = [cluster |-> it.cluster, end |-> it.end,
                          sum |-> it.sum + Item(it).delta, index |-> it.index + 1]
      BY <1>2, <1>5 DEF MoveNext
    <2>2. it.index + 1 \in Items(it.cluster) /\ (it.index + 1) - 1 = it.index
      BY <1>2, <1>3, <1>5
    <2> QED
      BY <1>1, <1>2, <2>1, <2>2 DEF Good, IterType, InBounds
  <1> QED
    BY <1>4, <1>5

\* An iterator that is reset stands on the first item of its cluster, or is exhausted.
LEMMA ResetGood ==
  ASSUME addr_clusters \in Seq(ClusterType), ItemsInBuffers, NEW f, Sums(f),
         NEW c \in Nat \ {0}, c \in Clusters \/ (c = 1 /\ addr_clusters = <<>>)
  PROVE  Good(ResetIterator(addr_clusters, c), f)
  <1>1. Len(addr_clusters) \in Nat /\ Clusters = 1 .. Len(addr_clusters)
    BY DEF Clusters
  <1>2. CASE c \in Clusters
    <2>1. addr_clusters[c].deltas # <<>> /\ addr_clusters[c].deltas \in Seq(ItemType)
      BY <1>2, ClusterFacts DEF ItemsInBuffers
    <2>2. 1 \in Items(c)
      BY <2>1 DEF Items
    <2>3. f[c][0] = 0
      BY <1>2 DEF Sums, PartialSums
    <2> QED
      BY <1>1, <1>2, <2>2, <2>3 DEF Good, IterType, InBounds, ResetIterator
  <1>3. CASE c = 1 /\ addr_clusters = <<>>
    BY <1>1, <1>3 DEF Good, IterType, InBounds, ResetIterator
  <1> QED
    BY <1>2, <1>3

\* get_first() and get_next() leave the read iterator in bounds and deliver an address
\* that was reported.
LEMMA GetGood ==
  ASSUME addr_clusters \in Seq(ClusterType), ItemsInBuffers, NEW f, Sums(f),
         Good(walk_iter, f), GetFirst \/ GetNext
  PROVE  Good(walk_iter', f) /\ (got' = EndOfSequence \/ got' \in Entry)
  <1>1. ASSUME NEW it, Good(it, f), DoGet(it)
        PROVE  Good(walk_iter', f) /\ (got' = EndOfSequence \/ got' \in Entry)
    <2>1. CASE AtEnd(it)
      BY <1>1, <2>1 DEF DoGet
    <2>2. CASE ~AtEnd(it)
      <3>1. /\ got' = [addr |-> AddrAt(it), refs |-> Item(it).payload, nid |-> Item(it).nid]
            /\ walk_iter' = MoveNext(it)
        BY <1>1, <2>2 DEF DoGet
      <3>2. AddrAt(it) \in Addrs /\ Item(it) \in ItemType
        BY <1>1, <2>2, OnItem
      <3>3. got' \in Entry
        BY <3>1, <3>2 DEF Entry, ItemType
      <3> QED
        BY <1>1, <2>2, <3>1, <3>3, MoveNextGood
    <2> QED
      BY <2>1, <2>2
  <1>2. CASE GetNext
    BY <1>1, <1>2 DEF GetNext
  <1>3. CASE GetFirst
    <2>1. CASE addr_clusters = <<>>
      BY <1>3, <2>1 DEF GetFirst
    <2>2. CASE addr_clusters # <<>>
      <3>1. 1 \in Clusters
        BY <2>2 DEF Clusters
      <3>2. Good(ResetIterator(addr_clusters, 1), f)
        BY <3>1, ResetGood
      <3> QED
        BY <1>1, <1>3, <2>2, <3>2 DEF GetFirst
    <2> QED
      BY <2>1, <2>2
  <1> QED
    BY <1>2, <1>3

-----------------------------------------------------------------------------
(* Steps that leave the clusters alone.                                    *)

\* The clusters stay, and each iterator stays, or goes where it may.
LEMMA SummedFrame ==
  ASSUME addr_clusters \in Seq(ClusterType), ItemsInBuffers, Summed, UNCHANGED addr_clusters,
         \/ UNCHANGED find_iter
         \/ find_iter' = ResetIterator(addr_clusters, 1)
         \/ ~AtEnd(find_iter) /\ find_iter' = MoveNext(find_iter),
         UNCHANGED walk_iter \/ GetFirst \/ GetNext,
         Appending' => Appending /\ UNCHANGED last_cluster_end
  PROVE  /\ Summed' /\ find_iter' \in IterType /\ walk_iter' \in IterType
         /\ IteratorsInBounds'
         /\ GetFirst \/ GetNext => got' = EndOfSequence \/ got' \in Entry
  <1>1. PICK f : /\ Sums(f) /\ Good(find_iter, f) /\ Good(walk_iter, f)
                 /\ Appending => EndsAt(f, last_cluster_end)
    BY DEF Summed
  <1>2. Good(find_iter', f)
    <2>1. 1 \in Clusters \/ addr_clusters = <<>>
      BY DEF Clusters
    <2> QED
      BY <1>1, <2>1, ResetGood, MoveNextGood
  <1>3. Good(walk_iter', f) /\ (GetFirst \/ GetNext => got' = EndOfSequence \/ got' \in Entry)
    BY <1>1, GetGood
  <1>4. Sums(f)' /\ Good(find_iter, f)' /\ Good(walk_iter, f)'
    BY <1>1, <1>2, <1>3 DEF Sums, Good, InBounds, Clusters, Items
  <1>5. Appending' => EndsAt(f, last_cluster_end)'
    BY <1>1 DEF EndsAt
  <1>6. Summed'
    BY <1>4, <1>5 DEF Summed
  <1> QED
    BY <1>3, <1>4, <1>6 DEF Good, IteratorsInBounds

\* The buffers stay as they are.
LEMMA PackedFrame ==
  ASSUME Packed, UNCHANGED <<addr_clusters, buf_pool, buf_used_count>>
  PROVE  Packed'
  BY DEF Packed, ItemsInBuffers, IsBufferFull, Clusters

-----------------------------------------------------------------------------
(* The steps of an update.                                                 *)

\* do_walk_update_payload() and do_walk_update_nid() write what fits an item, and keep
\* its distance.
LEMMA WrittenType ==
  ASSUME call # None, CallTyped, call.op \in {"inc", "set", "nid"}, NEW item \in ItemType
  PROVE  Written(item) \in ItemType /\ Written(item).delta = item.delta
  <1>1. /\ item = [delta |-> item.delta, payload |-> item.payload,
                   nid |-> item.nid, location |-> item.location]
        /\ item.delta \in 0..MaxDelta /\ item.payload \in 0..(PayloadMod - 1)
        /\ item.nid \in Nids \cup {NoNid} /\ item.location \in Locations
    BY DEF ItemType
  <1>2. CASE call.op = "inc"
    <2>1. Written(item) = [item EXCEPT !.payload = (item.payload + 1) % PayloadMod]
      BY <1>2 DEF Written
    <2>2. (item.payload + 1) % PayloadMod \in 0..(PayloadMod - 1)
      BY <1>1, SizesAssumption
    <2> QED
      BY <1>1, <2>1, <2>2 DEF ItemType
  <1>3. CASE call.op = "set"
    <2>1. Written(item) = [item EXCEPT !.payload = call.arg]
      BY <1>3 DEF Written
    <2>2. call.arg \in 0..(PayloadMod - 1)
      BY <1>3, SizesAssumption DEF CallTyped
    <2> QED
      BY <1>1, <2>1, <2>2 DEF ItemType
  <1>4. CASE call.op = "nid"
    <2>1. Written(item) = [item EXCEPT !.nid = call.arg, !.location = Location(call.arg)]
      BY <1>4 DEF Written
    <2>2. call.arg \in Nids /\ Location(call.arg) \in Locations
      BY <1>4 DEF CallTyped, Location, Locations
    <2> QED
      BY <1>1, <2>1, <2>2 DEF ItemType
  <1> QED
    BY <1>2, <1>3, <1>4

\* Writing an item in place moves no cluster and no item.
LEMMA WriteInPlace ==
  ASSUME addr_clusters \in Seq(ClusterType), Packed, Summed, Appending' => Appending,
         UNCHANGED <<buf_pool, buf_used_count, last_cluster_end, find_iter, walk_iter>>,
         NEW c \in Clusters, NEW i \in Items(c), NEW item \in ItemType,
         item.delta = addr_clusters[c].deltas[i].delta,
         addr_clusters' = [addr_clusters EXCEPT ![c].deltas[i] = item]
  PROVE  addr_clusters' \in Seq(ClusterType) /\ Packed' /\ Summed'
  <1>1. /\ addr_clusters[c].deltas \in Seq(ItemType)
        /\ addr_clusters[c] \in ClusterType
    BY ClusterFacts
  <1> DEFINE deltas == [addr_clusters[c].deltas EXCEPT ![i] = item]
             cluster == [addr_clusters[c] EXCEPT !.deltas = deltas]
  <1>2. /\ deltas \in Seq(ItemType) /\ DOMAIN deltas = Items(c)
        /\ Len(deltas) = Len(addr_clusters[c].deltas)
        /\ \A j \in Items(c) : deltas[j].delta = addr_clusters[c].deltas[j].delta
    BY <1>1 DEF Items
  <1>3. /\ cluster \in ClusterType /\ cluster.deltas = deltas
        /\ cluster.start = addr_clusters[c].start
        /\ cluster.buf = addr_clusters[c].buf /\ cluster.off = addr_clusters[c].off
    BY <1>1, <1>2 DEF ClusterType
  <1>4. addr_clusters' = [addr_clusters EXCEPT ![c] = cluster]
    OBVIOUS
  <1> HIDE DEF deltas, cluster
  <1>5. addr_clusters' \in Seq(ClusterType) /\ Clusters' = Clusters
        /\ Len(addr_clusters') = Len(addr_clusters)
    BY <1>3, <1>4 DEF Clusters
  <1>6. \A d \in Clusters :
          /\ addr_clusters'[d].start = addr_clusters[d].start
          /\ addr_clusters'[d].buf = addr_clusters[d].buf
          /\ addr_clusters'[d].off = addr_clusters[d].off
          /\ Len(addr_clusters'[d].deltas) = Len(addr_clusters[d].deltas)
          /\ DOMAIN addr_clusters'[d].deltas = Items(d)
          /\ \A j \in Items(d) : addr_clusters'[d].deltas[j].delta = addr_clusters[d].deltas[j].delta
    <2>1. ASSUME NEW d \in Clusters, d # c PROVE addr_clusters'[d] = addr_clusters[d]
      BY <1>4, <2>1 DEF Clusters
    <2>2. addr_clusters'[c] = cluster
      BY <1>4 DEF Clusters
    <2> QED
      BY <1>2, <1>3, <2>1, <2>2 DEF Items
  <1>7. \A d \in Clusters : addr_clusters[d].deltas # <<>> => addr_clusters'[d].deltas # <<>>
    <2>1. \A d \in Clusters : addr_clusters[d].deltas # <<>> => Items(d) # {}
      BY ClusterFacts
    <2> QED
      BY <1>6, <2>1
  <1>8. ItemsInBuffers'
    <2>1. \A d \in Clusters :
            LET k == addr_clusters'[d]
            IN  k.deltas # <<>> /\ k.buf <= buf_pool /\ k.off + Len(k.deltas) <= BufItems
      BY <1>6, <1>7 DEF Packed, ItemsInBuffers
    <2>2. \A d, e \in Clusters : d < e =>
            \/ addr_clusters'[d].buf < addr_clusters'[e].buf
            \/ /\ addr_clusters'[d].buf = addr_clusters'[e].buf
               /\ addr_clusters'[d].off + Len(addr_clusters'[d].deltas) <= addr_clusters'[e].off
      <3>1. SUFFICES ASSUME NEW d \in Clusters, NEW e \in Clusters, d < e
                     PROVE  \/ addr_clusters[d].buf < addr_clusters[e].buf
                            \/ /\ addr_clusters[d].buf = addr_clusters[e].buf
                               /\ addr_clusters[d].off + Len(addr_clusters[d].deltas)
                                    <= addr_clusters[e].off
        BY <1>6
      <3> QED
        BY <3>1 DEF Packed, ItemsInBuffers
    <2> QED
      BY <1>5, <2>1, <2>2 DEF ItemsInBuffers
  <1>9. Packed'
    <2>1. addr_clusters # <<>> => Len(addr_clusters) \in Clusters
      BY DEF Clusters
    <2>2. addr_clusters' # <<>> /\ addr_clusters # <<>>
      BY <1>5 DEF Clusters
    <2> QED
      BY <1>5, <1>6, <1>8, <2>1, <2>2 DEF Packed
  <1>10. PICK f : /\ Sums(f) /\ Good(find_iter, f) /\ Good(walk_iter, f)
                  /\ Appending => EndsAt(f, last_cluster_end)
    BY DEF Summed
  <1>11. \A d \in Clusters : Items(d)' = Items(d)
    BY <1>6 DEF Items
  <1>12. Sums(f)'
    <2>1. \A d \in Clusters : PartialSums(f[d], addr_clusters[d].deltas)'
      BY <1>6, <1>10 DEF Sums, PartialSums, Items
    <2> QED
      BY <1>5, <1>6, <1>10, <1>11, <2>1 DEF Sums
  <1>13. ASSUME NEW it, Good(it, f) PROVE /\ it.end <= Len(addr_clusters)'
                                          /\ it.cluster <= it.end => it.index \in Items(it.cluster)'
    <2>1. it.cluster <= it.end => it.cluster \in Clusters
      BY <1>13 DEF Good, IterType, InBounds, Clusters
    <2> QED
      BY <1>5, <1>11, <1>13, <2>1 DEF Good, InBounds
  <1>14. Good(find_iter, f)' /\ Good(walk_iter, f)'
    BY <1>10, <1>13 DEF Good, InBounds
  <1>15. Appending' => EndsAt(f, last_cluster_end)'
    <2>1. Appending => Len(addr_clusters) \in Clusters
      BY DEF Appending, Clusters
    <2> QED
      BY <1>5, <1>6, <1>10, <2>1 DEF EndsAt
  <1>16. Summed'
    BY <1>12, <1>14, <1>15 DEF Summed
  <1> QED
    BY <1>5, <1>9, <1>16

-----------------------------------------------------------------------------
(* The first walk.                                                         *)

\* A distance without rest is stored without loss.
LEMMA WholePages ==
  ASSUME NEW d \in Nat, d % PageSize = 0
  PROVE  d \div PageSize \in Nat /\ (d \div PageSize) * PageSize = d
  BY SizesAssumption

\* An iterator keeps its place when items are added behind the ones there are.
LEMMA GrownGood ==
  ASSUME addr_clusters \in Seq(ClusterType), NEW f, NEW g, NEW it, Good(it, f),
         Len(addr_clusters) <= Len(addr_clusters'), Len(addr_clusters') \in Nat,
         \A c \in Clusters : /\ Items(c) \subseteq Items(c)'
                             /\ \A j \in 0..Len(addr_clusters[c].deltas) : g[c][j] = f[c][j]
  PROVE  /\ it \in IterType
         /\ it.end <= Len(addr_clusters') /\ it.cluster <= it.end + 1
         /\ it.cluster <= it.end => /\ it.index \in Items(it.cluster)'
                                    /\ it.sum = g[it.cluster][it.index - 1]
  <1>1. /\ it.cluster \in Nat \ {0} /\ it.end \in Nat /\ it.index \in Nat \ {0}
        /\ it.end <= Len(addr_clusters) /\ it.cluster <= it.end + 1
        /\ it \in IterType
    BY DEF Good, IterType, InBounds
  <1>2. Len(addr_clusters) \in Nat /\ Clusters = 1 .. Len(addr_clusters)
    BY DEF Clusters
  <1>3. ASSUME it.cluster <= it.end
        PROVE  it.index \in Items(it.cluster)' /\ it.sum = g[it.cluster][it.index - 1]
    <2>1. it.cluster \in Clusters
      BY <1>1, <1>2, <1>3
    <2>2. it.index \in Items(it.cluster) /\ it.sum = f[it.cluster][it.index - 1]
      BY <1>3 DEF Good, InBounds
    <2>3. it.index - 1 \in 0..Len(addr_clusters[it.cluster].deltas)
      <3>1. /\ Items(it.cluster) = 1 .. Len(addr_clusters[it.cluster].deltas)
            /\ Len(addr_clusters[it.cluster].deltas) \in Nat
        BY <2>1, ClusterFacts
      <3> QED
        BY <2>2, <3>1
    <2> QED
      BY <2>1, <2>2, <2>3
  <1> QED
    BY <1>1, <1>2, <1>3

\* save_into_cluster(): an item is added to the last cluster, in the last buffer.
LEMMA MergeKeeps ==
  ASSUME TypeOK, Packed, Summed, NEW a \in Addrs, NEW n \in {0, 1}, Appending,
         MergeIntoCluster(a, n), UNCHANGED walk_iter
  PROVE  /\ addr_clusters' \in Seq(ClusterType) /\ buf_used_count' \in 0..BufItems
         /\ Packed' /\ Summed'
  <1> DEFINE last == Len(addr_clusters)
             d == (a - last_cluster_end) \div PageSize
             old == addr_clusters[last].deltas
             deltas == Append(old, NewItem(d, n))
             cluster == [addr_clusters[last] EXCEPT !.deltas = deltas]
  <1>0. /\ addr_clusters \in Seq(ClusterType) /\ last_cluster_end \in Addrs \cup {0}
        /\ buf_used_count \in 0..BufItems /\ addr_clusters # <<>>
        /\ last_cluster_end \in Nat /\ a \in Nat
    BY ValuesAssumption DEF TypeOK, Appending
  <1>1. last \in Nat \ {0} /\ Clusters = 1 .. last /\ last \in Clusters
    BY <1>0 DEF Clusters
  <1>2. /\ a > last_cluster_end /\ d <= MaxDelta /\ buf_used_count # BufItems
        /\ (a - last_cluster_end) % PageSize = 0
        /\ addr_clusters' = [addr_clusters EXCEPT ![last] = cluster]
        /\ buf_used_count' = buf_used_count + 1 /\ last_cluster_end' = a
        /\ UNCHANGED <<buf_pool, find_iter>>
    BY <1>0 DEF MergeIntoCluster, Appendable, CanMergeIntoCluster, IsBufferFull, SaveIntoCluster
  <1>3. d \in 0..MaxDelta /\ last_cluster_end + d * PageSize = a
    <2>1. a - last_cluster_end \in Nat
      BY <1>0, <1>2
    <2>2. d \in Nat /\ d * PageSize = a - last_cluster_end
      BY <1>2, <2>1, WholePages
    <2> QED
      BY <1>0, <1>2, <2>2, SizesAssumption
  <1>4. NewItem(d, n) \in ItemType /\ NewItem(d, n).delta = d
    BY <1>3, SizesAssumption DEF NewItem, ItemType, Locations
  <1>5. /\ addr_clusters[last] \in ClusterType /\ old \in Seq(ItemType)
        /\ Items(last) = 1 .. Len(old) /\ Len(old) \in Nat
        /\ addr_clusters[last].start \in Nat
    BY <1>0, <1>1, ClusterFacts
  <1> HIDE DEF d
  <1>6. /\ deltas \in Seq(ItemType) /\ Len(deltas) = Len(old) + 1
        /\ DOMAIN deltas = 1 .. Len(old) + 1
        /\ \A j \in 1 .. Len(old) : deltas[j] = old[j]
        /\ deltas[Len(old) + 1] = NewItem(d, n)
    BY <1>4, <1>5
  <1> HIDE DEF deltas, old
  <1>7. /\ cluster \in ClusterType /\ cluster.deltas = deltas
        /\ cluster.start = addr_clusters[last].start
        /\ cluster.buf = addr_clusters[last].buf /\ cluster.off = addr_clusters[last].off
    BY <1>5, <1>6 DEF ClusterType
  <1> HIDE DEF cluster
  <1>8. /\ addr_clusters' \in Seq(ClusterType) /\ Len(addr_clusters') = last /\ Clusters' = Clusters
        /\ addr_clusters'[last] = cluster
        /\ \A c \in Clusters \ {last} : addr_clusters'[c] = addr_clusters[c]
    BY <1>0, <1>1, <1>2, <1>7 DEF Clusters
  <1>9. buf_used_count' \in 0..BufItems
    BY <1>0, <1>2, SizesAssumption
  <1>10. Packed'
    <2>1. /\ cluster.buf = buf_pool /\ cluster.off + Len(cluster.deltas) = buf_used_count'
      <3>1. /\ addr_clusters[last].buf = buf_pool
            /\ addr_clusters[last].off + Len(old) = buf_used_count
        BY <1>0 DEF Packed, old
      <3>2. addr_clusters[last].off \in Nat
        BY <1>5 DEF ClusterType
      <3> QED
        <4>1. cluster.off + Len(cluster.deltas) = addr_clusters[last].off + (Len(old) + 1)
          BY <1>6, <1>7
        <4>2. addr_clusters[last].off + (Len(old) + 1) = (addr_clusters[last].off + Len(old)) + 1
          BY <1>5, <3>2
        <4> QED
          BY <1>2, <1>7, <3>1, <4>1, <4>2
    <2>2. cluster.deltas # <<>>
      BY <1>5, <1>6, <1>7
    <2>3. cluster.off + Len(cluster.deltas) <= BufItems
      BY <1>9, <2>1
    <2>4. \A c \in Clusters' :
            LET k == addr_clusters'[c]
            IN  k.deltas # <<>> /\ k.buf <= buf_pool' /\ k.off + Len(k.deltas) <= BufItems
      <3>1. \A c \in Clusters \ {last} :
              LET k == addr_clusters'[c]
              IN  k.deltas # <<>> /\ k.buf <= buf_pool' /\ k.off + Len(k.deltas) <= BufItems
        BY <1>2, <1>8 DEF Packed, ItemsInBuffers
      <3>2. cluster.buf <= buf_pool'
        BY <1>2, <2>1 DEF TypeOK
      <3> QED
        BY <1>8, <2>2, <2>3, <3>1, <3>2
    <2>5. \A c, e \in Clusters' : c < e =>
            \/ addr_clusters'[c].buf < addr_clusters'[e].buf
            \/ /\ addr_clusters'[c].buf = addr_clusters'[e].buf
               /\ addr_clusters'[c].off + Len(addr_clusters'[c].deltas) <= addr_clusters'[e].off
      <3>1. SUFFICES ASSUME NEW c \in Clusters, NEW e \in Clusters, c < e
                     PROVE  \/ addr_clusters'[c].buf < addr_clusters'[e].buf
                            \/ /\ addr_clusters'[c].buf = addr_clusters'[e].buf
                               /\ addr_clusters'[c].off + Len(addr_clusters'[c].deltas)
                                    <= addr_clusters'[e].off
        BY <1>8
      <3>2. c # last
        BY <1>1, <3>1
      <3>3. /\ addr_clusters'[c] = addr_clusters[c]
            /\ addr_clusters'[e].buf = addr_clusters[e].buf
            /\ addr_clusters'[e].off = addr_clusters[e].off
        BY <1>7, <1>8, <3>2
      <3> QED
        BY <3>1, <3>3 DEF Packed, ItemsInBuffers
    <2>6. ItemsInBuffers'
      BY <2>4, <2>5 DEF ItemsInBuffers
    <2>7. addr_clusters' # <<>>
      BY <1>1, <1>8 DEF Clusters
    <2> QED
      BY <1>2, <1>8, <2>1, <2>6, <2>7 DEF Packed
  <1>11. PICK f : /\ Sums(f) /\ Good(find_iter, f) /\ Good(walk_iter, f)
                  /\ EndsAt(f, last_cluster_end)
    BY DEF Summed
  <1> DEFINE sums == [j \in 0..(Len(old) + 1) |->
                        IF j <= Len(old) THEN f[last][j] ELSE f[last][Len(old)] + d]
             g == [c \in Clusters |-> IF c = last THEN sums ELSE f[c]]
  <1>12. /\ f[last] \in [0..Len(old) -> Nat] /\ f[last][0] = 0
         /\ \A i \in 1..Len(old) : /\ f[last][i] = f[last][i - 1] + old[i].delta
                                   /\ addr_clusters[last].start + f[last][i] * PageSize \in Addrs
         /\ addr_clusters[last].start + f[last][Len(old)] * PageSize = last_cluster_end
    BY <1>1, <1>5, <1>11 DEF Sums, PartialSums, EndsAt, old
  <1>13. /\ sums \in [0..(Len(old) + 1) -> Nat] /\ sums[0] = 0
         /\ \A j \in 0..Len(old) : sums[j] = f[last][j]
         /\ sums[Len(old) + 1] = f[last][Len(old)] + d
    <2>1. f[last][Len(old)] \in Nat /\ d \in Nat
      BY <1>3, <1>5, <1>12
    <2>2. f[last][Len(old)] + d \in Nat
      BY <2>1
    <2>3. \A j \in 0..(Len(old) + 1) : j <= Len(old) => f[last][j] \in Nat
      <3>1. PICK part, len : part = f[last] /\ len = Len(old)
        OBVIOUS
      <3>2. len \in Nat /\ part \in [0..len -> Nat]
        BY <1>5, <1>12, <3>1, Zenon
      <3>3. \A j \in 0..(len + 1) : j <= len => part[j] \in Nat
        BY <3>2
      <3> QED
        BY <3>1, <3>3, Zenon
    <2>4. sums \in [0..(Len(old) + 1) -> Nat]
      BY <2>2, <2>3
    <2>5. /\ \A j \in 0..Len(old) : j \in 0..(Len(old) + 1) /\ j <= Len(old)
          /\ 0 \in 0..Len(old)
          /\ Len(old) + 1 \in 0..(Len(old) + 1) /\ ~(Len(old) + 1 <= Len(old))
      BY <1>5
    <2>6. \A j \in 0..Len(old) : sums[j] = f[last][j]
      BY <2>5
    <2>7. sums[Len(old) + 1] = f[last][Len(old)] + d
      BY <2>5
    <2> HIDE DEF sums
    <2> QED
      BY <1>12, <2>4, <2>5, <2>6, <2>7
  <1>14. addr_clusters[last].start + sums[Len(old) + 1] * PageSize = a
    <2>1. f[last][Len(old)] \in Nat /\ d \in Nat /\ PageSize \in Nat
      BY <1>3, <1>5, <1>12, SizesAssumption
    <2>2. (f[last][Len(old)] + d) * PageSize = f[last][Len(old)] * PageSize + d * PageSize
      BY <2>1
    <2>3. f[last][Len(old)] * PageSize \in Nat /\ d * PageSize \in Nat
      BY <2>1
    <2> QED
      BY <1>0, <1>3, <1>5, <1>12, <1>13, <2>2, <2>3
  <1>15. \A i \in 1..(Len(old) + 1) :
            /\ sums[i] = sums[i - 1] + deltas[i].delta
            /\ addr_clusters[last].start + sums[i] * PageSize \in Addrs
    <2>1. SUFFICES ASSUME NEW i \in 1..(Len(old) + 1)
                   PROVE  /\ sums[i] = sums[i - 1] + deltas[i].delta
                          /\ addr_clusters[last].start + sums[i] * PageSize \in Addrs
      OBVIOUS
    <2>2. CASE i \in 1..Len(old)
      <3>1. i - 1 \in 0..Len(old) /\ i \in 0..Len(old)
        BY <1>5, <2>2
      <3> QED
        BY <1>6, <1>12, <1>13, <2>2, <3>1
    <2>3. CASE i = Len(old) + 1
      <3>1. i - 1 = Len(old) /\ Len(old) \in 0..Len(old)
        BY <1>5, <2>3
      <3> QED
        BY <1>4, <1>6, <1>13, <1>14, <2>3, <3>1
    <2> QED
      BY <1>5, <2>2, <2>3
  <1> HIDE DEF sums
  <1>16. PICK h : DOMAIN h = Clusters /\ h[last] = sums /\ \A c \in Clusters \ {last} : h[c] = f[c]
    <2>1. DOMAIN g = Clusters /\ g[last] = sums /\ \A c \in Clusters \ {last} : g[c] = f[c]
      BY <1>1
    <2> QED
      BY <2>1
  <1> HIDE DEF g
  <1>17. Sums(h)'
    <2>1. PartialSums(sums, deltas)
      BY <1>6, <1>13, <1>15 DEF PartialSums
    <2>2. \A c \in Clusters \ {last} :
            /\ PartialSums(f[c], addr_clusters[c].deltas)
            /\ \A i \in Items(c) : addr_clusters[c].start + f[c][i] * PageSize \in Addrs
      BY <1>11 DEF Sums
    <2>3. SUFFICES ASSUME NEW c \in Clusters
                   PROVE  /\ PartialSums(h[c], addr_clusters'[c].deltas)
                          /\ \A i \in DOMAIN addr_clusters'[c].deltas :
                               addr_clusters'[c].start + h[c][i] * PageSize \in Addrs
      BY <1>8, <1>16 DEF Sums, PartialSums, Items
    <2>4. CASE c = last
      BY <1>6, <1>7, <1>8, <1>15, <1>16, <2>1, <2>4
    <2>5. CASE c # last
      BY <1>8, <1>16, <2>2, <2>5 DEF Items
    <2> QED
      BY <2>4, <2>5
  <1>18. Good(find_iter, h)' /\ Good(walk_iter, h)'
    <2>1. \A c \in Clusters : /\ Items(c) \subseteq Items(c)'
                              /\ \A j \in 0..Len(addr_clusters[c].deltas) : h[c][j] = f[c][j]
      <3>1. SUFFICES ASSUME NEW c \in Clusters
                     PROVE  /\ Items(c) \subseteq DOMAIN addr_clusters'[c].deltas
                            /\ \A j \in 0..Len(addr_clusters[c].deltas) : h[c][j] = f[c][j]
        BY DEF Items
      <3>2. CASE c = last
        BY <1>5, <1>6, <1>7, <1>8, <1>13, <1>16, <3>2 DEF old
      <3>3. CASE c # last
        BY <1>8, <1>16, <3>3 DEF Items
      <3> QED
        BY <3>2, <3>3
    <2>2. Len(addr_clusters) <= Len(addr_clusters') /\ Len(addr_clusters') \in Nat
      BY <1>1, <1>8
    <2>3. ASSUME NEW it, Good(it, f)
          PROVE
            /\ it \in IterType
            /\ it.end <= Len(addr_clusters') /\ it.cluster <= it.end + 1
            /\ it.cluster <= it.end => /\ it.index \in Items(it.cluster)'
                                       /\ it.sum = h[it.cluster][it.index - 1]
      BY <1>0, <2>1, <2>2, <2>3, GrownGood, SMTT(60)
    <2> QED
      BY <1>2, <1>11, <2>3 DEF Good, InBounds
  <1>19. EndsAt(h, last_cluster_end)'
    BY <1>2, <1>6, <1>7, <1>8, <1>14, <1>16 DEF EndsAt
  <1>20. Summed'
    BY <1>17, <1>18, <1>19 DEF Summed
  <1> QED
    BY <1>8, <1>9, <1>10, <1>20

\* create_cluster(): a cluster of one item, behind the used part of the last buffer or in
\* a new one.
LEMMA CreateKeeps ==
  ASSUME TypeOK, Packed, Summed, NEW a \in Addrs, NEW n \in {0, 1},
         CreateCluster(a, n), UNCHANGED walk_iter
  PROVE  /\ addr_clusters' \in Seq(ClusterType) /\ buf_used_count' \in 0..BufItems
         /\ buf_pool' \in Nat /\ find_iter' \in IterType
         /\ Packed' /\ Summed'
  <1> DEFINE len == Len(addr_clusters)
             off == IF IsBufferFull THEN 0 ELSE buf_used_count
             buf == IF IsBufferFull THEN buf_pool + 1 ELSE buf_pool
             new == [start |-> a, buf |-> buf, off |-> off, deltas |-> <<NewItem(0, n)>>]
  <1>0. /\ addr_clusters \in Seq(ClusterType)
        /\ buf_used_count \in 0..BufItems /\ buf_pool \in Nat
        /\ a \in Nat /\ walk_iter' = walk_iter
    BY ValuesAssumption DEF TypeOK
  <1>1. len \in Nat /\ Clusters = 1 .. len
    BY <1>0 DEF Clusters
  <1>2. /\ addr_clusters' = Append(addr_clusters, new)
        /\ buf_pool' = buf /\ buf_used_count' = off + 1 /\ last_cluster_end' = a
        /\ find_iter' = ResetIterator(addr_clusters', Len(addr_clusters'))
    BY DEF CreateCluster, SaveIntoCluster
  <1>3. NewItem(0, n) \in ItemType /\ NewItem(0, n).delta = 0
    BY SizesAssumption DEF NewItem, ItemType, Locations
  <1>4. /\ off \in Nat /\ off + 1 <= BufItems
        /\ buf \in Nat \ {0} /\ buf_pool <= buf
    <2>1. CASE IsBufferFull
      BY <1>0, <2>1, SizesAssumption
    <2>2. CASE ~IsBufferFull
      <3>1. buf_pool # 0
        <4>1. CASE addr_clusters = <<>>
          BY <2>2, <4>1 DEF Packed
        <4>2. CASE addr_clusters # <<>>
          <5>1. len \in Clusters /\ addr_clusters[len].buf = buf_pool
            BY <1>0, <1>1, <4>2 DEF Packed
          <5>2. addr_clusters[len].buf \in Nat \ {0}
            BY <1>0, <5>1, ClusterFacts DEF ClusterType
          <5> QED
            BY <5>1, <5>2
        <4> QED
          BY <4>1, <4>2
      <3> QED
        BY <1>0, <2>2, <3>1, SizesAssumption DEF IsBufferFull
    <2> QED
      BY <2>1, <2>2
  \* The clusters that were there end before the new one starts.
  <1>5. ASSUME NEW c \in Clusters
        PROVE  \/ addr_clusters[c].buf < buf
               \/ /\ addr_clusters[c].buf = buf
                  /\ addr_clusters[c].off + Len(addr_clusters[c].deltas) <= off
    <2>1. /\ addr_clusters[c].buf \in Nat /\ addr_clusters[c].off \in Nat
          /\ addr_clusters[c].buf <= buf_pool /\ Len(addr_clusters[c].deltas) \in Nat
      BY <1>0, ClusterFacts DEF ClusterType, Packed, ItemsInBuffers
    <2>2. CASE IsBufferFull
      BY <1>0, <2>1, <2>2
    <2>3. CASE ~IsBufferFull
      <3>1. /\ addr_clusters # <<>> /\ len \in Clusters /\ c <= len
            /\ addr_clusters[len].buf = buf_pool
            /\ addr_clusters[len].off + Len(addr_clusters[len].deltas) = buf_used_count
        BY <1>0, <1>1, <2>3 DEF Packed
      <3>2. addr_clusters[len].off \in Nat /\ Len(addr_clusters[len].deltas) \in Nat
        BY <1>0, <3>1, ClusterFacts DEF ClusterType
      <3>3. CASE c = len
        BY <1>0, <2>3, <3>1, <3>3
      <3>4. CASE c # len
        <4>1. c < len
          BY <1>1, <3>1, <3>4
        <4>2. \/ addr_clusters[c].buf < buf_pool
              \/ /\ addr_clusters[c].buf = buf_pool
                 /\ addr_clusters[c].off + Len(addr_clusters[c].deltas) <= addr_clusters[len].off
          BY <3>1, <4>1 DEF Packed, ItemsInBuffers
        <4>3. addr_clusters[len].off <= buf_used_count
          BY <3>1, <3>2
        <4> QED
          BY <1>0, <2>1, <2>3, <3>2, <4>2, <4>3
      <3> QED
        BY <3>3, <3>4
    <2> QED
      BY <2>2, <2>3
  <1> HIDE DEF off, buf
  <1>6. /\ new \in ClusterType /\ new.start = a /\ new.buf = buf /\ new.off = off
        /\ new.deltas = <<NewItem(0, n)>> /\ new.deltas # <<>> /\ Len(new.deltas) = 1
        /\ DOMAIN new.deltas = {1} /\ new.deltas[1].delta = 0
    <2>1. <<NewItem(0, n)>> \in Seq(ItemType)
      BY <1>3
    <2> QED
      BY <1>3, <1>4, <2>1 DEF ClusterType
  <1> HIDE DEF new
  <1>7. /\ addr_clusters' \in Seq(ClusterType) /\ Len(addr_clusters') = len + 1
        /\ Clusters' = 1 .. (len + 1) /\ addr_clusters'[len + 1] = new
        /\ \A c \in Clusters : addr_clusters'[c] = addr_clusters[c]
        /\ addr_clusters' # <<>>
    BY <1>0, <1>1, <1>2, <1>6 DEF Clusters
  <1>8. /\ Clusters' = Clusters \cup {len + 1} /\ len + 1 \notin Clusters
        /\ len + 1 \in Nat \ {0}
        /\ \A c, d \in Clusters' : c < d => c \in Clusters /\ (d \in Clusters \/ d = len + 1)
    BY <1>1, <1>7
  <1>9. buf_used_count' \in 0..BufItems /\ buf_pool' \in Nat
    BY <1>2, <1>4, SizesAssumption
  <1>10. Packed'
    <2>1. \A c \in Clusters' :
            LET k == addr_clusters'[c]
            IN  k.deltas # <<>> /\ k.buf <= buf_pool' /\ k.off + Len(k.deltas) <= BufItems
      <3>1. ASSUME NEW c \in Clusters
            PROVE  /\ addr_clusters'[c].deltas # <<>> /\ addr_clusters'[c].buf <= buf_pool'
                   /\ addr_clusters'[c].off + Len(addr_clusters'[c].deltas) <= BufItems
        <4>1. /\ addr_clusters[c].deltas # <<>> /\ addr_clusters[c].buf <= buf_pool
              /\ addr_clusters[c].off + Len(addr_clusters[c].deltas) <= BufItems
          BY DEF Packed, ItemsInBuffers
        <4>2. addr_clusters[c].buf \in Nat
          BY <1>0, ClusterFacts DEF ClusterType
        <4> QED
          <5>1. addr_clusters[c].buf <= buf
            BY <1>0, <1>4, <4>1, <4>2
          <5> QED
            BY <1>2, <1>7, <4>1, <5>1
      <3>2. new.deltas # <<>> /\ new.buf <= buf_pool' /\ new.off + Len(new.deltas) <= BufItems
        BY <1>2, <1>4, <1>6
      <3> QED
        BY <1>7, <1>8, <3>1, <3>2
    <2>2. \A c, d \in Clusters' : c < d =>
            \/ addr_clusters'[c].buf < addr_clusters'[d].buf
            \/ /\ addr_clusters'[c].buf = addr_clusters'[d].buf
               /\ addr_clusters'[c].off + Len(addr_clusters'[c].deltas) <= addr_clusters'[d].off
      <3>1. SUFFICES ASSUME NEW c \in Clusters, NEW d \in Clusters', c < d
                     PROVE  \/ addr_clusters'[c].buf < addr_clusters'[d].buf
                            \/ /\ addr_clusters'[c].buf = addr_clusters'[d].buf
                               /\ addr_clusters'[c].off + Len(addr_clusters'[c].deltas)
                                    <= addr_clusters'[d].off
        BY <1>8
      <3>2. CASE d \in Clusters
        BY <1>7, <3>1, <3>2 DEF Packed, ItemsInBuffers
      <3>3. CASE d = len + 1
        BY <1>5, <1>6, <1>7, <3>3
      <3> QED
        BY <1>8, <3>2, <3>3
    <2>3. ItemsInBuffers'
      BY <2>1, <2>2 DEF ItemsInBuffers
    <2>4. new.buf = buf_pool' /\ new.off + Len(new.deltas) = buf_used_count'
      BY <1>2, <1>6
    <2> QED
      BY <1>7, <2>3, <2>4 DEF Packed
  <1>11. PICK f : Sums(f) /\ Good(find_iter, f) /\ Good(walk_iter, f)
    BY DEF Summed
  <1>12. PICK h : /\ DOMAIN h = Clusters \cup {len + 1}
                  /\ h[len + 1] = [j \in 0..1 |-> 0]
                  /\ \A c \in Clusters : h[c] = f[c]
    <2> DEFINE g == [c \in Clusters \cup {len + 1} |->
                       IF c = len + 1 THEN [j \in 0..1 |-> 0] ELSE f[c]]
    <2>1. /\ DOMAIN g = Clusters \cup {len + 1} /\ g[len + 1] = [j \in 0..1 |-> 0]
          /\ \A c \in Clusters : g[c] = f[c]
      BY <1>8
    <2> QED
      BY <2>1
  <1>13. /\ h[len + 1] \in [0..1 -> Nat] /\ h[len + 1][0] = 0 /\ h[len + 1][1] = 0
         /\ new.start + h[len + 1][1] * PageSize = a
    BY <1>0, <1>6, <1>12, SizesAssumption
  <1>14. Sums(h)'
    <2>1. SUFFICES ASSUME NEW c \in Clusters'
                   PROVE  /\ PartialSums(h[c], addr_clusters'[c].deltas)
                          /\ \A i \in DOMAIN addr_clusters'[c].deltas :
                               addr_clusters'[c].start + h[c][i] * PageSize \in Addrs
      BY <1>8, <1>12 DEF Sums, PartialSums, Items
    <2>2. CASE c \in Clusters
      BY <1>7, <1>11, <1>12, <2>2 DEF Sums, Items
    <2>3. CASE c = len + 1
      <3>1. PartialSums(h[c], new.deltas)
        BY <1>6, <1>13, <2>3 DEF PartialSums
      <3>2. \A i \in DOMAIN new.deltas : new.start + h[c][i] * PageSize \in Addrs
        BY <1>6, <1>13, <2>3
      <3> QED
        BY <1>7, <2>3, <3>1, <3>2
    <2> QED
      BY <1>8, <2>2, <2>3
  <1>15. Good(walk_iter, h)'
    <2>1. \A c \in Clusters : /\ Items(c) \subseteq Items(c)'
                              /\ \A j \in 0..Len(addr_clusters[c].deltas) : h[c][j] = f[c][j]
      BY <1>7, <1>12 DEF Items
    <2>2. Len(addr_clusters) <= Len(addr_clusters') /\ Len(addr_clusters') \in Nat
      BY <1>1, <1>7
    <2>3. /\ walk_iter \in IterType
          /\ walk_iter.end <= Len(addr_clusters') /\ walk_iter.cluster <= walk_iter.end + 1
          /\ walk_iter.cluster <= walk_iter.end =>
               /\ walk_iter.index \in DOMAIN addr_clusters'[walk_iter.cluster].deltas
               /\ walk_iter.sum = h[walk_iter.cluster][walk_iter.index - 1]
      <3>1. \A it : Good(it, f) =>
              /\ it \in IterType
              /\ it.end <= Len(addr_clusters') /\ it.cluster <= it.end + 1
              /\ it.cluster <= it.end => /\ it.index \in Items(it.cluster)'
                                         /\ it.sum = h[it.cluster][it.index - 1]
        <4>1. addr_clusters \in Seq(ClusterType)
          BY <1>0
        <4> QED
          BY <2>1, <2>2, <4>1, GrownGood
      <3> QED
        BY <1>11, <3>1 DEF Items
    <2> QED
      BY <1>0, <2>3 DEF Good, InBounds, Items
  <1>16. find_iter' \in IterType /\ Good(find_iter, h)'
    <2>1. find_iter' = [cluster |-> len + 1, end |-> len + 1, sum |-> 0, index |-> 1]
      BY <1>2, <1>7 DEF ResetIterator
    <2>2. 1 \in DOMAIN addr_clusters'[len + 1].deltas
      BY <1>6, <1>7
    <2> QED
      BY <1>7, <1>8, <1>13, <2>1, <2>2 DEF Good, InBounds, Items, IterType
  <1>17. EndsAt(h, last_cluster_end)'
    BY <1>2, <1>6, <1>7, <1>13 DEF EndsAt
  <1>18. Summed'
    BY <1>14, <1>15, <1>16, <1>17 DEF Summed
  <1> QED
    BY <1>7, <1>9, <1>10, <1>16, <1>18

-----------------------------------------------------------------------------
(* Every step.                                                             *)

\* At the start there is nothing.
LEMMA InitInv == Init => IInv
  <1> SUFFICES ASSUME Init PROVE IInv
    OBVIOUS
  <1> USE DEF Init, ResetIterator
  <1>1. TypeOK
    <2>1. /\ addr_clusters \in Seq(ClusterType) /\ addr_set \in Seq(Addrs)
          /\ buf_used_count \in 0..BufItems /\ nr_walks \in 0..MaxWalks
          /\ repeats \in 0..MaxRepeats
      BY SizesAssumption
    <2>2. find_iter \in IterType /\ walk_iter \in IterType
      BY DEF IterType
    <2>3. NoBytes \in [Locations -> Nat]
      BY DEF NoBytes
    <2> QED
      BY <2>1, <2>2, <2>3 DEF TypeOK
  <1>2. CallTyped /\ GotTyped
    BY DEF CallTyped, GotTyped
  <1>3. Packed
    BY DEF Packed, ItemsInBuffers, Clusters, IsBufferFull
  <1>4. Summed
    <2>1. Sums(<<>>)
      BY DEF Sums, Clusters
    <2>2. Good(find_iter, <<>>) /\ Good(walk_iter, <<>>) /\ ~Appending
      BY DEF Good, IterType, InBounds, Appending
    <2> QED
      BY <2>1, <2>2 DEF Summed
  <1> QED
    BY <1>1, <1>2, <1>3, <1>4 DEF IInv

\* A step that leaves the clusters alone keeps the invariant, if what the callers keep has
\* its type.
LEMMA CallersStep ==
  ASSUME IInv, UNCHANGED <<seqVars, statVars, nr_walks>>,
         UNCHANGED last_cluster_end \/ last_cluster_end' = 0,
         Appending' => Appending /\ UNCHANGED last_cluster_end,
         \/ UNCHANGED find_iter
         \/ find_iter' = ResetIterator(addr_clusters, 1)
         \/ ~AtEnd(find_iter) /\ find_iter' = MoveNext(find_iter),
         \/ UNCHANGED <<walk_iter, got>> /\ (GotTyped => GotTyped')
         \/ GetFirst
         \/ GetNext,
         \/ UNCHANGED call
         \/ call' = None
         \/ /\ call' \in [op : {"inc", "set", "nid"}, addr : Addrs, arg : {0, 1} \cup Nids]
            /\ CallTyped',
         phase' \in {"rest", "walk", "locate", "report", "normalize", "drift"},
         phase' = "walk" => phase = "walk",
         last_addr' \in Addrs \cup {-1}, repeats' \in 0..MaxRepeats,
         addr_set' \in Seq(Addrs), filling' \in BOOLEAN,
         touched' \subseteq Addrs, clean' \in BOOLEAN, missed' \in BOOLEAN
  PROVE  IInv'
  <1> USE DEF seqVars, statVars
  <1>1. addr_clusters \in Seq(ClusterType) /\ ItemsInBuffers /\ Summed /\ Packed
    BY DEF IInv, TypeOK, Packed
  <1>2. UNCHANGED walk_iter \/ GetFirst \/ GetNext
    OBVIOUS
  <1>3. /\ Summed' /\ find_iter' \in IterType /\ walk_iter' \in IterType
        /\ GetFirst \/ GetNext => got' = EndOfSequence \/ got' \in Entry
    BY <1>1, <1>2, SummedFrame
  <1>4. Packed'
    BY <1>1, PackedFrame
  <1>5. TypeOK'
    BY <1>3 DEF IInv, TypeOK
  <1>6. CallTyped'
    BY DEF IInv, CallTyped
  <1>7. GotTyped'
    <2>1. CASE GetFirst \/ GetNext
      <3>1. Entry' = Entry
        BY DEF Entry
      <3> QED
        BY <1>3, <2>1, <3>1 DEF GotTyped
    <2>2. CASE ~(GetFirst \/ GetNext)
      BY <2>2 DEF IInv
    <2> QED
      BY <2>1, <2>2
  <1>8. (nr_walks = 0 => addr_clusters = <<>> /\ phase # "walk")'
    BY DEF IInv
  <1> QED
    BY <1>3, <1>4, <1>5, <1>6, <1>7, <1>8 DEF IInv

\* rewind()
LEMMA BeginWalkKeeps ==
  ASSUME IInv, BeginWalk
  PROVE  IInv'
  <1> USE DEF seqVars
  <1>0. /\ nr_walks' = nr_walks + 1 /\ nr_walks \in Nat /\ nr_walks < MaxWalks
        /\ nr_walks = 0 => addr_clusters = <<>>
    BY SizesAssumption DEF BeginWalk, IInv, TypeOK
  <1>1. addr_clusters \in Seq(ClusterType) /\ ItemsInBuffers /\ Summed /\ Packed
    BY DEF IInv, TypeOK, Packed
  <1>2. /\ UNCHANGED <<addr_clusters, buf_pool, buf_used_count, walk_iter>>
        /\ find_iter' = ResetIterator(addr_clusters, 1)
    BY DEF BeginWalk
  <1>3. ~Appending'
    BY <1>0, <1>2 DEF Appending
  <1>4. Summed' /\ find_iter' \in IterType
    BY <1>1, <1>2, <1>3, SummedFrame
  <1>5. Packed'
    BY <1>1, <1>2, PackedFrame
  <1>6. NoBytes \in [Locations -> Nat] /\ nr_walks' \in 0..MaxWalks
    BY <1>0, SizesAssumption DEF NoBytes
  <1>7. TypeOK'
    BY <1>2, <1>4, <1>6 DEF BeginWalk, IInv, TypeOK
  <1>8. CallTyped' /\ GotTyped'
    BY DEF BeginWalk, IInv, CallTyped, GotTyped
  <1> QED
    BY <1>0, <1>4, <1>5, <1>7, <1>8 DEF IInv

\* append_addr()
LEMMA AppendPageRefKeeps ==
  ASSUME IInv, InLastBuffer', NEW a \in Addrs, NEW n \in {0, 1}, AppendPageRef(a, n)
  PROVE  IInv'
  <1>0. /\ phase = "walk" /\ phase' = "walk" /\ last_addr' = a
        /\ repeats' \in 0..MaxRepeats
        /\ UNCHANGED <<statVars, nr_walks, walk_iter, call, got, addr_set, filling, touched,
                       clean, missed>>
        /\ TypeOK /\ Packed /\ Summed /\ call' = call
    <2>1. repeats' \in 0..MaxRepeats
      <3>1. repeats \in 0..MaxRepeats /\ (repeats' = repeats
              \/ (repeats < MaxRepeats /\ repeats' = repeats + 1))
        <4>1. a \in Nat /\ (last_addr = -1 \/ last_addr \in Nat) /\ repeats \in 0..MaxRepeats
          BY ValuesAssumption DEF IInv, TypeOK
        <4>2. /\ a > last_addr \/ (a = last_addr /\ repeats < MaxRepeats)
              /\ repeats' = IF a = last_addr THEN repeats + 1 ELSE repeats
          BY DEF AppendPageRef, Reported
        <4> QED
          BY <4>1, <4>2
      <3> QED
        BY <3>1, SizesAssumption
    <2> QED
      BY <2>1 DEF AppendPageRef, Reported, AppendAddr, IInv
  <1>1. CallTyped' /\ GotTyped'
    BY <1>0 DEF IInv, CallTyped, GotTyped
  <1>2. addr_size \in Nat /\ last_addr' \in Addrs \cup {-1}
    BY <1>0 DEF TypeOK
  <1>3. CASE RefuseDuplicate(a) \/ AllocateFails(a)
    <2>1. UNCHANGED <<seqVars, last_cluster_end, find_iter>>
      BY <1>3 DEF RefuseDuplicate, AllocateFails
    <2>2. Appending' => Appending
      BY <1>0, <2>1 DEF Appending, seqVars
    <2>3. GotTyped'
      BY <1>1
    <2> QED
      BY <1>0, <1>2, <2>1, <2>2, <2>3, CallersStep DEF TypeOK
  <1>4. CASE MergeIntoCluster(a, n)
    <2>1. addr_clusters # <<>>
      BY <1>4 DEF MergeIntoCluster
    <2>2. nr_walks = 1
      <3>1. nr_walks \in Nat /\ nr_walks < 2 /\ nr_walks # 0
        BY <1>0, <2>1, SizesAssumption DEF IInv, TypeOK, AppendPageRef, InAppendPeriod
      <3> QED
        BY <3>1
    <2>3. Appending
      BY <1>0, <2>1, <2>2 DEF Appending
    <2>4. /\ addr_clusters' \in Seq(ClusterType) /\ buf_used_count' \in 0..BufItems
          /\ Packed' /\ Summed'
      BY <1>0, <1>4, <2>3, MergeKeeps
    <2>5. /\ addr_size' = addr_size + 1 /\ last_cluster_end' = a
          /\ UNCHANGED <<buf_pool, find_iter>>
      BY <1>4 DEF MergeIntoCluster, SaveIntoCluster
    <2>6. TypeOK'
      BY <1>0, <1>2, <2>4, <2>5 DEF TypeOK, statVars
    <2> QED
      BY <1>0, <1>1, <2>2, <2>4, <2>6 DEF IInv
  <1>5. CASE CreateCluster(a, n)
    <2>1. /\ addr_clusters' \in Seq(ClusterType) /\ buf_used_count' \in 0..BufItems
          /\ buf_pool' \in Nat /\ find_iter' \in IterType
          /\ Packed' /\ Summed'
      BY <1>0, <1>5, CreateKeeps
    <2>2. addr_size' = addr_size + 1 /\ last_cluster_end' = a
      BY <1>5 DEF CreateCluster, SaveIntoCluster
    <2>3. TypeOK'
      BY <1>0, <1>2, <2>1, <2>2 DEF TypeOK, statVars
    <2>4. nr_walks # 0
      BY <1>0 DEF IInv
    <2> QED
      BY <1>0, <1>1, <2>1, <2>3, <2>4 DEF IInv
  <1>6. CASE ClusterFails(a)
    <2>1. UNCHANGED <<addr_clusters, addr_size, last_cluster_end, find_iter>>
      BY <1>6 DEF ClusterFails
    <2>2. \/ UNCHANGED <<buf_pool, buf_used_count>>
          \/ addr_clusters = <<>> /\ buf_pool' = buf_pool + 1 /\ buf_used_count' = 0
      <3>1. CASE IsBufferFull /\ addr_clusters # <<>>
        <4>1. buf_pool' = buf_pool + 1 /\ Last(addr_clusters).buf = buf_pool'
          BY <1>6, <2>1, <3>1 DEF ClusterFails, InLastBuffer, Last
        <4>2. Last(addr_clusters).buf = buf_pool /\ buf_pool \in Nat
          BY <1>0, <3>1 DEF Packed, TypeOK, Last
        <4> QED
          BY <4>1, <4>2
      <3> QED
        BY <1>6, <3>1 DEF ClusterFails
    <2>3. CASE UNCHANGED <<buf_pool, buf_used_count>>
      <3>1. UNCHANGED seqVars
        BY <2>1, <2>3 DEF seqVars
      <3>2. Appending' => Appending
        BY <1>0, <2>1 DEF Appending
      <3> QED
        BY <1>0, <1>1, <1>2, <2>1, <3>1, <3>2, CallersStep DEF TypeOK
    <2>4. CASE addr_clusters = <<>> /\ buf_pool' = buf_pool + 1 /\ buf_used_count' = 0
      <3>1. buf_pool \in Nat /\ buf_pool' \in Nat \ {0} /\ buf_used_count' \in 0..BufItems
        BY <1>0, <2>4, SizesAssumption DEF TypeOK
      <3>2. TypeOK'
        BY <1>0, <1>2, <2>1, <3>1 DEF TypeOK, statVars
      <3>3. Packed'
        BY <2>1, <2>4, <3>1 DEF Packed, ItemsInBuffers, Clusters
      <3>4. Summed'
        BY <1>0, <2>1, <2>4 DEF Summed, Sums, Good, InBounds, Clusters, Items, Appending
      <3> QED
        BY <1>0, <1>1, <2>1, <2>4, <3>2, <3>3, <3>4 DEF IInv
    <2> QED
      BY <2>2, <2>3, <2>4
  <1> QED
    BY <1>3, <1>4, <1>5, <1>6 DEF AppendPageRef, AppendAddr

\* do_walk_update(): the item that was found is written in place.
LEMMA SeekFoundKeeps ==
  ASSUME IInv, SeekFound
  PROVE  IInv'
  <1> USE DEF seqVars, statVars
  <1>0. /\ call # None /\ ~AtEnd(find_iter) /\ call' = None
        /\ UNCHANGED <<buf_pool, buf_used_count, addr_size, nr_walks, last_cluster_end, find_iter,
                       walk_iter, got, phase, last_addr, repeats, addr_set, filling, missed>>
    BY DEF SeekFound
  <1>1. /\ TypeOK /\ Packed /\ Summed /\ CallTyped /\ addr_clusters \in Seq(ClusterType)
        /\ call.op \in {"inc", "set", "nid"} /\ call.addr \in Addrs
    BY <1>0 DEF IInv, TypeOK
  <1>2. CallTyped' /\ GotTyped'
    BY <1>0 DEF IInv, CallTyped, GotTyped
  <1>3. CASE UNCHANGED <<addr_clusters, statVars, touched, clean>>
    <2>1. Appending' => Appending
      BY <1>0, <1>3 DEF Appending
    <2>2. GotTyped => GotTyped'
      BY <1>2
    <2> QED
      BY <1>0, <1>1, <1>3, <2>1, <2>2, CallersStep DEF TypeOK
  <1>4. CASE /\ addr_clusters' = [addr_clusters EXCEPT
                  ![find_iter.cluster].deltas[find_iter.index] = Written(Item(find_iter))]
             /\ CountLocation(Written(Item(find_iter)))
             /\ touched' = IF call.op = "inc" THEN touched \cup {call.addr} ELSE touched
             /\ clean' = (clean /\ (call.op = "inc" => call.addr \notin touched))
    <2> DEFINE item == Written(Item(find_iter))
    <2>1. /\ find_iter.cluster \in Clusters /\ find_iter.index \in Items(find_iter.cluster)
          /\ Item(find_iter) \in ItemType
      <3>1. PICK f : Sums(f) /\ Good(find_iter, f)
        BY <1>1 DEF Summed
      <3>2. \A it : Good(it, f) /\ ~AtEnd(it) =>
              it.cluster \in Clusters /\ it.index \in Items(it.cluster) /\ Item(it) \in ItemType
        BY <1>1, <3>1, OnItem
      <3> QED
        BY <1>0, <3>1, <3>2
    <2>2. item \in ItemType /\ item.delta = Item(find_iter).delta
      BY <1>0, <1>1, <2>1, WrittenType
    <2>3. addr_clusters' \in Seq(ClusterType) /\ Packed' /\ Summed'
      <3>1. Item(find_iter).delta = addr_clusters[find_iter.cluster].deltas[find_iter.index].delta
        BY DEF Item
      <3>2. addr_clusters' # <<>> => addr_clusters # <<>>
        BY <2>1 DEF Clusters
      <3>3. Appending' => Appending
        BY <1>0, <3>2 DEF Appending
      <3>4. PICK c \in Clusters : c = find_iter.cluster
        BY <2>1
      <3>5. PICK i \in Items(c) : i = find_iter.index
        BY <2>1, <3>4
      <3>6. PICK new \in ItemType : new = item
        BY <2>2
      <3>7. addr_clusters' = [addr_clusters EXCEPT ![c].deltas[i] = new]
        BY <1>4, <3>4, <3>5, <3>6
      <3>8. new.delta = addr_clusters[c].deltas[i].delta
        BY <2>2, <3>1, <3>4, <3>5, <3>6
      <3> QED
        BY <1>0, <1>1, <3>3, <3>7, <3>8, WriteInPlace
    <2>4. item.location \in Locations
      BY <2>2 DEF ItemType
    <2>5. top_bytes' \in [Locations -> Nat] /\ young_bytes' \in [Locations -> Nat]
      <3>1. /\ top_bytes \in [Locations -> Nat] /\ young_bytes \in [Locations -> Nat]
            /\ \A m \in Nat : m + PageSize \in Nat
        BY <1>1, SizesAssumption DEF TypeOK
      <3>2. /\ top_bytes' = top_bytes
                 \/ top_bytes' = [top_bytes EXCEPT ![item.location] = @ + PageSize]
            /\ young_bytes' = young_bytes
                 \/ young_bytes' = [young_bytes EXCEPT ![item.location] = @ + PageSize]
        BY <1>4 DEF CountLocation
      <3> HIDE DEF item
      <3> QED
        BY <2>4, <3>1, <3>2
    <2>6. touched' \subseteq Addrs /\ clean' \in BOOLEAN
      BY <1>1, <1>4 DEF TypeOK
    <2>7. TypeOK'
      BY <1>0, <1>1, <2>3, <2>5, <2>6 DEF TypeOK
    <2>8. nr_walks' = 0 => addr_clusters' = <<>> /\ phase' # "walk"
      BY <1>0, <2>1 DEF IInv, Clusters
    <2> QED
      BY <1>2, <2>3, <2>7, <2>8 DEF IInv
  <1> QED
    BY <1>3, <1>4 DEF SeekFound

\* Every step keeps the invariant.
LEMMA NextInv == IInv /\ InLastBuffer' /\ [Next]_vars => IInv'
  <1> SUFFICES ASSUME IInv, InLastBuffer', [Next]_vars PROVE IInv'
    OBVIOUS
  <1> USE DEF seqVars, statVars, envVars
  <1>0. TypeOK /\ GotTyped
    BY DEF IInv
  <1>1. CASE BeginWalk
    BY <1>1, BeginWalkKeeps
  <1>2. CASE EndWalk
    <2>1. /\ UNCHANGED <<seqVars, statVars, nr_walks, last_cluster_end, find_iter, walk_iter, got,
                         call, addr_set, filling, touched, clean, missed>>
          /\ phase' = "rest" /\ last_addr' = -1 /\ repeats' = 0 /\ 0 \in 0..MaxRepeats
      BY <1>2, SizesAssumption DEF EndWalk
    <2>2. ~Appending' /\ GotTyped'
      BY <2>1 DEF Appending, GotTyped
    <2> QED
      BY <1>0, <2>1, <2>2, CallersStep DEF TypeOK
  <1>3. ASSUME NEW a \in Addrs, NEW n \in {0, 1}, AppendPageRef(a, n) \/ CountPageRef(a, n)
        PROVE  IInv'
    <2>1. CASE AppendPageRef(a, n)
      BY <2>1, AppendPageRefKeeps
    <2>2. CASE CountPageRef(a, n)
      <3>1. /\ UNCHANGED <<seqVars, statVars, nr_walks, last_cluster_end, find_iter, walk_iter,
                           got, phase, addr_set, filling, touched, clean, missed>>
            /\ call' = [op |-> "inc", addr |-> a, arg |-> n] /\ last_addr' = a
            /\ a > last_addr \/ (a = last_addr /\ repeats < MaxRepeats)
            /\ repeats' = IF a = last_addr THEN repeats + 1 ELSE repeats
        BY <2>2 DEF CountPageRef, Ask, Reported
      <3>2. repeats' \in 0..MaxRepeats
        <4>1. a \in Nat /\ (last_addr = -1 \/ last_addr \in Nat) /\ repeats \in 0..MaxRepeats
          BY <1>0, ValuesAssumption DEF TypeOK
        <4> QED
          BY <3>1, <4>1, SizesAssumption
      <3>3. (Appending' => Appending) /\ GotTyped'
        BY <1>0, <3>1 DEF Appending, GotTyped
      <3>4. /\ call' \in [op : {"inc", "set", "nid"}, addr : Addrs, arg : {0, 1} \cup Nids]
            /\ CallTyped'
        BY <3>1 DEF CallTyped
      <3> QED
        BY <1>0, <3>1, <3>2, <3>3, <3>4, CallersStep DEF TypeOK
    <2> QED
      BY <1>3, <2>1, <2>2
  <1>4. CASE SeekNext
    <2>1. /\ UNCHANGED <<seqVars, statVars, nr_walks, last_cluster_end, walk_iter, call, got, envVars>>
          /\ ~AtEnd(find_iter) /\ find_iter' = MoveNext(find_iter)
      BY <1>4 DEF SeekNext
    <2>2. (Appending' => Appending) /\ GotTyped'
      BY <1>0, <2>1 DEF Appending, GotTyped
    <2> QED
      BY <1>0, <2>1, <2>2, CallersStep DEF TypeOK
  <1>5. CASE SeekFound
    BY <1>5, SeekFoundKeeps
  <1>6. CASE SeekMissing \/ UNCHANGED vars
    <2>1. /\ UNCHANGED <<seqVars, statVars, nr_walks, last_cluster_end, find_iter, walk_iter, got,
                         envVars>>
          /\ UNCHANGED call \/ call' = None
      BY <1>6 DEF SeekMissing, vars
    <2>2. (Appending' => Appending) /\ GotTyped'
      BY <1>0, <2>1 DEF Appending, GotTyped
    <2> QED
      BY <1>0, <2>1, <2>2, CallersStep DEF TypeOK
  <1>7. CASE BeginLocate
    <2>1. /\ UNCHANGED <<seqVars, statVars, nr_walks, call, touched, clean, missed>>
          /\ phase' = "locate" /\ last_cluster_end' = 0 /\ GetFirst
          /\ find_iter' = ResetIterator(addr_clusters, 1)
          /\ addr_set' = <<>> /\ filling' = TRUE /\ last_addr' = -1 /\ repeats' = 0
          /\ 0 \in 0..MaxRepeats
      BY <1>7, SizesAssumption DEF BeginLocate, PrepareUpdate
    <2>2. ~Appending' /\ addr_set' \in Seq(Addrs)
      BY <2>1 DEF Appending
    <2> QED
      BY <1>0, <2>1, <2>2, CallersStep DEF TypeOK
  <1>8. CASE CollectAddr
    <2>1. /\ UNCHANGED <<seqVars, statVars, nr_walks, last_cluster_end, find_iter, call, phase,
                         last_addr, repeats, touched, clean>>
          /\ phase = "locate" /\ got # EndOfSequence
          /\ \/ LocateBatch(Append(addr_set, got.addr)) /\ UNCHANGED <<got, walk_iter>>
             \/ addr_set' = Append(addr_set, got.addr) /\ GetNext /\ UNCHANGED <<filling, missed>>
      BY <1>8 DEF CollectAddr
    <2>2. got.addr \in Addrs
      BY <1>0, <2>1 DEF GotTyped, Entry
    <2>3. /\ addr_set' \in Seq(Addrs) /\ filling' \in BOOLEAN /\ missed' \in BOOLEAN
      <3>1. addr_set \in Seq(Addrs) /\ filling \in BOOLEAN /\ missed \in BOOLEAN
        BY <1>0 DEF TypeOK
      <3>2. Append(addr_set, got.addr) \in Seq(Addrs) /\ <<>> \in Seq(Addrs)
        BY <2>2, <3>1
      <3>3. /\ addr_set' \in {Append(addr_set, got.addr), <<>>}
            /\ filling' \in {filling, FALSE} /\ missed' \in {missed, TRUE}
        BY <2>1, Zenon DEF LocateBatch
      <3>4. filling' \in BOOLEAN /\ missed' \in BOOLEAN
        BY <3>1, <3>3, Zenon
      <3> QED
        BY <3>2, <3>3, <3>4, Zenon
    <2>4. ~Appending' /\ (UNCHANGED got => GotTyped')
      BY <1>0, <2>1 DEF Appending, GotTyped
    <2> QED
      BY <1>0, <2>1, <2>3, <2>4, CallersStep DEF TypeOK
  <1>9. CASE CollectRest \/ EndLocate
    <2>1. /\ UNCHANGED <<seqVars, statVars, nr_walks, last_cluster_end, find_iter, walk_iter, got,
                         call, last_addr, repeats, touched, clean>>
          /\ phase' \in {"locate", "rest"} /\ phase = "locate"
          /\ UNCHANGED <<addr_set, filling, missed>> \/ LocateBatch(addr_set)
      BY <1>9 DEF CollectRest, EndLocate
    <2>2. /\ addr_set' \in Seq(Addrs) /\ filling' \in BOOLEAN /\ missed' \in BOOLEAN
      <3>1. addr_set \in Seq(Addrs) /\ filling \in BOOLEAN /\ missed \in BOOLEAN
        BY <1>0 DEF TypeOK
      <3>2. <<>> \in Seq(Addrs)
        OBVIOUS
      <3>3. /\ addr_set' \in {addr_set, <<>>}
            /\ filling' \in {filling, FALSE} /\ missed' \in {missed, TRUE}
        BY <2>1, Zenon DEF LocateBatch
      <3>4. filling' \in BOOLEAN /\ missed' \in BOOLEAN
        BY <3>1, <3>3, Zenon
      <3> QED
        BY <3>1, <3>2, <3>3, <3>4, Zenon
    <2>3. ~Appending' /\ GotTyped'
      BY <1>0, <2>1 DEF Appending, GotTyped
    <2> QED
      BY <1>0, <2>1, <2>2, <2>3, CallersStep DEF TypeOK
  <1>10. ASSUME NEW nid \in Nids, LocateAddr(nid) PROVE IInv'
    <2>1. /\ UNCHANGED <<seqVars, statVars, nr_walks, last_cluster_end, find_iter, walk_iter, got,
                         phase, last_addr, repeats, filling, touched, clean, missed>>
          /\ addr_set # <<>> /\ addr_set' = Tail(addr_set)
          /\ call' = call \/ call' = [op |-> "nid", addr |-> Head(addr_set), arg |-> nid]
      BY <1>10 DEF LocateAddr, Ask, Deny
    <2>2. Head(addr_set) \in Addrs /\ addr_set' \in Seq(Addrs)
      BY <1>0, <2>1 DEF TypeOK
    <2>3. (Appending' => Appending) /\ GotTyped'
      BY <1>0, <2>1 DEF Appending, GotTyped
    <2>4. \/ UNCHANGED call
          \/ /\ call' \in [op : {"inc", "set", "nid"}, addr : Addrs, arg : {0, 1} \cup Nids]
             /\ CallTyped'
      BY <2>1, <2>2 DEF CallTyped
    <2> QED
      BY <1>0, <2>1, <2>2, <2>3, <2>4, CallersStep DEF TypeOK
  <1>11. CASE NextBatch \/ ReadFirst \/ ReadNext \/ NormalizeNext
    <2>1. /\ UNCHANGED <<seqVars, statVars, nr_walks, last_cluster_end, find_iter, call,
                         last_addr, repeats, addr_set, clean, missed>>
          /\ GetFirst \/ GetNext
          /\ touched' \in {touched, {}} /\ filling' \in {filling, TRUE}
          /\ phase' \in {"locate", "report", "drift", "normalize"}
      BY <1>11 DEF NextBatch, ReadFirst, ReadNext, NormalizeNext
    <2>2. ~Appending'
      BY <2>1 DEF Appending
    <2> QED
      BY <1>0, <2>1, <2>2, CallersStep DEF TypeOK
  <1>12. CASE BeginNormalize
    <2>1. /\ UNCHANGED <<seqVars, statVars, nr_walks, call, last_addr, repeats, addr_set, touched,
                         clean, missed>>
          /\ phase' = "normalize" /\ last_cluster_end' = 0 /\ GetFirst /\ filling' = TRUE
          /\ find_iter' = ResetIterator(addr_clusters, 1)
      BY <1>12 DEF BeginNormalize, PrepareUpdate
    <2>2. ~Appending'
      BY <2>1 DEF Appending
    <2> QED
      BY <1>0, <2>1, <2>2, CallersStep DEF TypeOK
  <1>13. CASE NormalizeAddr
    <2>1. /\ UNCHANGED <<seqVars, statVars, nr_walks, last_cluster_end, find_iter, walk_iter, got,
                         phase, last_addr, repeats, addr_set, touched, clean, missed>>
          /\ phase = "normalize" /\ got # EndOfSequence /\ filling' = FALSE
          /\ \/ UNCHANGED call
             \/ \E n \in {0, 1} : call' = [op |-> "set", addr |-> got.addr, arg |-> n]
      BY <1>13 DEF NormalizeAddr, Ask, Deny
    <2>2. got.addr \in Addrs
      BY <1>0, <2>1 DEF GotTyped, Entry
    <2>3. ~Appending' /\ GotTyped'
      BY <1>0, <2>1 DEF Appending, GotTyped
    <2>4. \/ UNCHANGED call
          \/ /\ call' \in [op : {"inc", "set", "nid"}, addr : Addrs, arg : {0, 1} \cup Nids]
             /\ CallTyped'
      BY <2>1, <2>2 DEF CallTyped
    <2> QED
      BY <1>0, <2>1, <2>3, <2>4, CallersStep DEF TypeOK
  <1>14. CASE EndNormalize
    <2>1. /\ UNCHANGED <<seqVars, statVars, nr_walks, last_cluster_end, find_iter, walk_iter, got,
                         call, last_addr, repeats, addr_set, filling, touched, clean, missed>>
          /\ phase' = "drift" /\ phase = "normalize"
      BY <1>14 DEF EndNormalize
    <2>2. ~Appending' /\ GotTyped'
      BY <1>0, <2>1 DEF Appending, GotTyped
    <2> QED
      BY <1>0, <2>1, <2>2, CallersStep DEF TypeOK
  <1> QED
    BY <1>1, <1>2, <1>3, <1>4, <1>5, <1>6, <1>7, <1>8, <1>9, <1>10, <1>11, <1>12, <1>13, <1>14
    DEF Next

-----------------------------------------------------------------------------
(* Theorems.                                                               *)

\* The invariant holds as long as no ClusterFails() has left the last cluster in a full
\* buffer; every theorem below is about these behaviours.
LEMMA SpecInv == Spec /\ []InLastBuffer => []IInv
  BY InitInv, NextInv, PTL DEF Spec

\* Type correctness: distances and payloads fit their fields, and every address that is
\* read, located or searched was reported (AddrSequence::append_addr, do_walk).
THEOREM TypeCorrect == Spec /\ []InLastBuffer => []TypeOK
  <1>1. IInv => TypeOK
    BY DEF IInv
  <1> QED
    BY <1>1, SpecInv, PTL

\* Every cluster stays inside one allocated buffer and shares no place with another
\* (AddrSequence::create_cluster, save_into_cluster), unless the cluster vector failed to
\* grow right after a new buffer was taken (AddrSequence.cc:303-307): there the code
\* writes behind a buffer, and the hypothesis leaves these behaviours out.
THEOREM BuffersKept == Spec /\ []InLastBuffer => []ItemsInBuffers
  <1>1. IInv => ItemsInBuffers
    BY DEF IInv, Packed
  <1> QED
    BY <1>1, SpecInv, PTL

\* Both iterators are exhausted or on an item that exists, whatever is appended, located
\* or rewound (AddrSequence::do_walk, reset_iterator).
THEOREM IteratorsKept == Spec /\ []InLastBuffer => []IteratorsInBounds
  <1>1. IInv => IteratorsInBounds
    BY DEF IInv, Summed, Good, IteratorsInBounds
  <1> QED
    BY <1>1, SpecInv, PTL

-----------------------------------------------------------------------------
(* The positions of items and their addresses.                             *)

\* The address of item i of a cluster k.
AddrIn(k, i) ==
  LET sum[j \in 0..i] == IF j = 0 THEN 0 ELSE sum[j - 1] + k.deltas[j].delta
  IN  k.start + sum[i] * PageSize

At(p) == ItemAddr(p[1], p[2])

\* The recursive sum is any function that runs through the distances.
LEMMA AddrInIs ==
  ASSUME NEW k, NEW i \in Nat, NEW s, s[0] = 0,
         \A j \in 1..i : s[j] = s[j - 1] + k.deltas[j].delta
  PROVE  AddrIn(k, i) = k.start + s[i] * PageSize
  <1> DEFINE v == [j \in 1..i |-> k.deltas[j].delta]
             Is(g) == g = [j \in 0..i |-> IF j = 0 THEN 0 ELSE g[j - 1] + k.deltas[j].delta]
             f0 == CHOOSE g : Is(g)
  <1>1. Is(f0)
    <2> DEFINE g == [j \in 0..i |-> s[j]]
    <2>1. \A j \in 0..i : g[j] = IF j = 0 THEN 0 ELSE g[j - 1] + k.deltas[j].delta
      OBVIOUS
    <2>2. g = [j \in 0..i |-> g[j]]
      OBVIOUS
    <2> HIDE DEF g
    <2>3. Is(g)
      BY <2>1, <2>2
    <2> QED
      BY <2>3, Zenon
  <1>2. AddrIn(k, i) = k.start + f0[i] * PageSize
    BY Zenon DEF AddrIn
  <1> HIDE DEF f0
  <1>3. RunsThrough(f0, v, i)
    BY <1>1 DEF RunsThrough
  <1>4. RunsThrough(s, v, i)
    BY DEF RunsThrough
  <1> HIDE DEF v
  <1>5. f0[i] = s[i]
    BY <1>3, <1>4, RunsUnique
  <1> QED
    BY <1>2, <1>5

\* It depends on the cluster that holds the item alone.
LEMMA AtIs ==
  /\ \A c, i : ItemAddr(c, i) = AddrIn(addr_clusters[c], i)
  /\ \A p : At(p) = AddrIn(addr_clusters[p[1]], p[2])
  BY Zenon DEF At, ItemAddr, AddrIn

\* It does after a step, too.
LEMMA AtIsNext == \A p : At(p)' = AddrIn(addr_clusters'[p[1]], p[2])
  BY Zenon DEF At, ItemAddr, AddrIn

\* do_walk() computes the address from the iterator's sum.
LEMMA AtSums ==
  ASSUME addr_clusters \in Seq(ClusterType), NEW f, Sums(f), NEW c \in Clusters, NEW i \in Items(c)
  PROVE  /\ ItemAddr(c, i) = addr_clusters[c].start + f[c][i] * PageSize
         /\ ItemAddr(c, i) \in Addrs
  <1> DEFINE k == addr_clusters[c]
             s == f[c]
  <1>1. Items(c) = 1 .. Len(k.deltas) /\ Len(k.deltas) \in Nat /\ DOMAIN k.deltas = 1 .. Len(k.deltas)
    BY ClusterFacts DEF Items
  <1>2. PartialSums(s, k.deltas) /\ k.start + s[i] * PageSize \in Addrs
    BY DEF Sums
  <1> HIDE DEF k, s
  <1>3. s[0] = 0 /\ \A j \in 1..i : s[j] = s[j - 1] + k.deltas[j].delta
    <2>1. \A j \in 1..i : j \in DOMAIN k.deltas
      BY <1>1
    <2> QED
      BY <1>2, <2>1 DEF PartialSums
  <1>4. i \in Nat
    BY <1>1
  <1>5. AddrIn(k, i) = k.start + s[i] * PageSize
    BY <1>3, <1>4, AddrInIs
  <1> QED
    BY <1>2, <1>5, AtIs DEF k, s

\* A position is a cluster and an item of it.
LEMMA PositionIs ==
  /\ \A p \in Positions : p = <<p[1], p[2]>> /\ p[1] \in Clusters /\ p[2] \in Items(p[1])
  /\ \A c \in Clusters : \A i \in Items(c) : <<c, i>> \in Positions
  BY DEF Positions

\* Clusters and their items are numbered.
LEMMA PositionNumbers ==
  ASSUME addr_clusters \in Seq(ClusterType)
  PROVE  /\ Clusters = 1 .. Len(addr_clusters) /\ Len(addr_clusters) \in Nat
         /\ \A p \in Positions : p[1] \in Nat \ {0} /\ p[2] \in Nat \ {0} /\ p[1] <= Len(addr_clusters)
         /\ \A c \in Clusters : /\ Items(c) = 1 .. Len(addr_clusters[c].deltas)
                                /\ Len(addr_clusters[c].deltas) \in Nat
  <1>1. Clusters = 1 .. Len(addr_clusters) /\ Len(addr_clusters) \in Nat
    BY DEF Clusters
  <1>2. \A c \in Clusters : /\ Items(c) = 1 .. Len(addr_clusters[c].deltas)
                            /\ Len(addr_clusters[c].deltas) \in Nat
    BY ClusterFacts
  <1>3. ASSUME NEW p \in Positions
        PROVE  p[1] \in Nat \ {0} /\ p[2] \in Nat \ {0} /\ p[1] <= Len(addr_clusters)
    <2>1. p[1] \in Clusters /\ p[2] \in Items(p[1])
      BY PositionIs
    <2>2. p[2] \in 1 .. Len(addr_clusters[p[1]].deltas) /\ Len(addr_clusters[p[1]].deltas) \in Nat
      BY <1>2, <2>1
    <2>3. p[1] \in 1 .. Len(addr_clusters)
      BY <1>1, <2>1
    <2> QED
      BY <1>1, <2>2, <2>3
  <1> QED
    BY <1>1, <1>2, <1>3

\* Every item has an address and a content.
LEMMA PositionFacts ==
  ASSUME addr_clusters \in Seq(ClusterType), Summed, NEW p \in Positions
  PROVE  At(p) \in Addrs /\ At(p) \in Nat /\ Stored(p) \in ItemType
  <1>1. p[1] \in Clusters /\ p[2] \in Items(p[1])
    BY PositionIs
  <1>2. PICK f : Sums(f)
    BY DEF Summed
  <1>3. At(p) \in Addrs
    BY <1>1, <1>2, AtSums DEF At
  <1>4. Stored(p) \in ItemType
    BY <1>1, ClusterFacts DEF Stored
  <1> QED
    BY <1>3, <1>4, ValuesAssumption

-----------------------------------------------------------------------------
(* The order of the table.                                                 *)

Before(p, q) == p[1] < q[1] \/ (p[1] = q[1] /\ p[2] < q[2])

\* p lies before the item an iterator stands on.
Behind(p, it) == Before(p, <<it.cluster, it.index>>)

Ordered == \A p, q \in Positions : Before(p, q) => At(p) < At(q)

\* In an ordered table a lower address lies before, and no address is there twice.
LEMMA OrderFacts ==
  ASSUME addr_clusters \in Seq(ClusterType), Summed, Ordered, NEW p \in Positions, NEW q \in Positions
  PROVE  /\ Before(p, q) <=> At(p) < At(q)
         /\ At(p) = At(q) <=> p = q
         /\ At(p) \in Nat /\ At(q) \in Nat
  <1>1. At(p) \in Nat /\ At(q) \in Nat
    BY PositionFacts
  <1>2. p = q \/ Before(p, q) \/ Before(q, p)
    <2>1. p = <<p[1], p[2]>> /\ q = <<q[1], q[2]>>
      BY PositionIs
    <2>2. p[1] \in Nat /\ p[2] \in Nat /\ q[1] \in Nat /\ q[2] \in Nat
      BY PositionNumbers
    <2> QED
      BY <2>1, <2>2 DEF Before
  <1>3. (Before(p, q) => At(p) < At(q)) /\ (Before(q, p) => At(q) < At(p))
    BY DEF Ordered
  <1>4. p = q => At(p) = At(q)
    OBVIOUS
  <1> QED
    BY <1>1, <1>2, <1>3, <1>4

-----------------------------------------------------------------------------
(* Iterators.                                                              *)

InPlace(it) == it \in IterType /\ InBounds(it) /\ it.end = Len(addr_clusters)

\* Both iterators carry the sums of ItemAddr().
LEMMA IteratorAddr ==
  ASSUME addr_clusters \in Seq(ClusterType), NEW f, Sums(f), NEW it, Good(it, f), ~AtEnd(it)
  PROVE  /\ <<it.cluster, it.index>> \in Positions
         /\ AddrAt(it) = At(<<it.cluster, it.index>>)
         /\ Item(it) = Stored(<<it.cluster, it.index>>)
  <1>1. /\ it.cluster \in Clusters /\ it.index \in Items(it.cluster)
        /\ it.sum + Item(it).delta = f[it.cluster][it.index]
    BY OnItem
  <1>2. ItemAddr(it.cluster, it.index)
          = addr_clusters[it.cluster].start + f[it.cluster][it.index] * PageSize
    BY <1>1, AtSums
  <1>3. AddrAt(it) = ItemAddr(it.cluster, it.index)
    BY <1>1, <1>2 DEF AddrAt
  <1>4. <<it.cluster, it.index>> \in Positions
    BY <1>1, PositionIs
  <1> QED
    BY <1>3, <1>4 DEF At, Stored, Item

\* An iterator passes one item at a time.
LEMMA MoveNextBehind ==
  ASSUME addr_clusters \in Seq(ClusterType), NEW it \in IterType, it.cluster \in Clusters,
         it.index \in Items(it.cluster), NEW p \in Positions
  PROVE  /\ MoveNext(it).end = it.end
         /\ Behind(p, MoveNext(it)) <=> Behind(p, it) \/ p = <<it.cluster, it.index>>
  <1>1. it.cluster \in Nat \ {0} /\ it.index \in Nat \ {0}
    BY DEF IterType
  <1>2. p = <<p[1], p[2]>> /\ p[1] \in Nat \ {0} /\ p[2] \in Nat \ {0}
    BY PositionIs, PositionNumbers
  <1>3. p[1] = it.cluster => p[2] <= Len(addr_clusters[it.cluster].deltas)
    BY PositionIs, PositionNumbers
  <1>4. it.index <= Len(addr_clusters[it.cluster].deltas) /\ Len(addr_clusters[it.cluster].deltas) \in Nat
    BY PositionNumbers
  <1>5. /\ MoveNext(it).end = it.end
        /\ it.index + 1 > Len(addr_clusters[it.cluster].deltas) =>
             MoveNext(it).cluster = it.cluster + 1 /\ MoveNext(it).index = 1
        /\ ~(it.index + 1 > Len(addr_clusters[it.cluster].deltas)) =>
             MoveNext(it).cluster = it.cluster /\ MoveNext(it).index = it.index + 1
    BY DEF MoveNext, IterType
  <1> DEFINE n == Len(addr_clusters[it.cluster].deltas)
             next == MoveNext(it)
             p1 == p[1]
             p2 == p[2]
  <1>6. p = <<it.cluster, it.index>> <=> p1 = it.cluster /\ p2 = it.index
    BY <1>2
  <1>7. CASE it.index + 1 > n
    <2>1. next.cluster = it.cluster + 1 /\ next.index = 1
      BY <1>5, <1>7
    <2> HIDE DEF n, next, p1, p2
    <2>2. Before(<<p1, p2>>, <<next.cluster, next.index>>)
            <=> Before(<<p1, p2>>, <<it.cluster, it.index>>) \/ (p1 = it.cluster /\ p2 = it.index)
      BY <1>1, <1>2, <1>3, <1>4, <1>7, <2>1 DEF Before, n, p1, p2
    <2> QED
      BY <1>2, <1>5, <1>6, <2>2 DEF Behind, next, p1, p2
  <1>8. CASE ~(it.index + 1 > n)
    <2>1. next.cluster = it.cluster /\ next.index = it.index + 1
      BY <1>5, <1>8
    <2> HIDE DEF n, next, p1, p2
    <2>2. Before(<<p1, p2>>, <<next.cluster, next.index>>)
            <=> Before(<<p1, p2>>, <<it.cluster, it.index>>) \/ (p1 = it.cluster /\ p2 = it.index)
      BY <1>1, <1>2, <2>1 DEF Before, p1, p2
    <2> QED
      BY <1>2, <1>5, <1>6, <2>2 DEF Behind, next, p1, p2
  <1> QED
    BY <1>7, <1>8

\* An exhausted iterator has passed every item.
LEMMA AtEndBehind ==
  ASSUME addr_clusters \in Seq(ClusterType), NEW it, InPlace(it), AtEnd(it), NEW p \in Positions
  PROVE  Behind(p, it)
  <1>1. it.cluster = Len(addr_clusters) + 1 /\ Len(addr_clusters) \in Nat
    BY PositionNumbers DEF AtEnd, InPlace
  <1>2. p[1] \in Nat /\ p[1] <= Len(addr_clusters)
    BY PositionNumbers
  <1> QED
    BY <1>1, <1>2 DEF Behind, Before

\* An iterator that was reset has passed none.
LEMMA ResetBehind ==
  ASSUME addr_clusters \in Seq(ClusterType), NEW p \in Positions
  PROVE  ~Behind(p, ResetIterator(addr_clusters, 1))
  <1>1. p[1] \in Nat \ {0} /\ p[2] \in Nat \ {0}
    BY PositionNumbers
  <1> QED
    BY <1>1 DEF Behind, Before, ResetIterator

\* An iterator in place that is not exhausted stands on an item.
LEMMA OnPosition ==
  ASSUME addr_clusters \in Seq(ClusterType), NEW it, InPlace(it), ~AtEnd(it)
  PROVE  it \in IterType /\ it.cluster \in Clusters /\ it.index \in Items(it.cluster)
  <1>1. /\ it.cluster \in Nat \ {0} /\ it.end = Len(addr_clusters) /\ it.cluster <= it.end + 1
        /\ it.cluster # it.end + 1
    BY DEF InPlace, IterType, InBounds, AtEnd
  <1>2. it.cluster <= it.end /\ it.cluster \in Clusters
    BY <1>1, PositionNumbers
  <1> QED
    BY <1>2 DEF InPlace, InBounds

-----------------------------------------------------------------------------
(* Reads.                                                                  *)

\* What was read up to now, and the entry that was read last.
WasRead(p) == got = EndOfSequence \/ At(p) <= got.addr

\* The read iterator has passed what was read.
ReadTo ==
  got # EndOfSequence =>
    /\ InPlace(walk_iter)
    /\ \E p \in Positions : At(p) = got.addr
    /\ \A p \in Positions : Behind(p, walk_iter) <=> At(p) <= got.addr

\* No record is the end of the sequence.
LEMMA EntryIsNoEnd == \A e \in Entry : e # EndOfSequence
  <1>1. 0..(PayloadMod - 1) \subseteq Nat /\ Nids \cup {NoNid} \subseteq Int
    BY SizesAssumption, ValuesAssumption DEF NoNid
  <1>2. Entry \subseteq [addr : Addrs, refs : Nat, nid : Int]
    BY <1>1 DEF Entry
  <1> QED
    BY <1>2, ValuesAssumption

\* A read delivers the first item that its iterator has not passed.
LEMMA DoGetReads ==
  ASSUME addr_clusters \in Seq(ClusterType), ItemsInBuffers, Summed, Ordered, NEW f, Sums(f),
         NEW it, Good(it, f), InPlace(it), DoGet(it)
  PROVE  /\ got' = EndOfSequence => \A p \in Positions : Behind(p, it)
         /\ got' # EndOfSequence =>
              /\ InPlace(walk_iter')
              /\ \E p \in Positions :
                   /\ ~Behind(p, it) /\ At(p) = got'.addr
                   /\ got'.refs = Stored(p).payload /\ got'.nid = Stored(p).nid
              /\ \A p \in Positions : Behind(p, walk_iter') <=> At(p) <= got'.addr
              /\ \A p \in Positions : At(p) < got'.addr => Behind(p, it)
  <1>1. CASE AtEnd(it)
    BY <1>1, AtEndBehind DEF DoGet
  <1>2. CASE ~AtEnd(it)
    <2> DEFINE q == <<it.cluster, it.index>>
    <2>1. q \in Positions /\ AddrAt(it) = At(q) /\ Item(it) = Stored(q)
      BY <1>2, IteratorAddr
    <2>2. /\ got' = [addr |-> At(q), refs |-> Stored(q).payload, nid |-> Stored(q).nid]
          /\ walk_iter' = MoveNext(it)
      BY <1>2, <2>1 DEF DoGet
    <2>3. it \in IterType /\ it.cluster \in Clusters /\ it.index \in Items(it.cluster)
      BY <1>2, OnPosition
    <2>4. InPlace(walk_iter')
      <3>1. Good(MoveNext(it), f)
        BY <1>2, MoveNextGood
      <3>2. MoveNext(it).end = it.end
        BY <2>1, <2>3, MoveNextBehind
      <3> QED
        BY <2>2, <3>1, <3>2 DEF InPlace, Good
    <2> HIDE DEF q
    <2>5. \A p \in Positions : Behind(p, it) <=> At(p) < At(q)
      BY <2>1, OrderFacts DEF Behind, q
    <2>6. \A p \in Positions : Behind(p, walk_iter') <=> At(p) <= At(q)
      <3>1. SUFFICES ASSUME NEW p \in Positions PROVE Behind(p, walk_iter') <=> At(p) <= At(q)
        OBVIOUS
      <3>2. Behind(p, walk_iter') <=> Behind(p, it) \/ p = q
        BY <2>2, <2>3, MoveNextBehind DEF q
      <3>3. /\ At(p) = At(q) <=> p = q
            /\ At(p) \in Nat /\ At(q) \in Nat
        BY <2>1, OrderFacts
      <3> QED
        BY <2>5, <3>2, <3>3
    <2>7. ~Behind(q, it) /\ At(q) \in Nat
      BY <2>1, <2>5, PositionFacts
    <2>8. got' # EndOfSequence
      <3>1. At(q) \in Addrs /\ Stored(q) \in ItemType
        BY <2>1, PositionFacts
      <3>2. got' \in Entry
        BY <2>2, <3>1 DEF Entry, ItemType
      <3> QED
        BY <3>2, EntryIsNoEnd
    <2>9. got'.addr = At(q) /\ got'.refs = Stored(q).payload /\ got'.nid = Stored(q).nid
      BY <2>2
    <2> QED
      BY <2>1, <2>4, <2>5, <2>6, <2>7, <2>8, <2>9
  <1> QED
    BY <1>1, <1>2

\* get_first() delivers the lowest address, or finds the sequence empty.
LEMMA GetFirstReads ==
  ASSUME addr_clusters \in Seq(ClusterType), ItemsInBuffers, Summed, Ordered, GetFirst
  PROVE  /\ got' = EndOfSequence => Positions = {}
         /\ got' # EndOfSequence =>
              /\ InPlace(walk_iter')
              /\ \E p \in Positions :
                   /\ At(p) = got'.addr
                   /\ got'.refs = Stored(p).payload /\ got'.nid = Stored(p).nid
              /\ \A p \in Positions : Behind(p, walk_iter') <=> At(p) <= got'.addr
              /\ \A p \in Positions : At(p) >= got'.addr
  <1>1. CASE addr_clusters = <<>>
    <2>1. Positions = {}
      BY <1>1, PositionNumbers DEF Positions
    <2> QED
      BY <1>1, <2>1 DEF GetFirst
  <1>2. CASE addr_clusters # <<>>
    <2> DEFINE it == ResetIterator(addr_clusters, 1)
    <2>1. DoGet(it)
      BY <1>2 DEF GetFirst
    <2>2. 1 \in Clusters
      BY <1>2 DEF Clusters
    <2>3. PICK f : Sums(f)
      BY DEF Summed
    <2>4. Good(it, f)
      BY <2>2, <2>3, ResetGood
    <2>5. InPlace(it)
      BY <2>4 DEF InPlace, Good, ResetIterator
    <2>6. \A p \in Positions : ~Behind(p, it)
      BY ResetBehind
    <2> HIDE DEF it
    <2>7. /\ got' = EndOfSequence => \A p \in Positions : Behind(p, it)
          /\ got' # EndOfSequence =>
               /\ InPlace(walk_iter')
               /\ \E p \in Positions :
                    /\ ~Behind(p, it) /\ At(p) = got'.addr
                    /\ got'.refs = Stored(p).payload /\ got'.nid = Stored(p).nid
               /\ \A p \in Positions : Behind(p, walk_iter') <=> At(p) <= got'.addr
               /\ \A p \in Positions : At(p) < got'.addr => Behind(p, it)
      BY <2>1, <2>3, <2>4, <2>5, DoGetReads
    <2>8. \A p, q \in Positions : At(p) \in Nat /\ At(q) \in Nat
      BY PositionFacts
    <2> QED
      BY <2>6, <2>7, <2>8
  <1> QED
    BY <1>1, <1>2

\* get_next() delivers the next higher address, or finds that there is none.
LEMMA GetNextReads ==
  ASSUME addr_clusters \in Seq(ClusterType), ItemsInBuffers, Summed, Ordered, GetNext,
         ReadTo, got # EndOfSequence
  PROVE  /\ got' = EndOfSequence => \A p \in Positions : At(p) <= got.addr
         /\ got' # EndOfSequence =>
              /\ InPlace(walk_iter')
              /\ \E p \in Positions :
                   /\ At(p) > got.addr /\ At(p) = got'.addr
                   /\ got'.refs = Stored(p).payload /\ got'.nid = Stored(p).nid
              /\ \A p \in Positions : Behind(p, walk_iter') <=> At(p) <= got'.addr
              /\ \A p \in Positions : At(p) < got'.addr => At(p) <= got.addr
  <1>1. PICK f : Sums(f) /\ Good(walk_iter, f)
    BY DEF Summed
  <1>2. InPlace(walk_iter) /\ DoGet(walk_iter)
    BY DEF ReadTo, GetNext
  <1>3. \A p \in Positions : Behind(p, walk_iter) <=> At(p) <= got.addr
    BY DEF ReadTo
  <1>4. PICK it : it = walk_iter
    OBVIOUS
  <1>5. Good(it, f) /\ InPlace(it) /\ DoGet(it)
    BY <1>1, <1>2, <1>4
  <1>6. /\ got' = EndOfSequence => \A p \in Positions : Behind(p, it)
        /\ got' # EndOfSequence =>
             /\ InPlace(walk_iter')
             /\ \E p \in Positions :
                  /\ ~Behind(p, it) /\ At(p) = got'.addr
                  /\ got'.refs = Stored(p).payload /\ got'.nid = Stored(p).nid
             /\ \A p \in Positions : Behind(p, walk_iter') <=> At(p) <= got'.addr
             /\ \A p \in Positions : At(p) < got'.addr => Behind(p, it)
    BY <1>1, <1>5, DoGetReads
  <1>7. \A p \in Positions : At(p) \in Nat
    BY PositionFacts
  <1>8. got.addr \in Nat
    BY <1>7 DEF ReadTo
  <1> QED
    BY <1>3, <1>4, <1>6, <1>7, <1>8

-----------------------------------------------------------------------------
(* What the steps make of the table.                                       *)

\* A step that leaves the clusters alone leaves the table alone.
LEMMA SameTable ==
  ASSUME UNCHANGED addr_clusters
  PROVE  /\ Positions' = Positions
         /\ \A p : At(p)' = At(p) /\ Stored(p)' = Stored(p)
         /\ Ordered' <=> Ordered
  <1>1. Positions' = Positions /\ \A p : Stored(p)' = Stored(p)
    BY DEF Positions, Clusters, Items, Stored
  <1>2. \A p : At(p)' = At(p)
    <2>1. SUFFICES ASSUME NEW p PROVE At(p)' = At(p)
      OBVIOUS
    <2>2. At(p)' = AddrIn(addr_clusters'[p[1]], p[2])
      BY AtIsNext
    <2>3. At(p) = AddrIn(addr_clusters[p[1]], p[2])
      BY AtIs
    <2> QED
      BY <2>2, <2>3
  <1> QED
    BY <1>1, <1>2 DEF Ordered

\* The distances up to an item, and its cluster's start, make its address.
LEMMA SameDistances ==
  ASSUME addr_clusters \in Seq(ClusterType), NEW f, Sums(f), NEW c \in Clusters, NEW i \in Items(c),
         NEW k, k.start = addr_clusters[c].start,
         \A j \in Items(c) : k.deltas[j].delta = addr_clusters[c].deltas[j].delta
  PROVE  AddrIn(k, i) = ItemAddr(c, i)
  <1> DEFINE s == f[c]
             n == Len(addr_clusters[c].deltas)
  <1>1. /\ Items(c) = 1 .. n /\ n \in Nat /\ i \in 1 .. n
        /\ PartialSums(s, addr_clusters[c].deltas)
    BY PositionNumbers DEF Sums
  <1>2. s[0] = 0 /\ \A j \in Items(c) : s[j] = s[j - 1] + addr_clusters[c].deltas[j].delta
    BY <1>1 DEF PartialSums, Items
  <1> HIDE DEF s, n
  <1>3. i \in Nat /\ \A j \in 1 .. i : j \in Items(c)
    BY <1>1
  <1>4. \A j \in 1 .. i : s[j] = s[j - 1] + k.deltas[j].delta
    BY <1>2, <1>3
  <1>5. AddrIn(k, i) = k.start + s[i] * PageSize
    BY <1>2, <1>3, <1>4, AddrInIs
  <1>6. ItemAddr(c, i) = addr_clusters[c].start + s[i] * PageSize
    BY AtSums DEF s
  <1> QED
    BY <1>5, <1>6

\* do_walk_update(): one item is written, and none moves.
LEMMA WriteTable ==
  ASSUME IInv, SeekFound, ~(call.op = "inc" /\ call.arg = 0)
  PROVE  \E q \in Positions :
         /\ q = <<find_iter.cluster, find_iter.index>> /\ At(q) = call.addr
         /\ Positions' = Positions
         /\ \A p \in Positions : At(p)' = At(p)
         /\ \A p \in Positions : p # q => Stored(p)' = Stored(p)
         /\ Stored(q)' = Written(Stored(q))
         /\ CountLocation(Written(Stored(q)))
         /\ Ordered => Ordered'
  <1> DEFINE item == Written(Item(find_iter))
  <1>a. PICK c, i, q : c = find_iter.cluster /\ i = find_iter.index /\ q = <<c, i>>
    OBVIOUS
  <1>0. /\ addr_clusters \in Seq(ClusterType) /\ ~AtEnd(find_iter) /\ AddrAt(find_iter) = call.addr
        /\ addr_clusters' = [addr_clusters EXCEPT ![c].deltas[i] = item]
        /\ CountLocation(item) /\ call # None /\ call.op \in {"inc", "set", "nid"} /\ CallTyped
    BY <1>a DEF SeekFound, IInv, TypeOK
  <1>1. PICK f : Sums(f) /\ Good(find_iter, f)
    BY DEF IInv, Summed
  <1>2. /\ q \in Positions /\ AddrAt(find_iter) = At(q) /\ Item(find_iter) = Stored(q)
        /\ c \in Clusters /\ i \in Items(c) /\ Item(find_iter) \in ItemType
    <2>1. \A it : Good(it, f) /\ ~AtEnd(it) =>
            /\ <<it.cluster, it.index>> \in Positions
            /\ AddrAt(it) = At(<<it.cluster, it.index>>)
            /\ Item(it) = Stored(<<it.cluster, it.index>>)
      BY <1>0, <1>1, IteratorAddr
    <2>2. \A it : Good(it, f) /\ ~AtEnd(it) =>
            it.cluster \in Clusters /\ it.index \in Items(it.cluster) /\ Item(it) \in ItemType
      BY <1>0, <1>1, OnItem
    <2> QED
      BY <1>a, <1>0, <1>1, <2>1, <2>2
  <1>3. item.delta = Item(find_iter).delta
    BY <1>0, <1>2, WrittenType
  <1> DEFINE new == addr_clusters'
  <1>4. PICK w : w = item
    OBVIOUS
  <1>5. /\ new = [addr_clusters EXCEPT ![c].deltas[i] = w]
        /\ w.delta = addr_clusters[c].deltas[i].delta
    BY <1>a, <1>0, <1>3, <1>4 DEF Item
  <1> HIDE DEF item, new
  <1>6. addr_clusters[c] \in ClusterType /\ addr_clusters[c].deltas \in Seq(ItemType)
    BY <1>0, <1>2, ClusterFacts
  <1> DEFINE deltas == [addr_clusters[c].deltas EXCEPT ![i] = w]
             cluster == [addr_clusters[c] EXCEPT !.deltas = deltas]
  <1>7. /\ DOMAIN deltas = Items(c) /\ deltas[i] = w
        /\ \A j \in Items(c) : j # i => deltas[j] = addr_clusters[c].deltas[j]
    BY <1>2, <1>6 DEF Items
  <1>8. new = [addr_clusters EXCEPT ![c] = cluster]
    BY <1>5
  <1>9. cluster.deltas = deltas /\ cluster.start = addr_clusters[c].start
    <2> HIDE DEF deltas
    <2> QED
      BY <1>6 DEF ClusterType
  <1> HIDE DEF deltas, cluster
  <1>10. /\ DOMAIN new = Clusters /\ new[c] = cluster
         /\ \A d \in Clusters : d # c => new[d] = addr_clusters[d]
    BY <1>0, <1>2, <1>8 DEF Clusters
  <1>11. Clusters' = Clusters /\ \A d \in Clusters : Items(d)' = Items(d)
    BY <1>7, <1>9, <1>10 DEF Clusters, Items, new
  <1>12. Positions' = Positions
    BY <1>11 DEF Positions
  <1>13. ASSUME NEW p \in Positions PROVE At(p)' = At(p)
    <2>1. p[1] \in Clusters /\ p[2] \in Items(p[1])
      BY PositionIs
    <2>2. At(p)' = AddrIn(new[p[1]], p[2]) /\ At(p) = AddrIn(addr_clusters[p[1]], p[2])
      BY AtIs, AtIsNext DEF new
    <2>3. CASE p[1] # c
      BY <1>10, <2>1, <2>2, <2>3
    <2>4. CASE p[1] = c
      <3>1. /\ cluster.start = addr_clusters[c].start
            /\ \A j \in Items(c) : cluster.deltas[j].delta = addr_clusters[c].deltas[j].delta
        BY <1>5, <1>7, <1>9
      <3>2. AddrIn(cluster, p[2]) = ItemAddr(c, p[2])
        BY <1>0, <1>1, <1>2, <2>1, <2>4, <3>1, SameDistances
      <3> QED
        BY <1>10, <2>2, <2>4, <3>2 DEF At
    <2> QED
      BY <2>3, <2>4
  <1>14. ASSUME NEW p \in Positions, p # q PROVE Stored(p)' = Stored(p)
    <2>1. p = <<p[1], p[2]>> /\ p[1] \in Clusters /\ p[2] \in Items(p[1])
      BY PositionIs
    <2>2. p[1] # c \/ p[2] # i
      BY <1>a, <1>14, <2>1
    <2> QED
      BY <1>7, <1>9, <1>10, <2>1, <2>2 DEF Stored, new
  <1>15. Stored(q)' = w
    <2>1. Stored(q)' = new[c].deltas[i]
      BY <1>a DEF Stored, new
    <2> QED
      BY <1>7, <1>9, <1>10, <2>1
  <1>16. w = Written(Stored(q)) /\ CountLocation(w)
    BY <1>0, <1>2, <1>4 DEF item
  <1>17. Ordered => Ordered'
    BY <1>12, <1>13 DEF Ordered
  <1> QED
    BY <1>0, <1>2, <1>12, <1>13, <1>14, <1>15, <1>16, <1>17, <1>a

\* An address was added behind all others, with an item of its own.
Added(a, n) ==
  \E q :
    /\ q \notin Positions /\ Positions' = Positions \cup {q}
    /\ \A p \in Positions : /\ Before(p, q) /\ ~Before(q, p)
                            /\ At(p)' = At(p) /\ Stored(p)' = Stored(p) /\ At(p) < a
    /\ At(q)' = a /\ ~Before(q, q)
    /\ Stored(q)'.payload = n /\ Stored(q)'.nid = NoNid

\* A whole distance in pages is one in bytes.
LEMMA Distances ==
  ASSUME NEW s \in Nat, NEW d \in Nat
  PROVE  (s + d) * PageSize = s * PageSize + d * PageSize
  BY SizesAssumption

\* The last item has the highest address.
LEMMA LastAddr ==
  ASSUME IInv, Ordered, nr_walks = 1, phase = "walk", addr_clusters # <<>>
  PROVE  LET c == Len(addr_clusters)
             n == Len(addr_clusters[c].deltas) IN
         /\ c \in Clusters /\ n \in Items(c) /\ ItemAddr(c, n) = last_cluster_end
         /\ \A p \in Positions : At(p) <= last_cluster_end
  <1> DEFINE c == Len(addr_clusters)
             n == Len(addr_clusters[c].deltas)
  <1>0. addr_clusters \in Seq(ClusterType) /\ Summed /\ ItemsInBuffers
    BY DEF IInv, TypeOK, Packed
  <1>1. c \in Clusters
    BY <1>0 DEF Clusters
  <1>2. Items(c) = 1 .. n /\ n \in Nat /\ addr_clusters[c].deltas # <<>>
    BY <1>0, <1>1, PositionNumbers DEF ItemsInBuffers
  <1>3. n \in Items(c)
    <2>1. addr_clusters[c].deltas \in Seq(ItemType)
      BY <1>0, <1>1, ClusterFacts
    <2>2. n # 0
      BY <1>2, <2>1
    <2> QED
      BY <1>2, <2>2
  <1>4. PICK f : Sums(f) /\ (Appending => EndsAt(f, last_cluster_end))
    BY <1>0 DEF Summed
  <1>5. addr_clusters[c].start + f[c][n] * PageSize = last_cluster_end
    BY <1>4 DEF Appending, EndsAt
  <1> HIDE DEF c, n
  <1>6. ItemAddr(c, n) = last_cluster_end
    BY <1>0, <1>1, <1>3, <1>4, <1>5, AtSums
  <1>7. ASSUME NEW p \in Positions PROVE At(p) <= last_cluster_end
    <2> DEFINE q == <<c, n>>
    <2>1. q \in Positions
      BY <1>1, <1>3, PositionIs
    <2>2. At(q) = last_cluster_end
      BY <1>6 DEF At
    <2>3. ~Before(q, p)
      <3>1. q[1] = c /\ q[2] = n
        OBVIOUS
      <3>2. p[1] \in Clusters /\ p[2] \in Items(p[1]) /\ p[1] \in Nat /\ p[2] \in Nat
            /\ p[1] <= c
        BY <1>0, PositionIs, PositionNumbers DEF c
      <3>3. p[1] = c => p[2] <= n
        BY <1>2, <3>2
      <3>4. c \in Nat
        BY <1>0, PositionNumbers DEF c
      <3> QED
        BY <1>2, <3>1, <3>2, <3>3, <3>4 DEF Before
    <2> HIDE DEF q
    <2>4. (Before(q, p) <=> At(q) < At(p)) /\ At(q) \in Nat /\ At(p) \in Nat
      BY <1>0, <2>1, OrderFacts
    <2> QED
      BY <2>2, <2>3, <2>4
  <1> QED
    BY <1>1, <1>3, <1>6, <1>7 DEF c, n

\* save_into_cluster(): the address is that of the last item and the distance to it.
LEMMA MergeAdds ==
  ASSUME IInv, Ordered, phase = "walk", nr_walks = 1, NEW a \in Addrs, NEW n, MergeIntoCluster(a, n)
  PROVE  Added(a, n)
  <1>0. /\ addr_clusters \in Seq(ClusterType) /\ Summed /\ addr_clusters # <<>>
        /\ a > last_cluster_end /\ (a - last_cluster_end) % PageSize = 0
    BY DEF IInv, TypeOK, MergeIntoCluster, Appendable, CanMergeIntoCluster
  <1> DEFINE d == (a - last_cluster_end) \div PageSize
             old == addr_clusters[Len(addr_clusters)].deltas
             m0 == Len(addr_clusters[Len(addr_clusters)].deltas)
             new == addr_clusters'
             item == NewItem(d, n)
             deltas == Append(old, item)
             cluster == [addr_clusters[Len(addr_clusters)] EXCEPT !.deltas = deltas]
  <1>1. PICK c, m : c = Len(addr_clusters) /\ m = m0
    OBVIOUS
  <1>2. /\ c \in Clusters /\ m \in Items(c) /\ ItemAddr(c, m) = last_cluster_end
        /\ \A p \in Positions : At(p) <= last_cluster_end
    BY <1>0, <1>1, LastAddr
  <1>3. /\ addr_clusters[c] \in ClusterType /\ old \in Seq(ItemType) /\ Items(c) = 1 .. m /\ m \in Nat
    BY <1>0, <1>1, <1>2, ClusterFacts
  <1>4. d \in Nat /\ d * PageSize = a - last_cluster_end
    <2>1. a - last_cluster_end \in Nat
      <3>1. a \in Nat /\ last_cluster_end \in Nat
        BY ValuesAssumption DEF IInv, TypeOK
      <3> QED
        BY <1>0, <3>1
    <2> QED
      BY <1>0, <2>1, WholePages
  <1>5. new = [addr_clusters EXCEPT ![c] = cluster]
    BY <1>1 DEF MergeIntoCluster
  <1>6. item.delta = d /\ item.payload = n /\ item.nid = NoNid
    BY DEF NewItem
  <1> HIDE DEF item, d, m0
  <1>7. /\ DOMAIN deltas = 1 .. m + 1 /\ deltas[m + 1] = item
        /\ \A j \in 1 .. m : deltas[j] = old[j]
    BY <1>1, <1>3 DEF m0
  <1>8. cluster.deltas = deltas /\ cluster.start = addr_clusters[c].start
    <2> HIDE DEF deltas
    <2> QED
      BY <1>1, <1>3 DEF ClusterType
  <1> HIDE DEF cluster, deltas, new
  <1>9. /\ DOMAIN new = Clusters /\ new[c] = cluster
        /\ \A e \in Clusters : e # c => new[e] = addr_clusters[e]
    BY <1>0, <1>2, <1>5 DEF Clusters
  <1>10. PICK q : q = <<c, m + 1>>
    OBVIOUS
  <1>11. Clusters' = Clusters /\ Items(c)' = 1 .. m + 1 /\ \A e \in Clusters : e # c => Items(e)' = Items(e)
    BY <1>7, <1>8, <1>9 DEF Clusters, Items, new
  <1>12. q \notin Positions /\ Positions' = Positions \cup {q}
    <2>1. q \notin Positions
      BY <1>3, <1>10 DEF Positions
    <2>2. 1 .. m + 1 = Items(c) \cup {m + 1}
      BY <1>3
    <2>3. \A e \in Clusters : {e} \X Items(e)' = ({e} \X Items(e)) \cup (IF e = c THEN {q} ELSE {})
      <3>1. ASSUME NEW e \in Clusters, e # c PROVE Items(e)' = Items(e)
        BY <1>11, <3>1
      <3>2. {c} \X (Items(c) \cup {m + 1}) = ({c} \X Items(c)) \cup {q}
        BY <1>10
      <3> QED
        BY <1>11, <2>2, <3>1, <3>2
    <2>4. Positions' = UNION {{e} \X Items(e)' : e \in Clusters}
      BY <1>11 DEF Positions
    <2> QED
      BY <1>2, <2>1, <2>3, <2>4 DEF Positions
  <1>13. ASSUME NEW p \in Positions
         PROVE  Before(p, q) /\ ~Before(q, p) /\ At(p)' = At(p) /\ Stored(p)' = Stored(p) /\ At(p) < a
    <2>1. /\ p[1] \in Clusters /\ p[2] \in Items(p[1]) /\ p[1] \in Nat /\ p[2] \in Nat
          /\ p[1] <= c /\ c \in Nat
      BY <1>0, <1>1, PositionIs, PositionNumbers
    <2>2. q[1] = c /\ q[2] = m + 1 /\ (p[1] = c => p[2] <= m)
      BY <1>3, <1>10, <2>1
    <2>3. Before(p, q) /\ ~Before(q, p)
      BY <1>3, <2>1, <2>2 DEF Before
    <2>4. At(p)' = AddrIn(new[p[1]], p[2]) /\ At(p) = AddrIn(addr_clusters[p[1]], p[2])
      BY AtIs, AtIsNext DEF new
    <2>5. At(p)' = At(p)
      <3>1. CASE p[1] # c
        BY <1>9, <2>1, <2>4, <3>1
      <3>2. CASE p[1] = c
        <4>1. \A j \in Items(c) : cluster.deltas[j].delta = addr_clusters[c].deltas[j].delta
          BY <1>1, <1>3, <1>7, <1>8
        <4>2. PICK f : Sums(f)
          BY <1>0 DEF Summed
        <4>3. AddrIn(cluster, p[2]) = ItemAddr(c, p[2])
          BY <1>0, <1>2, <1>8, <2>1, <3>2, <4>1, <4>2, SameDistances
        <4> QED
          BY <1>9, <2>4, <3>2, <4>3 DEF At
      <3> QED
        BY <3>1, <3>2
    <2>6. Stored(p)' = Stored(p)
      BY <1>1, <1>3, <1>7, <1>8, <1>9, <2>1 DEF Stored, new
    <2>7. At(p) < a
      <3>1. At(p) \in Nat /\ a \in Nat /\ last_cluster_end \in Nat
        BY <1>0, PositionFacts, ValuesAssumption DEF IInv, TypeOK
      <3> QED
        BY <1>0, <1>2, <3>1
    <2> QED
      BY <2>3, <2>5, <2>6, <2>7
  <1>14. At(q)' = a
    <2>1. PICK f : Sums(f)
      BY <1>0 DEF Summed
    <2> DEFINE s == f[c]
               g == [j \in 0 .. m + 1 |-> IF j <= m THEN s[j] ELSE s[m] + d]
    <2>2. /\ PartialSums(s, addr_clusters[c].deltas)
          /\ ItemAddr(c, m) = addr_clusters[c].start + s[m] * PageSize
      BY <1>0, <1>2, <2>1, AtSums DEF Sums
    <2>3. /\ s[0] = 0 /\ s[m] \in Nat
          /\ \A j \in 1 .. m : s[j] = s[j - 1] + addr_clusters[c].deltas[j].delta
      <3>1. Len(addr_clusters[c].deltas) = m /\ DOMAIN addr_clusters[c].deltas = 1 .. m
        BY <1>1, <1>3 DEF m0, Items
      <3> HIDE DEF s
      <3> QED
        BY <1>3, <2>2, <3>1 DEF PartialSums
    <2> HIDE DEF s
    <2>4. g[0] = 0 /\ \A j \in 1 .. m + 1 : g[j] = g[j - 1] + cluster.deltas[j].delta
      <3>0. g[0] = 0
        BY <1>3, <2>3
      <3>1. SUFFICES ASSUME NEW j \in 1 .. m + 1 PROVE g[j] = g[j - 1] + cluster.deltas[j].delta
        BY <3>0
      <3>2. CASE j = m + 1
        BY <1>3, <1>6, <1>7, <1>8, <3>2
      <3>3. CASE j # m + 1
        <4>1. j \in 1 .. m
          BY <1>3, <3>3
        <4>2. cluster.deltas[j] = addr_clusters[c].deltas[j]
          BY <1>1, <1>7, <1>8, <4>1
        <4>3. g[j] = s[j] /\ g[j - 1] = s[j - 1]
          BY <1>3, <4>1
        <4>4. s[j] = s[j - 1] + addr_clusters[c].deltas[j].delta
          BY <2>3, <4>1
        <4> QED
          BY <4>2, <4>3, <4>4
      <3> QED
        BY <3>2, <3>3
    <2>5. g[m + 1] = s[m] + d /\ m + 1 \in Nat
      BY <1>3
    <2> HIDE DEF g
    <2>6. AddrIn(cluster, m + 1) = cluster.start + g[m + 1] * PageSize
      BY <2>4, <2>5, AddrInIs
    <2>7. (s[m] + d) * PageSize = s[m] * PageSize + d * PageSize
      BY <1>4, <2>3, Distances
    <2>8. AddrIn(cluster, m + 1) = addr_clusters[c].start + (s[m] * PageSize + d * PageSize)
      BY <1>8, <2>5, <2>6, <2>7
    <2>9. addr_clusters[c].start \in Nat /\ s[m] * PageSize \in Nat /\ d * PageSize \in Nat
      BY <1>0, <1>2, <1>4, <2>3, ClusterFacts, SizesAssumption
    <2>10. a \in Nat /\ last_cluster_end \in Nat
      BY ValuesAssumption DEF IInv, TypeOK
    <2>11. AddrIn(cluster, m + 1) = a
      <3> DEFINE x == s[m] * PageSize
                 y == d * PageSize
      <3>1. AddrIn(cluster, m + 1) = addr_clusters[c].start + (x + y)
        BY <2>8
      <3>2. x \in Nat /\ y \in Nat /\ y = a - last_cluster_end /\ last_cluster_end = addr_clusters[c].start + x
        BY <1>2, <1>4, <2>2, <2>9
      <3> HIDE DEF x, y
      <3> QED
        BY <2>9, <2>10, <3>1, <3>2
    <2>12. q[1] = c /\ q[2] = m + 1
      BY <1>10
    <2> QED
      BY <1>9, <2>11, <2>12, AtIsNext DEF new
  <1>15. Stored(q)' = item
    <2>1. q[1] = c /\ q[2] = m + 1
      BY <1>10
    <2>2. Stored(q)' = new[c].deltas[m + 1]
      BY <2>1 DEF Stored, new
    <2> QED
      BY <1>7, <1>8, <1>9, <2>2
  <1>16. ~Before(q, q)
    BY <1>1, <1>3, <1>0, <1>10, PositionNumbers DEF Before
  <1> QED
    BY <1>6, <1>12, <1>13, <1>14, <1>15, <1>16 DEF Added

\* create_cluster(): the address is the start of a cluster of one item.
LEMMA CreateAdds ==
  ASSUME IInv, Ordered, phase = "walk", nr_walks = 1, NEW a \in Addrs, NEW n, CreateCluster(a, n)
  PROVE  Added(a, n) /\ find_iter'.end = Len(addr_clusters')
  <1>0. /\ addr_clusters \in Seq(ClusterType) /\ Summed
        /\ addr_clusters # <<>> => a > last_cluster_end
    BY DEF IInv, TypeOK, CreateCluster, NeedsCluster, Appendable
  <1> DEFINE item == NewItem(0, n)
             new == addr_clusters'
  <1>1. PICK c : c = Len(addr_clusters) + 1
    OBVIOUS
  <1>2. PICK k : new = Append(addr_clusters, k) /\ k.start = a /\ k.deltas = <<item>>
    BY DEF CreateCluster
  <1>3. item.delta = 0 /\ item.payload = n /\ item.nid = NoNid
    BY DEF NewItem
  <1> HIDE DEF item, new
  <1>4. Clusters = 1 .. c - 1 /\ c - 1 \in Nat /\ c \in Nat
    BY <1>0, <1>1, PositionNumbers
  <1>5. /\ DOMAIN new = 1 .. c /\ new[c] = k
        /\ \A e \in Clusters : new[e] = addr_clusters[e]
    BY <1>0, <1>1, <1>2, <1>4
  <1>6. DOMAIN k.deltas = {1} /\ k.deltas[1] = item
    BY <1>2
  <1>7. PICK q : q = <<c, 1>>
    OBVIOUS
  <1>8. Clusters' = Clusters \cup {c} /\ Items(c)' = {1} /\ \A e \in Clusters : Items(e)' = Items(e)
    BY <1>4, <1>5, <1>6 DEF Clusters, Items, new
  <1>9. q \notin Positions /\ Positions' = Positions \cup {q}
    <2>1. q \notin Positions
      BY <1>4, <1>7 DEF Positions
    <2>2. {c} \X {1} = {q}
      BY <1>7
    <2>3. Positions' = UNION {{e} \X Items(e)' : e \in Clusters \cup {c}}
      BY <1>8 DEF Positions
    <2>4. ASSUME NEW x PROVE x \in Positions' <=> x \in Positions \/ x = q
      <3>1. x \in Positions' <=> \E e \in Clusters \cup {c} : x \in {e} \X Items(e)'
        BY <2>3
      <3>2. x \in Positions <=> \E e \in Clusters : x \in {e} \X Items(e)
        BY DEF Positions
      <3>3. x \in {c} \X Items(c)' <=> x = q
        BY <1>8, <2>2
      <3>4. \A e \in Clusters : x \in {e} \X Items(e)' <=> x \in {e} \X Items(e)
        BY <1>8
      <3> QED
        BY <3>1, <3>2, <3>3, <3>4, Zenon
    <2> QED
      BY <2>1, <2>4
  <1>10. ASSUME NEW p \in Positions
         PROVE  Before(p, q) /\ ~Before(q, p) /\ At(p)' = At(p) /\ Stored(p)' = Stored(p) /\ At(p) < a
    <2>1. p[1] \in Clusters /\ p[2] \in Items(p[1]) /\ p[1] \in Nat /\ p[2] \in Nat /\ p[1] < c
      BY <1>0, <1>1, <1>4, PositionIs, PositionNumbers
    <2>2. q[1] = c /\ q[2] = 1
      BY <1>7
    <2>3. Before(p, q) /\ ~Before(q, p)
      BY <1>4, <2>1, <2>2 DEF Before
    <2>4. At(p)' = AddrIn(new[p[1]], p[2]) /\ At(p) = AddrIn(addr_clusters[p[1]], p[2])
      BY AtIs, AtIsNext DEF new
    <2>5. At(p)' = At(p) /\ Stored(p)' = Stored(p)
      BY <1>5, <2>1, <2>4 DEF Stored, new
    <2>6. addr_clusters # <<>>
      BY <2>1 DEF Clusters
    <2>7. At(p) <= last_cluster_end
      BY <2>6, LastAddr
    <2>8. At(p) \in Nat
      BY <1>0, PositionFacts
    <2>9. a \in Nat /\ last_cluster_end \in Nat
      BY ValuesAssumption DEF IInv, TypeOK
    <2> QED
      BY <1>0, <2>3, <2>5, <2>6, <2>7, <2>8, <2>9
  <1>11. At(q)' = a
    <2> DEFINE s == [j \in 0 .. 1 |-> 0]
    <2>1. s[0] = 0 /\ s[1] = 0 /\ \A j \in 1 .. 1 : s[j] = s[j - 1] + k.deltas[j].delta
      BY <1>3, <1>6
    <2>2. 1 \in Nat
      OBVIOUS
    <2> HIDE DEF s
    <2>3. AddrIn(k, 1) = k.start + s[1] * PageSize
      BY <2>1, <2>2, AddrInIs
    <2>4. AddrIn(k, 1) = a
      BY <1>2, <2>1, <2>3, SizesAssumption, ValuesAssumption
    <2>5. q[1] = c /\ q[2] = 1
      BY <1>7
    <2> QED
      BY <1>5, <2>4, <2>5, AtIsNext DEF new
  <1>12. Stored(q)' = item
    <2>1. q[1] = c /\ q[2] = 1
      BY <1>7
    <2> QED
      BY <1>5, <1>6, <2>1 DEF Stored, new
  <1>13. ~Before(q, q)
    BY <1>4, <1>7 DEF Before
  <1>14. find_iter'.end = Len(addr_clusters')
    BY DEF CreateCluster, ResetIterator
  <1> QED
    BY <1>3, <1>9, <1>10, <1>11, <1>12, <1>13, <1>14 DEF Added

-----------------------------------------------------------------------------
(* Where searches, batches and reads are.                                  *)

FirstWalk == phase = "walk" /\ nr_walks = 1

Reading == phase \in {"locate", "report", "normalize", "drift"}

Counted == IsFiniteSet(Positions) /\ addr_size = Cardinality(Positions)

\* All that the search passed lies below a.
SearchPast(a) == \A p \in Positions : Behind(p, find_iter) => At(p) < a

\* The table is complete after the first walk, and reads and searches are where it ends.
Places ==
  /\ Ordered /\ Counted
  /\ ~FirstWalk => find_iter.end = Len(addr_clusters)
  /\ Reading => ReadTo

\* An address waits in the batch, was read but not taken yet, or has not been read.
Waiting(x) == \E j \in DOMAIN addr_set : addr_set[j] = x
Pending(p) == filling /\ got # EndOfSequence /\ At(p) = got.addr
Due(p)     == Waiting(At(p)) \/ Pending(p) \/ ~WasRead(p)
Asked(p)   == call # None /\ At(p) = call.addr

\* No search has passed what it is asked for; the callers ask for what they read.
Calls ==
  call # None =>
    /\ SearchPast(call.addr)
    /\ phase \in {"walk", "locate", "normalize"}
    /\ phase = "walk" => call.op = "inc" /\ nr_walks > 1 /\ call.addr = last_addr
    /\ phase = "locate" =>
         /\ call.op = "nid" /\ nr_walks = 1 /\ ~filling
         /\ \E p \in Positions : At(p) = call.addr
         /\ \A x \in Addrs : Waiting(x) => call.addr < x
         /\ got # EndOfSequence => call.addr <= got.addr
    /\ phase = "normalize" =>
         call.op = "set" /\ nr_walks > 1 /\ ~filling /\ got # EndOfSequence /\ call.addr = got.addr

\* No search has passed what may be asked for next.
Walks == phase = "walk" /\ nr_walks > 1 => SearchPast(last_addr)

Sorted == \A i, j \in DOMAIN addr_set : i < j => addr_set[i] < addr_set[j]

Locates ==
  phase = "locate" =>
    /\ Sorted
    /\ \A x \in Addrs : Waiting(x) =>
         /\ \E p \in Positions : At(p) = x
         /\ got # EndOfSequence => x <= got.addr /\ (filling => x < got.addr)
    /\ \A p \in Positions : Due(p) => SearchPast(At(p))

\* What was read and written is 0 or 1.
Normalizes ==
  /\ phase = "normalize" =>
       /\ got # EndOfSequence => SearchPast(got.addr)
       /\ ~filling => got # EndOfSequence
       /\ nr_walks > 1 =>
            \A p \in Positions : ~WasRead(p) \/ Pending(p) \/ Asked(p) \/ Stored(p).payload <= 1
  /\ phase = "drift" /\ nr_walks > 1 => \A p \in Positions : Stored(p).payload <= 1

\* While pages are located for the first time, those that are not located yet are due.
Located(p) == Stored(p).nid # NoNid /\ Stored(p).location = Location(Stored(p).nid)

FirstLocation == phase = "locate" /\ nr_walks = 1

Nodes ==
  /\ FirstWalk => \A p \in Positions : Stored(p).nid = NoNid
  /\ FirstLocation =>
       \A p \in Positions : /\ Due(p) \/ Asked(p) => Stored(p).nid = NoNid
                            /\ missed \/ Due(p) \/ Asked(p) \/ Located(p)
  /\ ~FirstWalk /\ ~FirstLocation => \A p \in Positions : missed \/ Located(p)

OInv == Places /\ Calls /\ Walks /\ Locates /\ Normalizes /\ Nodes

-----------------------------------------------------------------------------
(* Facts about searches.                                                   *)

\* What the search passed changes with the iterator and the clusters alone.
LEMMA SamePast ==
  ASSUME UNCHANGED <<addr_clusters, find_iter>>
  PROVE  \A a : SearchPast(a)' <=> SearchPast(a)
  BY SameTable DEF SearchPast, Behind

\* prepare_update(), rewind(): nothing was passed.
LEMMA ResetPast ==
  ASSUME IInv, UNCHANGED addr_clusters, find_iter' = ResetIterator(addr_clusters, 1)
  PROVE  (\A a : SearchPast(a)') /\ find_iter'.end = Len(addr_clusters)
  <1>1. \A p \in Positions : ~Behind(p, find_iter')
    BY ResetBehind DEF IInv, TypeOK
  <1>2. \A p \in Positions : ~Behind(p, find_iter)'
    BY <1>1 DEF Behind
  <1> QED
    BY <1>2, SameTable DEF SearchPast, ResetIterator

\* A higher address has not been passed either.
LEMMA PastHigher ==
  ASSUME IInv, NEW a \in Int, NEW b \in Int, a <= b, SearchPast(a)
  PROVE  SearchPast(b)
  <1>1. \A p \in Positions : At(p) \in Nat
    BY PositionFacts DEF IInv, TypeOK
  <1> QED
    BY <1>1 DEF SearchPast

\* A search that finds an end or a higher address has no entry for what it was asked.
LEMMA NothingMissed ==
  ASSUME IInv, Places, ~FirstWalk, call # None, SearchPast(call.addr), NEW p \in Positions,
         At(p) = call.addr
  PROVE  ~(~AtEnd(find_iter) => AddrAt(find_iter) > call.addr)
  <1>0. /\ addr_clusters \in Seq(ClusterType) /\ Summed /\ Ordered
        /\ find_iter \in IterType /\ find_iter.end = Len(addr_clusters)
    BY DEF IInv, TypeOK, Places
  <1>1. PICK f : Sums(f) /\ Good(find_iter, f)
    BY <1>0 DEF Summed
  <1>2. ~Behind(p, find_iter) /\ At(p) \in Nat
    BY <1>0, PositionFacts DEF SearchPast
  <1>3. PICK it : it = find_iter
    OBVIOUS
  <1>4. InPlace(it) /\ Good(it, f)
    BY <1>0, <1>1, <1>3 DEF Good, InPlace
  <1>5. ~AtEnd(it)
    BY <1>0, <1>2, <1>3, <1>4, AtEndBehind
  <1>6. <<it.cluster, it.index>> \in Positions /\ AddrAt(it) = At(<<it.cluster, it.index>>)
    BY <1>0, <1>1, <1>4, <1>5, IteratorAddr
  <1>7. PICK q \in Positions : q = <<it.cluster, it.index>>
    BY <1>6
  <1>8. (Before(p, q) <=> At(p) < At(q)) /\ At(q) \in Nat
    BY <1>0, OrderFacts
  <1> QED
    BY <1>2, <1>3, <1>5, <1>6, <1>7, <1>8 DEF Behind

\* One turn of the search passes one address.
LEMMA SeekNextPast ==
  ASSUME IInv, Places, ~FirstWalk, SeekNext, SearchPast(call.addr)
  PROVE  SearchPast(call.addr)' /\ find_iter'.end = find_iter.end
  <1>0. /\ addr_clusters \in Seq(ClusterType) /\ Summed /\ Ordered
        /\ find_iter \in IterType /\ find_iter.end = Len(addr_clusters)
        /\ ~AtEnd(find_iter) /\ AddrAt(find_iter) < call.addr /\ UNCHANGED <<addr_clusters, call>>
    BY DEF IInv, TypeOK, Places, SeekNext, seqVars
  <1>1. PICK f : Sums(f) /\ Good(find_iter, f)
    BY <1>0 DEF Summed
  <1>2. PICK it, nx : it = find_iter /\ nx = MoveNext(it)
    OBVIOUS
  <1>3. InPlace(it) /\ Good(it, f) /\ ~AtEnd(it) /\ find_iter' = nx
    BY <1>0, <1>1, <1>2 DEF Good, InPlace, SeekNext
  <1>4. <<it.cluster, it.index>> \in Positions /\ AddrAt(it) = At(<<it.cluster, it.index>>)
    BY <1>0, <1>1, <1>3, IteratorAddr
  <1>5. it \in IterType /\ it.cluster \in Clusters /\ it.index \in Items(it.cluster)
    BY <1>0, <1>3, OnPosition
  <1>6. \A p \in Positions : /\ nx.end = it.end
                             /\ Behind(p, nx) <=> Behind(p, it) \/ p = <<it.cluster, it.index>>
    BY <1>0, <1>2, <1>5, MoveNextBehind
  <1>7. \A p \in Positions : Behind(p, nx) => At(p) < call.addr
    BY <1>0, <1>2, <1>4, <1>6 DEF SearchPast
  <1>8. SearchPast(call.addr)'
    BY <1>0, <1>3, <1>7, SameTable DEF SearchPast, Behind
  <1> QED
    BY <1>2, <1>3, <1>4, <1>6, <1>8

\* It holds after the step as well.
LEMMA PastHigherNext ==
  ASSUME IInv, UNCHANGED addr_clusters, NEW a \in Int, NEW b \in Int, a <= b, SearchPast(a)'
  PROVE  SearchPast(b)'
  <1>1. \A p \in Positions : At(p) \in Nat
    BY PositionFacts DEF IInv, TypeOK
  <1>2. Positions' = Positions /\ \A p : At(p)' = At(p)
    BY SameTable
  <1> QED
    BY <1>1, <1>2 DEF SearchPast

\* A step that leaves the clusters and their size alone.
LEMMA SameOrder ==
  ASSUME Places, UNCHANGED <<addr_clusters, addr_size>>
  PROVE  /\ Ordered' /\ Counted'
         /\ Positions' = Positions
         /\ \A p : At(p)' = At(p) /\ Stored(p)' = Stored(p) /\ (Located(p)' <=> Located(p))
  BY SameTable DEF Places, Counted, Located

\* What get_first() and get_next() leave of the read.
LEMMA ReadToNext ==
  ASSUME UNCHANGED addr_clusters,
         got' # EndOfSequence =>
           /\ InPlace(walk_iter')
           /\ \E p \in Positions : At(p) = got'.addr
           /\ \A p \in Positions : Behind(p, walk_iter') <=> At(p) <= got'.addr
  PROVE  ReadTo'
  <1>1. Positions' = Positions /\ \A p : At(p)' = At(p)
    BY SameTable
  <1>2. InPlace(walk_iter)' <=> InPlace(walk_iter')
    BY DEF InPlace, InBounds, Items
  <1>3. \A p : Behind(p, walk_iter)' <=> Behind(p, walk_iter')
    BY DEF Behind
  <1> QED
    BY <1>1, <1>2, <1>3 DEF ReadTo

\* A read that does not move stays where it is.
LEMMA SameRead ==
  ASSUME ReadTo, UNCHANGED <<addr_clusters, walk_iter, got>>
  PROVE  ReadTo'
  BY ReadToNext DEF ReadTo

-----------------------------------------------------------------------------
(* Facts about batches.                                                    *)

\* addr_set.push_back()
LEMMA AppendWaits ==
  ASSUME addr_set \in Seq(Addrs), NEW a \in Addrs, addr_set' = Append(addr_set, a)
  PROVE  /\ \A x : Waiting(x)' <=> Waiting(x) \/ x = a
         /\ Sorted /\ (\A x \in Addrs : Waiting(x) => x < a) => Sorted'
  <1> DEFINE n == Len(addr_set)
  <1>1. /\ DOMAIN addr_set = 1 .. n /\ n \in Nat /\ DOMAIN addr_set' = 1 .. n + 1
        /\ \A j \in 1 .. n : addr_set[j] \in Addrs /\ addr_set'[j] = addr_set[j]
        /\ addr_set'[n + 1] = a
    OBVIOUS
  <1> HIDE DEF n
  <1>2. ASSUME NEW x PROVE Waiting(x)' <=> Waiting(x) \/ x = a
    <2>1. Waiting(x)' <=> \E j \in 1 .. n + 1 : addr_set'[j] = x
      BY <1>1 DEF Waiting
    <2>2. Waiting(x) <=> \E j \in 1 .. n : addr_set[j] = x
      BY <1>1 DEF Waiting
    <2>3. 1 .. n + 1 = (1 .. n) \cup {n + 1}
      BY <1>1
    <2> QED
      BY <1>1, <2>1, <2>2, <2>3
  <1>3. ASSUME Sorted, \A x \in Addrs : Waiting(x) => x < a PROVE Sorted'
    <2>1. SUFFICES ASSUME NEW i \in 1 .. n + 1, NEW j \in 1 .. n + 1, i < j
                   PROVE  addr_set'[i] < addr_set'[j]
      BY <1>1 DEF Sorted
    <2>2. i \in 1 .. n
      BY <1>1, <2>1
    <2>3. CASE j = n + 1
      BY <1>1, <1>3, <2>2, <2>3 DEF Waiting
    <2>4. CASE j # n + 1
      <3>1. j \in 1 .. n
        BY <1>1, <2>4
      <3> QED
        BY <1>1, <1>3, <2>1, <2>2, <3>1 DEF Sorted
    <2> QED
      BY <2>3, <2>4
  <1> QED
    BY <1>2, <1>3

\* The first address of the batch is taken.
LEMMA TailWaits ==
  ASSUME addr_set \in Seq(Addrs), addr_set # <<>>, addr_set' = Tail(addr_set), NEW h, h = Head(addr_set)
  PROVE  /\ h \in Addrs /\ Waiting(h)
         /\ \A x : Waiting(x) <=> Waiting(x)' \/ x = h
         /\ Sorted => Sorted' /\ \A x : Waiting(x)' => h < x
  <1> DEFINE n == Len(addr_set)
  <1>1. /\ DOMAIN addr_set = 1 .. n /\ n \in Nat \ {0} /\ DOMAIN addr_set' = 1 .. n - 1
        /\ \A j \in 1 .. n - 1 : addr_set'[j] = addr_set[j + 1]
        /\ h = addr_set[1]
    OBVIOUS
  <1>2. h \in Addrs
    BY <1>1
  <1> HIDE DEF n
  <1>3. ASSUME NEW x PROVE Waiting(x) <=> Waiting(x)' \/ x = h
    <2>1. Waiting(x)' <=> \E j \in 1 .. n - 1 : addr_set[j + 1] = x
      BY <1>1 DEF Waiting
    <2>2. Waiting(x) <=> \E j \in 1 .. n : addr_set[j] = x
      BY <1>1 DEF Waiting
    <2>3. ASSUME NEW j \in 1 .. n, addr_set[j] = x PROVE Waiting(x)' \/ x = h
      <3>1. CASE j = 1
        BY <1>1, <2>3, <3>1
      <3>2. CASE j # 1
        <4>1. j - 1 \in 1 .. n - 1 /\ (j - 1) + 1 = j
          BY <1>1, <3>2
        <4> QED
          BY <2>1, <2>3, <4>1
      <3> QED
        BY <3>1, <3>2
    <2>4. \A j \in 1 .. n - 1 : j + 1 \in 1 .. n
      BY <1>1
    <2>5. 1 \in 1 .. n
      BY <1>1
    <2> QED
      BY <1>1, <2>1, <2>2, <2>3, <2>4, <2>5
  <1>4. ASSUME Sorted PROVE Sorted' /\ \A x : Waiting(x)' => h < x
    <2>1. \A j \in 1 .. n - 1 : j + 1 \in 1 .. n /\ 1 < j + 1 /\ 1 \in 1 .. n
      BY <1>1
    <2>2. \A j \in 1 .. n - 1 : addr_set[1] < addr_set[j + 1]
      BY <1>1, <1>4, <2>1 DEF Sorted
    <2>3. ASSUME NEW i \in 1 .. n - 1, NEW j \in 1 .. n - 1, i < j PROVE addr_set'[i] < addr_set'[j]
      <3>1. i + 1 < j + 1 /\ i + 1 \in 1 .. n /\ j + 1 \in 1 .. n
        BY <1>1, <2>3
      <3>2. addr_set[i + 1] < addr_set[j + 1]
        BY <1>1, <1>4, <3>1 DEF Sorted
      <3> QED
        BY <1>1, <3>2
    <2>4. Sorted'
      BY <1>1, <2>3 DEF Sorted
    <2>5. \A x : Waiting(x)' => h < x
      BY <1>1, <2>2 DEF Waiting
    <2> QED
      BY <2>4, <2>5
  <1> QED
    BY <1>2, <1>3, <1>4

\* An address that is read next was not read before, and nothing between is left out.
LEMMA DueNext ==
  ASSUME IInv, Places, Reading, got # EndOfSequence, GetNext, UNCHANGED addr_clusters, NEW p \in Positions
  PROVE  /\ ~WasRead(p) <=> (~WasRead(p)' \/ (got' # EndOfSequence /\ At(p) = got'.addr))
         /\ got' # EndOfSequence => got.addr < got'.addr
         /\ ReadTo'
  <1>0. addr_clusters \in Seq(ClusterType) /\ ItemsInBuffers /\ Summed /\ Ordered /\ ReadTo
    BY DEF IInv, TypeOK, Packed, Places
  <1>1. /\ got' = EndOfSequence => \A q \in Positions : At(q) <= got.addr
        /\ got' # EndOfSequence =>
              /\ InPlace(walk_iter')
              /\ \E q \in Positions : At(q) > got.addr /\ At(q) = got'.addr
              /\ \A q \in Positions : Behind(q, walk_iter') <=> At(q) <= got'.addr
              /\ \A q \in Positions : At(q) < got'.addr => At(q) <= got.addr
    BY <1>0, GetNextReads
  <1>2. \A q \in Positions : At(q) \in Nat
    BY <1>0, PositionFacts
  <1>3. got.addr \in Nat
    BY <1>0, <1>2 DEF ReadTo
  <1>4. At(p)' = At(p)
    BY SameTable
  <1>5. ReadTo'
    BY <1>1, ReadToNext
  <1> QED
    BY <1>1, <1>2, <1>3, <1>4, <1>5 DEF WasRead

-----------------------------------------------------------------------------
(* The steps of the callers.                                               *)

\* ProcIdlePages::walk(): rewind().
LEMMA BeginWalkOrder ==
  ASSUME IInv, OInv, BeginWalk
  PROVE  OInv'
  <1>0. /\ UNCHANGED <<addr_clusters, addr_size, call, got>> /\ phase = "rest" /\ phase' = "walk"
        /\ nr_walks' = nr_walks + 1 /\ nr_walks \in Nat /\ UNCHANGED missed
        /\ find_iter' = ResetIterator(addr_clusters, 1)
    BY DEF BeginWalk, seqVars, IInv, TypeOK
  <1>1. call = None
    BY <1>0 DEF OInv, Calls
  <1>2. /\ Ordered' /\ Counted' /\ Positions' = Positions
        /\ \A p : Stored(p)' = Stored(p) /\ (Located(p)' <=> Located(p))
    BY <1>0, SameOrder DEF OInv
  <1>3. (\A a : SearchPast(a)') /\ find_iter'.end = Len(addr_clusters)
    BY <1>0, ResetPast
  <1>4. Places'
    BY <1>0, <1>2, <1>3 DEF Places, Reading
  <1>5. Walks' /\ Calls' /\ Locates' /\ Normalizes'
    BY <1>0, <1>1, <1>3 DEF Walks, Calls, Locates, Normalizes
  <1>6. FirstWalk' => Positions = {}
    BY <1>0 DEF FirstWalk, IInv, Positions, Clusters
  <1>7. Nodes'
    BY <1>0, <1>2, <1>6 DEF Nodes, FirstWalk, FirstLocation, OInv
  <1> QED
    BY <1>4, <1>5, <1>7 DEF OInv

\* The walk is over.
LEMMA EndWalkOrder ==
  ASSUME IInv, OInv, EndWalk
  PROVE  OInv'
  <1>0. /\ UNCHANGED <<addr_clusters, addr_size, call, got, nr_walks, find_iter, missed>>
        /\ phase = "walk" /\ phase' = "rest" /\ call = None /\ nr_walks > 1 /\ nr_walks \in Nat
    BY DEF EndWalk, seqVars, IInv, TypeOK
  <1>2. /\ Ordered' /\ Counted' /\ Positions' = Positions
        /\ \A p : Stored(p)' = Stored(p) /\ (Located(p)' <=> Located(p))
    BY <1>0, SameOrder DEF OInv
  <1>4. Places'
    BY <1>0, <1>2 DEF Places, Reading, OInv, FirstWalk
  <1>5. Walks' /\ Calls' /\ Locates' /\ Normalizes'
    BY <1>0 DEF Walks, Calls, Locates, Normalizes
  <1>7. Nodes'
    BY <1>0, <1>2 DEF Nodes, FirstWalk, FirstLocation, OInv
  <1> QED
    BY <1>4, <1>5, <1>7 DEF OInv

\* One more address, and one more page.
LEMMA AddedOrder ==
  ASSUME IInv, Places, NEW a \in Addrs, NEW n, Added(a, n), addr_size' = addr_size + 1
  PROVE  Ordered' /\ Counted'
  <1>0. addr_clusters \in Seq(ClusterType) /\ Summed /\ Ordered
    BY DEF IInv, TypeOK, Places
  <1>1. PICK q : /\ q \notin Positions /\ Positions' = Positions \cup {q}
                 /\ \A p \in Positions : /\ Before(p, q) /\ ~Before(q, p)
                                         /\ At(p)' = At(p) /\ At(p) < a
                 /\ At(q)' = a /\ ~Before(q, q)
    BY DEF Added
  <1>2. Counted'
    <2>1. IsFiniteSet(Positions) /\ addr_size = Cardinality(Positions)
      BY DEF Places, Counted
    <2>2. IsFiniteSet(Positions \cup {q}) /\ Cardinality(Positions \cup {q}) = Cardinality(Positions) + 1
      BY <1>1, <2>1, FS_AddElement
    <2> QED
      BY <1>1, <2>1, <2>2 DEF Counted
  <1>3. ASSUME NEW x \in Positions', NEW y \in Positions', Before(x, y)
        PROVE  At(x)' < At(y)'
    BY <1>0, <1>1, <1>3 DEF Ordered
  <1> QED
    BY <1>2, <1>3 DEF Ordered

\* append_addr(): the address is refused, or the table grows at its end.
LEMMA AppendPageRefOrder ==
  ASSUME IInv, OInv, NEW a \in Addrs, NEW n \in {0, 1}, AppendPageRef(a, n)
  PROVE  OInv'
  <1>0. /\ UNCHANGED <<call, got, nr_walks, missed, phase>> /\ addr_clusters \in Seq(ClusterType)
        /\ phase = "walk" /\ call = None /\ nr_walks \in Nat /\ nr_walks = 1
    BY DEF AppendPageRef, AppendAddr, Reported, InAppendPeriod, IInv, TypeOK
  <1>1. Calls' /\ Walks' /\ Locates' /\ Normalizes'
    BY <1>0 DEF Calls, Walks, Locates, Normalizes
  <1>2. Ordered' /\ Counted' /\ \A p \in Positions' : Stored(p)'.nid = NoNid
    <2>1. \A p \in Positions : Stored(p).nid = NoNid
      BY <1>0 DEF OInv, Nodes, FirstWalk
    <2>2. CASE RefuseDuplicate(a) \/ AllocateFails(a) \/ ClusterFails(a)
      <3>1. UNCHANGED <<addr_clusters, addr_size>>
        BY <2>2 DEF RefuseDuplicate, AllocateFails, ClusterFails, seqVars
      <3> QED
        BY <2>1, <3>1, SameOrder DEF OInv
    <2>3. CASE MergeIntoCluster(a, n) \/ CreateCluster(a, n)
      <3>1. Added(a, n)
        BY <1>0, <2>3, MergeAdds, CreateAdds DEF OInv, Places
      <3>2. addr_size' = addr_size + 1
        BY <2>3 DEF MergeIntoCluster, CreateCluster, SaveIntoCluster
      <3>3. Ordered' /\ Counted'
        BY <3>1, <3>2, AddedOrder DEF OInv
      <3> QED
        BY <2>1, <3>1, <3>3 DEF Added
    <2> QED
      BY <2>2, <2>3 DEF AppendPageRef, AppendAddr
  <1>3. Places'
    BY <1>0, <1>2 DEF Places, FirstWalk, Reading
  <1>4. Nodes'
    BY <1>0, <1>2 DEF Nodes, FirstWalk, FirstLocation
  <1> QED
    BY <1>1, <1>3, <1>4 DEF OInv

\* inc_payload() after the first walk: what is asked for is not behind the search.
LEMMA CountPageRefOrder ==
  ASSUME IInv, OInv, NEW a \in Addrs, NEW n \in {0, 1}, CountPageRef(a, n)
  PROVE  OInv'
  <1>0. /\ UNCHANGED <<addr_clusters, addr_size, got, nr_walks, find_iter, missed, phase>>
        /\ phase = "walk" /\ call = None /\ nr_walks > 1 /\ nr_walks \in Nat
        /\ call' = [op |-> "inc", addr |-> a, arg |-> n] /\ last_addr' = a /\ a >= last_addr
        /\ last_addr \in Int /\ a \in Int
    BY ValuesAssumption DEF CountPageRef, Ask, seqVars, Reported, InAppendPeriod, IInv, TypeOK
  <1>1. /\ Ordered' /\ Counted' /\ Positions' = Positions
        /\ \A p : Stored(p)' = Stored(p) /\ (Located(p)' <=> Located(p))
    BY <1>0, SameOrder DEF OInv
  <1>2. SearchPast(a)'
    <2>1. SearchPast(last_addr)
      BY <1>0 DEF OInv, Walks
    <2>2. PICK b : b = last_addr
      OBVIOUS
    <2>3. SearchPast(a)
      BY <1>0, <2>1, <2>2, PastHigher
    <2> QED
      BY <1>0, <2>3, SamePast
  <1>3. SearchPast(call.addr)' /\ SearchPast(last_addr)'
    BY <1>0, <1>2 DEF SearchPast
  <1>4. Places'
    BY <1>0, <1>1 DEF Places, Reading, OInv, FirstWalk
  <1>5. Calls'
    BY <1>0, <1>3 DEF Calls
  <1>6. Walks' /\ Locates' /\ Normalizes'
    BY <1>0, <1>3 DEF Walks, Locates, Normalizes
  <1>7. Nodes'
    BY <1>0, <1>1 DEF Nodes, FirstWalk, FirstLocation, OInv
  <1> QED
    BY <1>4, <1>5, <1>6, <1>7 DEF OInv

\* get_memory_type() starts: every page is due, and none is located if this is the first time.
LEMMA BeginLocateOrder ==
  ASSUME IInv, OInv, BeginLocate
  PROVE  OInv'
  <1>0. /\ UNCHANGED <<addr_clusters, addr_size, call, nr_walks, missed>>
        /\ phase = "walk" /\ phase' = "locate" /\ call = None
        /\ addr_set' = <<>> /\ filling' = TRUE /\ GetFirst
        /\ find_iter' = ResetIterator(addr_clusters, 1)
        /\ addr_clusters \in Seq(ClusterType) /\ ItemsInBuffers /\ Summed /\ Ordered
    BY DEF BeginLocate, PrepareUpdate, seqVars, IInv, TypeOK, Packed, OInv, Places
  <1>1. /\ Ordered' /\ Counted' /\ Positions' = Positions
        /\ \A p : At(p)' = At(p) /\ Stored(p)' = Stored(p) /\ (Located(p)' <=> Located(p))
    BY <1>0, SameOrder DEF OInv
  <1>2. (\A a : SearchPast(a)') /\ find_iter'.end = Len(addr_clusters)
    BY <1>0, ResetPast
  <1>3. /\ got' = EndOfSequence => Positions = {}
        /\ got' # EndOfSequence =>
              /\ InPlace(walk_iter')
              /\ \E p \in Positions : At(p) = got'.addr
              /\ \A p \in Positions : Behind(p, walk_iter') <=> At(p) <= got'.addr
              /\ \A p \in Positions : At(p) >= got'.addr
    BY <1>0, GetFirstReads
  <1>4. ReadTo'
    BY <1>0, <1>3, ReadToNext
  <1>5. Places'
    BY <1>0, <1>1, <1>2, <1>4 DEF Places
  <1>6. Calls' /\ Walks' /\ Normalizes'
    BY <1>0 DEF Calls, Walks, Normalizes
  <1>7. \A x : ~Waiting(x)'
    BY <1>0 DEF Waiting
  <1>8. Locates'
    BY <1>0, <1>2, <1>7 DEF Locates, Sorted
  <1>9. ASSUME NEW p \in Positions PROVE Due(p)'
    <2>1. \A q \in Positions : At(q) \in Nat
      BY <1>0, PositionFacts
    <2>2. got' # EndOfSequence /\ At(p) >= got'.addr /\ got'.addr \in Nat
      BY <1>3, <2>1
    <2> QED
      BY <1>0, <1>1, <2>1, <2>2 DEF Due, Pending, WasRead
  <1>10. Nodes'
    BY <1>0, <1>1, <1>9 DEF Nodes, FirstWalk, FirstLocation, OInv
  <1> QED
    BY <1>5, <1>6, <1>8, <1>10 DEF OInv

\* What locating leaves when the pages that are due stay due, or a batch failed.
LEMMA SameDue ==
  ASSUME IInv, OInv, phase = "locate",
         UNCHANGED <<addr_clusters, addr_size, nr_walks, find_iter, phase, call>>, call = None,
         ReadTo', Sorted',
         \A x \in Addrs : Waiting(x)' =>
           /\ \E p \in Positions : At(p) = x
           /\ got' # EndOfSequence => x <= got'.addr /\ (filling' => x < got'.addr),
         \A p \in Positions : Due(p)' => Due(p),
         missed' \/ ((missed' <=> missed) /\ \A p \in Positions : Due(p) => Due(p)')
  PROVE  OInv'
  <1>1. /\ Ordered' /\ Counted' /\ Positions' = Positions
        /\ \A p : At(p)' = At(p) /\ Stored(p)' = Stored(p) /\ (Located(p)' <=> Located(p))
    BY SameOrder DEF OInv
  <1>2. \A a : SearchPast(a)' <=> SearchPast(a)
    BY SamePast
  <1>3. Places'
    BY <1>1 DEF Places, OInv, FirstWalk, Reading
  <1>4. Calls' /\ Walks' /\ Normalizes'
    BY DEF Calls, Walks, Normalizes
  <1>5. Locates'
    <2>1. \A p \in Positions : Due(p)' => SearchPast(At(p))
      BY DEF OInv, Locates
    <2>2. ASSUME NEW p \in Positions, Due(p)' PROVE SearchPast(At(p))'
      <3>1. SearchPast(At(p))' <=> SearchPast(At(p))
        BY <1>1 DEF SearchPast, Behind
      <3> QED
        BY <2>1, <2>2, <3>1
    <2> QED
      BY <1>1, <2>2 DEF Locates
  <1>6. \A p : ~Asked(p) /\ ~Asked(p)'
    BY DEF Asked
  <1>7. Nodes'
    BY <1>1, <1>6 DEF Nodes, OInv, FirstWalk, FirstLocation
  <1> QED
    BY <1>3, <1>4, <1>5, <1>7 DEF OInv

\* A batch is complete, with one more address or with what is left.
LEMMA LocateBatchOrder ==
  ASSUME IInv, OInv, phase = "locate", filling, NEW batch \in Seq(Addrs), LocateBatch(batch),
         UNCHANGED <<addr_clusters, addr_size, nr_walks, find_iter, phase, call, got, walk_iter>>,
         \/ (got # EndOfSequence /\ batch = Append(addr_set, got.addr))
         \/ (got = EndOfSequence /\ batch = addr_set)
  PROVE  OInv'
  <1>0. /\ call = None /\ addr_set \in Seq(Addrs) /\ filling' = FALSE
        /\ got = EndOfSequence \/ (got \in Entry /\ got.addr \in Addrs)
        /\ addr_clusters \in Seq(ClusterType) /\ Summed /\ ReadTo
    BY DEF OInv, Calls, IInv, TypeOK, LocateBatch, GotTyped, Entry, Places, Reading
  <1>1. ReadTo'
    BY <1>0, SameRead
  <1>2. \A p : At(p)' = At(p) /\ (WasRead(p)' <=> WasRead(p)) /\ ~Pending(p)'
    BY <1>0, SameTable DEF WasRead, Pending
  <1>3. CASE addr_set' = <<>> /\ missed'
    <2>1. (\A x : ~Waiting(x)') /\ Sorted'
      BY <1>3 DEF Waiting, Sorted
    <2>2. \A p \in Positions : Due(p)' => Due(p)
      BY <1>2, <2>1 DEF Due
    <2> QED
      BY <1>0, <1>1, <1>3, <2>1, <2>2, SameDue
  <1>4. CASE addr_set' = batch /\ UNCHANGED missed
    <2>0. /\ Sorted
          /\ \A x \in Addrs : Waiting(x) =>
               /\ \E p \in Positions : At(p) = x
               /\ got # EndOfSequence => x < got.addr
      BY DEF OInv, Locates
    <2>1. CASE got # EndOfSequence /\ batch = Append(addr_set, got.addr)
      <3>0. PICK g \in Addrs : g = got.addr /\ g \in Nat
        BY <1>0, <2>1, ValuesAssumption
      <3>1. /\ \A x : Waiting(x)' <=> Waiting(x) \/ x = g
            /\ Sorted'
        <4>1. addr_set' = Append(addr_set, g)
          BY <1>4, <2>1, <3>0
        <4>2. \A x \in Addrs : Waiting(x) => x < g
          BY <2>0, <2>1, <3>0
        <4> QED
          BY <1>0, <2>0, <4>1, <4>2, AppendWaits
      <3>2. \A p \in Positions : Due(p)' <=> Due(p)
        BY <1>2, <2>1, <3>0, <3>1 DEF Due, Pending
      <3>3. ASSUME NEW x \in Addrs, Waiting(x)'
            PROVE  (\E p \in Positions : At(p) = x) /\ x <= got.addr
        <4>1. x \in Nat
          BY ValuesAssumption
        <4>2. \E p \in Positions : At(p) = g
          BY <1>0, <2>1, <3>0 DEF ReadTo
        <4> QED
          BY <2>0, <2>1, <3>0, <3>1, <3>3, <4>1, <4>2
      <3> QED
        BY <1>0, <1>1, <1>4, <3>1, <3>2, <3>3, SameDue
    <2>2. CASE got = EndOfSequence /\ batch = addr_set
      <3>1. (\A x : Waiting(x)' <=> Waiting(x)) /\ Sorted'
        BY <1>4, <2>0, <2>2 DEF Waiting, Sorted
      <3>2. \A p \in Positions : Due(p)' <=> Due(p)
        BY <1>2, <2>2, <3>1 DEF Due, Pending
      <3> QED
        BY <1>0, <1>1, <1>4, <2>0, <2>2, <3>1, <3>2, SameDue
    <2> QED
      BY <2>1, <2>2
  <1> QED
    BY <1>3, <1>4 DEF LocateBatch

\* The loop that fills a batch.
LEMMA CollectAddrOrder ==
  ASSUME IInv, OInv, CollectAddr
  PROVE  OInv'
  <1>0. /\ UNCHANGED <<addr_clusters, addr_size, nr_walks, find_iter, phase, call>>
        /\ phase = "locate" /\ filling /\ got # EndOfSequence /\ call = None
        /\ addr_set \in Seq(Addrs) /\ got.addr \in Addrs
        /\ addr_clusters \in Seq(ClusterType) /\ Summed
    BY DEF OInv, Calls, IInv, TypeOK, CollectAddr, seqVars, GotTyped, Entry
  <1>1. PICK batch : batch = Append(addr_set, got.addr)
    OBVIOUS
  <1>2. batch \in Seq(Addrs)
    BY <1>0, <1>1
  <1>3. CASE LocateBatch(batch) /\ UNCHANGED <<got, walk_iter>>
    BY <1>0, <1>1, <1>2, <1>3, LocateBatchOrder
  <1>4. CASE addr_set' = batch /\ GetNext /\ UNCHANGED <<filling, missed>>
    <2>0. /\ Sorted
          /\ \A x \in Addrs : Waiting(x) =>
               /\ \E p \in Positions : At(p) = x
               /\ x < got.addr
      BY <1>0 DEF OInv, Locates
    <2>1. PICK g \in Addrs : g = got.addr /\ g \in Nat
      BY <1>0, ValuesAssumption
    <2>2. Places /\ Reading /\ ReadTo
      BY <1>0 DEF OInv, Places, Reading
    <2>3. \A p \in Positions :
            ~WasRead(p) <=> (~WasRead(p)' \/ (got' # EndOfSequence /\ At(p) = got'.addr))
      BY <1>0, <1>4, <2>2, DueNext
    <2>4. PICK q \in Positions : At(q) = g
      BY <1>0, <2>1, <2>2 DEF ReadTo
    <2>5. (got' # EndOfSequence => g < got'.addr) /\ ReadTo'
      BY <1>0, <1>4, <2>1, <2>2, <2>4, DueNext
    <2>6. /\ \A x : Waiting(x)' <=> Waiting(x) \/ x = g
          /\ Sorted'
      <3>1. addr_set' = Append(addr_set, g)
        BY <1>1, <1>4, <2>1
      <3>2. \A x \in Addrs : Waiting(x) => x < g
        BY <2>0, <2>1
      <3> QED
        BY <1>0, <2>0, <3>1, <3>2, AppendWaits
    <2>7. \A p : At(p)' = At(p)
      BY <1>0, SameTable
    <2>8. \A p \in Positions : Due(p)' <=> Due(p)
      BY <1>0, <1>4, <2>1, <2>3, <2>6, <2>7 DEF Due, Pending
    <2>9. ASSUME NEW x \in Addrs, Waiting(x)'
          PROVE  (\E p \in Positions : At(p) = x) /\ (got' # EndOfSequence => x <= got'.addr /\ x < got'.addr)
      <3>1. x \in Nat /\ x <= g
        BY <2>0, <2>1, <2>6, <2>9, ValuesAssumption
      <3>2. got' # EndOfSequence => got'.addr \in Nat
        <4>1. \A p \in Positions : At(p) \in Nat
          BY <1>0, PositionFacts
        <4>2. Positions' = Positions
          BY <1>0, SameTable
        <4> QED
          BY <2>5, <2>7, <4>1, <4>2 DEF ReadTo
      <3>3. \E p \in Positions : At(p) = x
        BY <2>0, <2>4, <2>6, <2>9
      <3> QED
        BY <2>1, <2>5, <3>1, <3>2, <3>3
    <2> QED
      BY <1>0, <1>4, <2>5, <2>6, <2>8, <2>9, SameDue
  <1> QED
    BY <1>1, <1>3, <1>4 DEF CollectAddr

\* The addresses left when the sequence ends.
LEMMA CollectRestOrder ==
  ASSUME IInv, OInv, CollectRest
  PROVE  OInv'
  <1>1. PICK batch : batch = addr_set
    OBVIOUS
  <1>2. /\ batch \in Seq(Addrs) /\ LocateBatch(batch) /\ phase = "locate" /\ filling
        /\ got = EndOfSequence
        /\ UNCHANGED <<addr_clusters, addr_size, nr_walks, find_iter, phase, call, got, walk_iter>>
    BY <1>1 DEF CollectRest, seqVars, IInv, TypeOK
  <1> QED
    BY <1>1, <1>2, LocateBatchOrder

\* update_nodeid(): the lowest address of the batch is asked for.
LEMMA LocateAddrOrder ==
  ASSUME IInv, OInv, NEW nid \in Nids, LocateAddr(nid)
  PROVE  OInv'
  <1>0. /\ UNCHANGED <<addr_clusters, addr_size, nr_walks, find_iter, walk_iter, got,
                       phase, filling, missed, last_addr>>
        /\ phase = "locate" /\ ~filling /\ call = None /\ addr_set # <<>> /\ addr_set \in Seq(Addrs)
        /\ addr_set' = Tail(addr_set) /\ ReadTo /\ nr_walks \in Nat
        /\ addr_clusters \in Seq(ClusterType) /\ Summed
    BY DEF LocateAddr, Ask, Deny, seqVars, IInv, TypeOK, OInv, Places, Reading
  <1>1. PICK h : h = Head(addr_set)
    OBVIOUS
  <1>2. /\ Sorted
        /\ \A x \in Addrs : Waiting(x) =>
             (\E p \in Positions : At(p) = x) /\ (got # EndOfSequence => x <= got.addr)
        /\ \A p \in Positions : Due(p) => SearchPast(At(p))
    BY <1>0 DEF OInv, Locates
  <1>3. /\ h \in Addrs /\ Waiting(h)
        /\ \A x : Waiting(x) <=> Waiting(x)' \/ x = h
        /\ Sorted' /\ \A x : Waiting(x)' => h < x
    BY <1>0, <1>1, <1>2, TailWaits
  <1>4. ReadTo' /\ (\A a : SearchPast(a)' <=> SearchPast(a))
    BY <1>0, SameRead, SamePast
  <1>5. /\ Ordered' /\ Counted' /\ Positions' = Positions
        /\ \A p : At(p)' = At(p) /\ Stored(p)' = Stored(p) /\ (Located(p)' <=> Located(p))
    BY <1>0, SameOrder DEF OInv
  <1>6. PICK q \in Positions : At(q) = h
    BY <1>2, <1>3
  <1>7. \A p : (WasRead(p)' <=> WasRead(p)) /\ ~Pending(p) /\ ~Pending(p)'
    BY <1>0, <1>5 DEF WasRead, Pending
  <1>8. \A p \in Positions : Due(p) <=> Due(p)' \/ At(p) = h
    BY <1>3, <1>5, <1>7 DEF Due
  <1>9. SearchPast(h)
    BY <1>2, <1>6, <1>8
  <1>10. Places'
    BY <1>0, <1>4, <1>5 DEF Places, OInv, FirstWalk
  <1>11. Walks' /\ Normalizes'
    BY <1>0 DEF Walks, Normalizes
  <1>12. Locates'
    <2>1. ASSUME NEW p \in Positions, Due(p)' PROVE SearchPast(At(p))'
      <3>1. SearchPast(At(p))' <=> SearchPast(At(p))
        BY <1>0, <1>5 DEF SearchPast, Behind
      <3> QED
        BY <1>2, <1>8, <2>1, <3>1
    <2> QED
      BY <1>0, <1>2, <1>3, <1>5, <2>1 DEF Locates
  <1>13. nr_walks # 0
    BY <1>6, <1>0 DEF IInv, Positions, Clusters
  <1>14. CASE nr_walks < 2
    <2>1. call' = [op |-> "nid", addr |-> h, arg |-> nid] /\ nr_walks = 1
      BY <1>0, <1>1, <1>13, <1>14 DEF LocateAddr, Ask, InAppendPeriod
    <2>2. SearchPast(call.addr)'
      BY <1>0, <1>5, <1>9, <2>1 DEF SearchPast, Behind
    <2>3. Calls'
      BY <1>0, <1>2, <1>3, <1>5, <1>6, <2>1, <2>2 DEF Calls
    <2>4. call' # None
      BY <2>1, <1>3, ValuesAssumption
    <2>5. \A p \in Positions : Due(p) <=> Due(p)' \/ Asked(p)'
      BY <1>5, <1>8, <2>1, <2>4 DEF Asked
    <2>6. \A p \in Positions : ~Asked(p)
      BY <1>0 DEF Asked
    <2>7. Nodes'
      BY <1>0, <1>5, <2>1, <2>5, <2>6 DEF Nodes, OInv, FirstWalk, FirstLocation
    <2> QED
      BY <1>10, <1>11, <1>12, <2>3, <2>7 DEF OInv
  <1>15. CASE ~(nr_walks < 2)
    <2>1. call' = None
      BY <1>0, <1>15 DEF LocateAddr, Deny, InAppendPeriod
    <2>2. Calls'
      BY <2>1 DEF Calls
    <2>3. Nodes'
      BY <1>0, <1>5, <1>15 DEF Nodes, OInv, FirstWalk, FirstLocation
    <2> QED
      BY <1>10, <1>11, <1>12, <2>2, <2>3 DEF OInv
  <1> QED
    BY <1>14, <1>15

\* The next batch starts with the next address.
LEMMA NextBatchOrder ==
  ASSUME IInv, OInv, NextBatch
  PROVE  OInv'
  <1>0. /\ UNCHANGED <<addr_clusters, addr_size, nr_walks, find_iter, phase, call, addr_set, missed>>
        /\ phase = "locate" /\ ~filling /\ got # EndOfSequence /\ call = None /\ GetNext
        /\ addr_set = <<>> /\ filling' = TRUE /\ Places /\ Reading
    BY DEF OInv, NextBatch, seqVars, Reading
  <1>1. \A x : ~Waiting(x) /\ ~Waiting(x)'
    BY <1>0 DEF Waiting
  <1>2. \A p \in Positions :
            ~WasRead(p) <=> (~WasRead(p)' \/ (got' # EndOfSequence /\ At(p) = got'.addr))
    BY <1>0, DueNext
  <1>3. ReadTo'
    <2>1. \E p \in Positions : At(p) = got.addr
      BY <1>0 DEF Places, ReadTo
    <2> QED
      BY <1>0, <2>1, DueNext
  <1>4. \A p : At(p)' = At(p)
    BY <1>0, SameTable
  <1>5. \A p \in Positions : Due(p)' <=> Due(p)
    BY <1>0, <1>1, <1>2, <1>4 DEF Due, Pending
  <1>6. Sorted'
    BY <1>0 DEF Sorted
  <1> QED
    BY <1>0, <1>1, <1>3, <1>5, <1>6, SameDue

\* Everything was read, and no batch is left.
LEMMA EndLocateOrder ==
  ASSUME IInv, OInv, EndLocate
  PROVE  OInv'
  <1>0. /\ UNCHANGED <<addr_clusters, addr_size, call, got, nr_walks, find_iter, missed>>
        /\ phase = "locate" /\ phase' = "rest" /\ call = None /\ got = EndOfSequence /\ addr_set = <<>>
    BY DEF EndLocate, seqVars
  <1>2. /\ Ordered' /\ Counted' /\ Positions' = Positions
        /\ \A p : Stored(p)' = Stored(p) /\ (Located(p)' <=> Located(p))
    BY <1>0, SameOrder DEF OInv
  <1>3. \A p : ~Due(p) /\ ~Asked(p)
    BY <1>0 DEF Due, Waiting, Pending, WasRead, Asked
  <1>4. Places'
    BY <1>0, <1>2 DEF Places, Reading, OInv, FirstWalk
  <1>5. Walks' /\ Calls' /\ Locates' /\ Normalizes'
    BY <1>0 DEF Walks, Calls, Locates, Normalizes
  <1>7. Nodes'
    BY <1>0, <1>2, <1>3 DEF Nodes, FirstWalk, FirstLocation, OInv
  <1> QED
    BY <1>4, <1>5, <1>7 DEF OInv

\* A read at the end of the period starts or goes on.
LEMMA ReadOrder ==
  ASSUME IInv, OInv, ReadTo', call = None, phase' \in {"report", "drift"},
         phase' = phase \/ (phase = "rest" /\ phase' = "report"),
         UNCHANGED <<addr_clusters, addr_size, nr_walks, find_iter, call, missed>>
  PROVE  OInv'
  <1>1. /\ Ordered' /\ Counted' /\ Positions' = Positions
        /\ \A p : Stored(p)' = Stored(p) /\ (Located(p)' <=> Located(p))
    BY SameOrder DEF OInv
  <1>2. Places'
    BY <1>1 DEF Places, OInv, FirstWalk
  <1>3. Walks' /\ Calls' /\ Locates' /\ Normalizes'
    BY <1>1 DEF Walks, Calls, Locates, Normalizes, OInv
  <1>4. Nodes'
    BY <1>1 DEF Nodes, FirstWalk, FirstLocation, OInv
  <1> QED
    BY <1>2, <1>3, <1>4 DEF OInv

\* get_first() at the end of the period.
LEMMA ReadFirstOrder ==
  ASSUME IInv, OInv, ReadFirst
  PROVE  OInv'
  <1>0. /\ UNCHANGED <<addr_clusters, addr_size, nr_walks, find_iter, call, missed>>
        /\ phase' \in {"report", "drift"} /\ GetFirst
        /\ phase' = phase \/ (phase = "rest" /\ phase' = "report")
        /\ addr_clusters \in Seq(ClusterType) /\ ItemsInBuffers /\ Summed /\ Ordered
    BY DEF ReadFirst, seqVars, IInv, TypeOK, Packed, OInv, Places
  <1>1. call = None
    BY <1>0 DEF OInv, Calls
  <1>2. got' # EndOfSequence =>
              /\ InPlace(walk_iter')
              /\ \E p \in Positions : At(p) = got'.addr
              /\ \A p \in Positions : Behind(p, walk_iter') <=> At(p) <= got'.addr
    BY <1>0, GetFirstReads
  <1>3. ReadTo'
    BY <1>0, <1>2, ReadToNext
  <1> QED
    BY <1>0, <1>1, <1>3, ReadOrder

\* get_next() at the end of the period.
LEMMA ReadNextOrder ==
  ASSUME IInv, OInv, ReadNext
  PROVE  OInv'
  <1>0. /\ UNCHANGED <<addr_clusters, addr_size, nr_walks, find_iter, call, missed, phase>>
        /\ phase \in {"report", "drift"} /\ GetNext /\ got # EndOfSequence /\ Places /\ Reading
    BY DEF ReadNext, seqVars, envVars, OInv, Reading
  <1>1. call = None
    BY <1>0 DEF OInv, Calls
  <1>2. \E p \in Positions : At(p) = got.addr
    BY <1>0 DEF Places, ReadTo
  <1>3. ReadTo'
    BY <1>0, <1>2, DueNext
  <1> QED
    BY <1>0, <1>1, <1>3, ReadOrder

-----------------------------------------------------------------------------
(* Normalisation.                                                          *)

\* normalize_addr_sequence() starts from the front.
LEMMA BeginNormalizeOrder ==
  ASSUME IInv, OInv, BeginNormalize
  PROVE  OInv'
  <1>0. /\ UNCHANGED <<addr_clusters, addr_size, call, nr_walks, missed>>
        /\ phase = "report" /\ phase' = "normalize"
        /\ filling' = TRUE /\ GetFirst
        /\ find_iter' = ResetIterator(addr_clusters, 1)
        /\ addr_clusters \in Seq(ClusterType) /\ ItemsInBuffers /\ Summed /\ Ordered
    BY DEF BeginNormalize, PrepareUpdate, seqVars, IInv, TypeOK, Packed, OInv, Places
  <1>1. /\ Ordered' /\ Counted' /\ Positions' = Positions
        /\ \A p : At(p)' = At(p) /\ Stored(p)' = Stored(p) /\ (Located(p)' <=> Located(p))
    BY <1>0, SameOrder DEF OInv
  <1>2. (\A a : SearchPast(a)') /\ find_iter'.end = Len(addr_clusters)
    BY <1>0, ResetPast
  <1>3. /\ got' = EndOfSequence => Positions = {}
        /\ got' # EndOfSequence =>
              /\ InPlace(walk_iter')
              /\ \E p \in Positions : At(p) = got'.addr
              /\ \A p \in Positions : Behind(p, walk_iter') <=> At(p) <= got'.addr
              /\ \A p \in Positions : At(p) >= got'.addr
    BY <1>0, GetFirstReads
  <1>4. ReadTo'
    BY <1>0, <1>3, ReadToNext
  <1>5. Places'
    BY <1>0, <1>1, <1>2, <1>4 DEF Places, FirstWalk
  <1>6. call = None
    BY <1>0 DEF OInv, Calls
  <1>7. Calls' /\ Walks' /\ Locates'
    BY <1>0, <1>6 DEF Calls, Walks, Locates
  <1>8. ASSUME NEW p \in Positions PROVE ~WasRead(p)' \/ Pending(p)'
    <2>1. \A q \in Positions : At(q) \in Nat
      BY <1>0, PositionFacts
    <2>2. got' # EndOfSequence /\ At(p) >= got'.addr /\ got'.addr \in Nat
      BY <1>3, <2>1
    <2> QED
      BY <1>0, <1>1, <2>1, <2>2 DEF Pending, WasRead
  <1>9. SearchPast(got.addr)'
    BY <1>2 DEF SearchPast
  <1>10. Normalizes'
    BY <1>0, <1>1, <1>8, <1>9 DEF Normalizes
  <1>11. Nodes'
    BY <1>0, <1>1 DEF Nodes, FirstWalk, FirstLocation, OInv
  <1> QED
    BY <1>5, <1>7, <1>10, <1>11 DEF OInv

\* What was read is asked for.
LEMMA NormalizeAddrOrder ==
  ASSUME IInv, OInv, NormalizeAddr
  PROVE  OInv'
  <1>0. /\ UNCHANGED <<addr_clusters, addr_size, find_iter, walk_iter, got, nr_walks, phase, missed>>
        /\ phase = "normalize" /\ filling /\ got # EndOfSequence /\ filling' = FALSE
        /\ nr_walks \in Nat /\ got.addr \in Addrs
    BY DEF NormalizeAddr, Ask, Deny, seqVars, IInv, TypeOK, GotTyped, Entry
  <1>1. /\ Ordered' /\ Counted' /\ Positions' = Positions
        /\ \A p : At(p)' = At(p) /\ Stored(p)' = Stored(p) /\ (Located(p)' <=> Located(p))
    BY <1>0, SameOrder DEF OInv
  <1>2. ReadTo'
    BY <1>0, SameRead DEF OInv, Places, Reading
  <1>3. call = None /\ SearchPast(got.addr)
    BY <1>0 DEF OInv, Calls, Normalizes
  <1>4. SearchPast(got.addr)'
    BY <1>0, <1>1, <1>3 DEF SearchPast, Behind
  <1>5. /\ nr_walks < 2 => call' = None
        /\ nr_walks > 1 => call'.op = "set" /\ call'.addr = got.addr /\ call' # None
    <2>1. CASE nr_walks < 2
      BY <1>0, <1>3, <2>1 DEF NormalizeAddr, Deny, InAppendPeriod
    <2>2. CASE ~(nr_walks < 2)
      <3>1. PICK n \in {0, 1} : call' = [op |-> "set", addr |-> got.addr, arg |-> n]
        BY <1>0, <2>2 DEF NormalizeAddr, Ask, InAppendPeriod
      <3>2. PICK g \in Addrs : g = got.addr
        BY <1>0
      <3>3. call' \in [op : {"inc", "set", "nid"}, addr : Addrs, arg : {0, 1} \cup Nids]
        BY <3>1, <3>2
      <3>4. call' # None
        BY <3>3, ValuesAssumption
      <3>5. call'.op = "set" /\ call'.addr = got.addr
        BY <3>1
      <3> QED
        BY <2>2, <3>4, <3>5
    <2> QED
      BY <1>0, <2>1, <2>2
  <1>6. nr_walks > 1 => SearchPast(call.addr)'
    BY <1>0, <1>4, <1>5 DEF SearchPast
  <1>7. Places'
    BY <1>0, <1>1, <1>2 DEF Places, OInv, FirstWalk
  <1>8. Calls' /\ Walks' /\ Locates'
    BY <1>0, <1>5, <1>6 DEF Calls, Walks, Locates
  <1>9. Normalizes'
    <2>1. \A p : (WasRead(p)' <=> WasRead(p)) /\ ~Asked(p)
      BY <1>0, <1>1, <1>3 DEF WasRead, Asked
    <2>2. nr_walks > 1 => \A p : Pending(p) => Asked(p)'
      BY <1>1, <1>5 DEF Pending, Asked
    <2> QED
      BY <1>0, <1>1, <1>4, <2>1, <2>2 DEF Normalizes, OInv
  <1>10. Nodes'
    BY <1>0, <1>1 DEF Nodes, FirstWalk, FirstLocation, OInv
  <1> QED
    BY <1>7, <1>8, <1>9, <1>10 DEF OInv

\* The next address is not behind the search.
LEMMA NormalizeNextOrder ==
  ASSUME IInv, OInv, NormalizeNext
  PROVE  OInv'
  <1>0. /\ UNCHANGED <<addr_clusters, addr_size, find_iter, call, nr_walks, phase, missed>>
        /\ phase = "normalize" /\ ~filling /\ filling' = TRUE /\ GetNext /\ call = None
        /\ nr_walks \in Nat /\ Places /\ Reading /\ addr_clusters \in Seq(ClusterType) /\ Summed
    BY DEF NormalizeNext, seqVars, IInv, TypeOK, Reading, OInv
  <1>1. /\ Ordered' /\ Counted' /\ Positions' = Positions
        /\ \A p : At(p)' = At(p) /\ Stored(p)' = Stored(p) /\ (Located(p)' <=> Located(p))
    BY <1>0, SameOrder DEF OInv
  <1>2. got # EndOfSequence /\ SearchPast(got.addr)
    BY <1>0 DEF OInv, Normalizes
  <1>3. \A p \in Positions :
            ~WasRead(p) <=> (~WasRead(p)' \/ (got' # EndOfSequence /\ At(p) = got'.addr))
    BY <1>0, <1>2, DueNext
  <1>4. ReadTo' /\ (got' # EndOfSequence => got.addr < got'.addr)
    <2>1. \E p \in Positions : At(p) = got.addr
      BY <1>0, <1>2 DEF Places, ReadTo
    <2> QED
      BY <1>0, <1>2, <2>1, DueNext
  <1>5. got' # EndOfSequence => SearchPast(got.addr)'
    <2>1. SUFFICES ASSUME got' # EndOfSequence PROVE SearchPast(got.addr)'
      OBVIOUS
    <2>2. \A p \in Positions : At(p) \in Nat
      BY <1>0, PositionFacts
    <2>3. got.addr \in Nat /\ got'.addr \in Nat
      BY <1>0, <1>1, <1>2, <1>4, <2>1, <2>2 DEF Places, ReadTo
    <2> QED
      BY <1>0, <1>1, <1>2, <1>4, <2>1, <2>2, <2>3 DEF SearchPast, Behind
  <1>6. Places'
    BY <1>0, <1>1, <1>4 DEF Places, FirstWalk
  <1>7. Calls' /\ Walks' /\ Locates'
    BY <1>0 DEF Calls, Walks, Locates
  <1>8. Normalizes'
    <2>1. \A p \in Positions : ~WasRead(p) => ~WasRead(p)' \/ Pending(p)'
      BY <1>0, <1>1, <1>3 DEF Pending
    <2>2. \A p : ~Asked(p) /\ ~Pending(p)
      BY <1>0 DEF Asked, Pending
    <2> QED
      BY <1>0, <1>1, <1>5, <2>1, <2>2 DEF Normalizes, OInv
  <1>9. Nodes'
    BY <1>0, <1>1 DEF Nodes, FirstWalk, FirstLocation, OInv
  <1> QED
    BY <1>6, <1>7, <1>8, <1>9 DEF OInv

\* Everything was read and written.
LEMMA EndNormalizeOrder ==
  ASSUME IInv, OInv, EndNormalize
  PROVE  OInv'
  <1>0. /\ UNCHANGED <<addr_clusters, addr_size, find_iter, walk_iter, got, call, nr_walks, missed>>
        /\ phase = "normalize" /\ phase' = "drift" /\ filling /\ got = EndOfSequence
    BY DEF EndNormalize, seqVars
  <1>1. /\ Ordered' /\ Counted' /\ Positions' = Positions
        /\ \A p : At(p)' = At(p) /\ Stored(p)' = Stored(p) /\ (Located(p)' <=> Located(p))
    BY <1>0, SameOrder DEF OInv
  <1>2. ReadTo'
    BY <1>0, SameRead DEF OInv, Places, Reading
  <1>3. call = None
    BY <1>0 DEF OInv, Calls
  <1>4. Places'
    BY <1>0, <1>1, <1>2 DEF Places, OInv, FirstWalk
  <1>5. Calls' /\ Walks' /\ Locates'
    BY <1>0, <1>3 DEF Calls, Walks, Locates
  <1>6. \A p : WasRead(p) /\ ~Pending(p) /\ ~Asked(p)
    BY <1>0, <1>3 DEF WasRead, Pending, Asked
  <1>7. Normalizes'
    BY <1>0, <1>1, <1>6 DEF Normalizes, OInv
  <1>8. Nodes'
    BY <1>0, <1>1 DEF Nodes, FirstWalk, FirstLocation, OInv
  <1> QED
    BY <1>4, <1>5, <1>7, <1>8 DEF OInv

-----------------------------------------------------------------------------
(* The steps of the search.                                                *)

\* One turn of the search.
LEMMA SeekNextOrder ==
  ASSUME IInv, OInv, SeekNext
  PROVE  OInv'
  <1>0. /\ UNCHANGED <<addr_clusters, addr_size, walk_iter, got, call, nr_walks, missed, phase,
                       filling, addr_set, last_addr>>
        /\ call # None /\ call.addr \in Addrs /\ nr_walks \in Nat
        /\ addr_clusters \in Seq(ClusterType) /\ Summed
    BY DEF SeekNext, seqVars, envVars, IInv, TypeOK
  <1>1. /\ Ordered' /\ Counted' /\ Positions' = Positions
        /\ \A p : At(p)' = At(p) /\ Stored(p)' = Stored(p) /\ (Located(p)' <=> Located(p))
    BY <1>0, SameOrder DEF OInv
  <1>2. ~FirstWalk /\ SearchPast(call.addr)
    BY <1>0 DEF OInv, Calls, FirstWalk
  <1>3. SearchPast(call.addr)' /\ find_iter'.end = find_iter.end
    BY <1>2, SeekNextPast DEF OInv
  <1>4. PICK a \in Addrs : a = call.addr
    BY <1>0
  <1>5. SearchPast(a)' /\ a \in Nat
    BY <1>0, <1>3, <1>4, ValuesAssumption DEF SearchPast
  <1>6. \A b \in Int : a <= b => SearchPast(b)'
    BY <1>0, <1>5, PastHigherNext
  <1>7. Reading => ReadTo'
    BY <1>0, SameRead DEF OInv, Places
  <1>8. Places'
    BY <1>0, <1>1, <1>2, <1>3, <1>7 DEF Places, OInv, FirstWalk, Reading
  <1>9. Calls'
    BY <1>0, <1>1, <1>3 DEF Calls, OInv, Waiting
  <1>10. Walks'
    <2>1. phase = "walk" => last_addr = a
      BY <1>0, <1>4 DEF OInv, Calls
    <2> QED
      BY <1>0, <1>4, <1>5, <2>1 DEF Walks, SearchPast
  <1>11. \A p : /\ Waiting(p)' <=> Waiting(p)
                /\ WasRead(p)' <=> WasRead(p)
                /\ Pending(p)' <=> Pending(p)
                /\ Asked(p)' <=> Asked(p)
                /\ Due(p)' <=> Due(p)
    BY <1>0, <1>1 DEF Waiting, WasRead, Pending, Asked, Due
  <1>12. Locates'
    <2>1. ASSUME phase = "locate", NEW p \in Positions, Due(p) PROVE SearchPast(At(p))'
      <3>1. At(p) \in Addrs /\ At(p) \in Nat
        BY <1>0, PositionFacts
      <3>2. a <= At(p)
        <4>1. /\ \A x \in Addrs : Waiting(x) => a < x
              /\ got # EndOfSequence => a <= got.addr
              /\ ~filling
          BY <1>0, <1>4, <2>1 DEF OInv, Calls
        <4>2. CASE Waiting(At(p))
          BY <3>1, <4>1, <4>2, <1>5
        <4>3. CASE ~WasRead(p)
          <5>1. got # EndOfSequence /\ got.addr \in Nat
            BY <1>0, <2>1, <4>3, ValuesAssumption DEF WasRead, IInv, GotTyped, Entry
          <5> QED
            BY <1>5, <3>1, <4>1, <4>3, <5>1 DEF WasRead
        <4> QED
          BY <2>1, <4>1, <4>2, <4>3 DEF Due, Pending
      <3>3. PICK b \in Int : b = At(p)
        BY <3>1
      <3>4. SearchPast(b)'
        BY <1>6, <3>2, <3>3
      <3> QED
        BY <1>1, <3>3, <3>4 DEF SearchPast
    <2>2. Sorted' <=> Sorted
      BY <1>0 DEF Sorted
    <2> QED
      BY <1>0, <1>1, <1>11, <2>1, <2>2 DEF Locates, OInv
  <1>13. Normalizes'
    <2>1. phase = "normalize" => got.addr = a
      BY <1>0, <1>4 DEF OInv, Calls
    <2>2. phase = "normalize" => SearchPast(got.addr)'
      BY <1>0, <1>5, <2>1 DEF SearchPast
    <2> QED
      BY <1>0, <1>1, <1>11, <2>2 DEF Normalizes, OInv
  <1>14. Nodes'
    BY <1>0, <1>1, <1>11 DEF Nodes, FirstWalk, FirstLocation, OInv
  <1> QED
    BY <1>8, <1>9, <1>10, <1>12, <1>13, <1>14 DEF OInv

\* The search found no entry: that can only happen in a walk.
LEMMA SeekMissingOrder ==
  ASSUME IInv, OInv, SeekMissing
  PROVE  OInv'
  <1>0. /\ UNCHANGED <<addr_clusters, addr_size, find_iter, walk_iter, got, nr_walks, missed, phase,
                       filling, addr_set, last_addr>>
        /\ call # None /\ call' = None
        /\ ~AtEnd(find_iter) => AddrAt(find_iter) > call.addr
    BY DEF SeekMissing, seqVars, envVars
  <1>1. /\ Ordered' /\ Counted' /\ Positions' = Positions
        /\ \A p : At(p)' = At(p) /\ Stored(p)' = Stored(p) /\ (Located(p)' <=> Located(p))
    BY <1>0, SameOrder DEF OInv
  <1>2. ~FirstWalk /\ SearchPast(call.addr)
    BY <1>0 DEF OInv, Calls, FirstWalk
  <1>3. \A p \in Positions : At(p) # call.addr
    BY <1>0, <1>2, NothingMissed DEF OInv
  <1>4. phase = "walk" /\ nr_walks > 1
    <2>1. phase # "locate"
      BY <1>0, <1>3 DEF OInv, Calls
    <2>2. phase # "normalize"
      BY <1>0, <1>3 DEF OInv, Calls, Places, Reading, ReadTo
    <2> QED
      BY <1>0, <2>1, <2>2 DEF OInv, Calls
  <1>5. \A a : SearchPast(a)' <=> SearchPast(a)
    BY <1>0, SamePast
  <1>6. Places'
    BY <1>0, <1>1, <1>4 DEF Places, OInv, FirstWalk, Reading
  <1>7. Calls' /\ Locates' /\ Normalizes'
    BY <1>0, <1>4 DEF Calls, Locates, Normalizes
  <1>8. Walks'
    BY <1>0, <1>1, <1>4 DEF Walks, OInv, SearchPast, Behind
  <1>9. Nodes'
    BY <1>0, <1>1, <1>4 DEF Nodes, FirstWalk, FirstLocation, OInv
  <1> QED
    BY <1>6, <1>7, <1>8, <1>9 DEF OInv

\* The search found the entry: what is written to it, if anything is.
LEMMA SeekFoundTable ==
  ASSUME IInv, Ordered, SeekFound
  PROVE  \E q \in Positions :
         /\ At(q) = call.addr /\ Positions' = Positions /\ Ordered'
         /\ Len(addr_clusters') = Len(addr_clusters)
         /\ \A p \in Positions : At(p)' = At(p)
         /\ \A p \in Positions : p # q => Stored(p)' = Stored(p) /\ At(p) # call.addr
         /\ call.op # "nid" => Stored(q)'.nid = Stored(q).nid /\ Stored(q)'.location = Stored(q).location
         /\ call.op = "nid" => Stored(q)'.nid = call.arg /\ Stored(q)'.location = Location(call.arg)
         /\ call.op = "set" => Stored(q)'.payload = call.arg
  <1>0. /\ addr_clusters \in Seq(ClusterType) /\ Summed /\ ~AtEnd(find_iter)
        /\ AddrAt(find_iter) = call.addr /\ call # None
    BY DEF IInv, TypeOK, SeekFound
  <1>1. CASE call.op = "inc" /\ call.arg = 0
    <2>1. UNCHANGED addr_clusters
      BY <1>1 DEF SeekFound
    <2>2. PICK f : Sums(f) /\ Good(find_iter, f)
      BY <1>0 DEF Summed
    <2>3. PICK it : it = find_iter
      OBVIOUS
    <2>4. <<it.cluster, it.index>> \in Positions /\ AddrAt(it) = At(<<it.cluster, it.index>>)
      BY <1>0, <2>2, <2>3, IteratorAddr
    <2>5. PICK q \in Positions : q = <<it.cluster, it.index>>
      BY <2>4
    <2>6. At(q) = call.addr
      BY <1>0, <2>3, <2>4, <2>5
    <2>7. \A p \in Positions : p # q => At(p) # call.addr
      BY <1>0, <2>6, OrderFacts
    <2>8. /\ Positions' = Positions /\ Ordered'
          /\ \A p : At(p)' = At(p) /\ Stored(p)' = Stored(p)
      BY <2>1, SameTable
    <2> QED
      BY <1>1, <2>1, <2>6, <2>7, <2>8
  <1>2. CASE ~(call.op = "inc" /\ call.arg = 0)
    <2>1. PICK q \in Positions :
            /\ At(q) = call.addr /\ Positions' = Positions /\ Ordered'
            /\ \A p \in Positions : At(p)' = At(p)
            /\ \A p \in Positions : p # q => Stored(p)' = Stored(p)
            /\ Stored(q)' = Written(Stored(q))
      BY <1>2, WriteTable
    <2>2. \A p \in Positions : p # q => At(p) # call.addr
      BY <1>0, <2>1, OrderFacts
    <2>3. Len(addr_clusters') = Len(addr_clusters)
      <3>1. PICK c, i, w : addr_clusters' = [addr_clusters EXCEPT ![c].deltas[i] = w]
        BY <1>2 DEF SeekFound
      <3>2. PICK k : addr_clusters' = [addr_clusters EXCEPT ![c] = k]
        BY <3>1
      <3>3. DOMAIN addr_clusters' = DOMAIN addr_clusters
        BY <3>2
      <3>4. addr_clusters' \in Seq(ClusterType) \/ TRUE
        OBVIOUS
      <3> QED
        BY <1>0, <3>2, <3>3
    <2>4. PICK item \in ItemType : item = Stored(q)
      BY <1>0, <2>1, PositionFacts
    <2>5. Stored(q)' = Written(item)
      BY <2>1, <2>4
    <2>6. /\ call.op # "nid" => Written(item).nid = item.nid /\ Written(item).location = item.location
          /\ call.op = "nid" => Written(item).nid = call.arg /\ Written(item).location = Location(call.arg)
          /\ call.op = "set" => Written(item).payload = call.arg
      <3>1. call.op \in {"inc", "set", "nid"}
        BY <1>0 DEF IInv, TypeOK
      <3> DEFINE r == (item.payload + 1) % PayloadMod
                 l == Location(call.arg)
      <3>2. CASE call.op = "inc"
        <4>1. Written(item) = [item EXCEPT !.payload = r]
          BY <3>2 DEF Written
        <4> HIDE DEF r
        <4> QED
          BY <3>2, <4>1 DEF ItemType
      <3>3. CASE call.op = "set"
        <4>1. Written(item) = [item EXCEPT !.payload = call.arg]
          BY <3>3 DEF Written
        <4> QED
          BY <3>3, <4>1 DEF ItemType
      <3>4. CASE call.op = "nid"
        <4>1. Written(item) = [item EXCEPT !.nid = call.arg, !.location = l]
          BY <3>4 DEF Written
        <4> HIDE DEF l
        <4>2. Written(item).nid = call.arg /\ Written(item).location = l
          BY <4>1 DEF ItemType
        <4> QED
          BY <3>4, <4>2 DEF l
      <3> QED
        BY <3>1, <3>2, <3>3, <3>4
    <2> QED
      BY <2>1, <2>2, <2>3, <2>4, <2>5, <2>6
  <1> QED
    BY <1>1, <1>2

\* The entry that was asked for is written.
LEMMA SeekFoundOrder ==
  ASSUME IInv, IInv', OInv, SeekFound
  PROVE  OInv'
  <1>0. /\ UNCHANGED <<addr_size, find_iter, walk_iter, got, nr_walks, missed, phase,
                       filling, addr_set, last_addr>>
        /\ call # None /\ call' = None /\ Ordered /\ Counted /\ CallTyped
    BY DEF SeekFound, IInv, OInv, Places
  <1>1. PICK q \in Positions :
         /\ At(q) = call.addr /\ Positions' = Positions /\ Ordered'
         /\ Len(addr_clusters') = Len(addr_clusters)
         /\ \A p \in Positions : At(p)' = At(p)
         /\ \A p \in Positions : p # q => Stored(p)' = Stored(p) /\ At(p) # call.addr
         /\ call.op # "nid" => Stored(q)'.nid = Stored(q).nid /\ Stored(q)'.location = Stored(q).location
         /\ call.op = "nid" => Stored(q)'.nid = call.arg /\ Stored(q)'.location = Location(call.arg)
         /\ call.op = "set" => Stored(q)'.payload = call.arg
    BY <1>0, SeekFoundTable
  <1>2. Counted'
    BY <1>0, <1>1 DEF Counted
  <1>3. \A a : SearchPast(a)' <=> SearchPast(a)
    BY <1>0, <1>1 DEF SearchPast, Behind
  <1>4. Reading => ReadTo'
    <2>1. Reading /\ got # EndOfSequence => InPlace(walk_iter)'
      <3>1. walk_iter' \in IterType /\ InBounds(walk_iter)'
        BY DEF IInv, Summed, Good
      <3>2. Reading /\ got # EndOfSequence => walk_iter.end = Len(addr_clusters)
        BY DEF OInv, Places, ReadTo, InPlace
      <3> QED
        BY <1>0, <1>1, <3>1, <3>2 DEF InPlace
    <2> QED
      BY <1>0, <1>1, <2>1 DEF ReadTo, Behind, OInv, Places
  <1>5. Places'
    BY <1>0, <1>1, <1>2, <1>4 DEF Places, OInv, FirstWalk, Reading
  <1>6. Calls'
    BY <1>0 DEF Calls
  <1>7. Walks'
    BY <1>0, <1>1 DEF Walks, OInv, SearchPast, Behind
  <1>8. \A p \in Positions : /\ WasRead(p)' <=> WasRead(p)
                             /\ Pending(p)' <=> Pending(p)
                             /\ Due(p)' <=> Due(p)
    BY <1>0, <1>1 DEF Waiting, WasRead, Pending, Due
  <1>9. \A x : Waiting(x)' <=> Waiting(x)
    BY <1>0 DEF Waiting
  <1>10. Locates'
    <2>1. ASSUME phase = "locate", NEW p \in Positions, Due(p) PROVE SearchPast(At(p))'
      BY <1>0, <1>1, <2>1 DEF OInv, Locates, SearchPast, Behind
    <2>2. Sorted' <=> Sorted
      BY <1>0 DEF Sorted
    <2> QED
      BY <1>0, <1>1, <1>8, <1>9, <2>1, <2>2 DEF Locates, OInv
  <1>11. \A p \in Positions : ~Asked(p)' /\ (Asked(p) <=> p = q)
    BY <1>0, <1>1 DEF Asked
  <1>12. Normalizes'
    <2>1. phase = "normalize" => call.op = "set" /\ Stored(q)'.payload = call.arg /\ got.addr = call.addr
      BY <1>0, <1>1 DEF OInv, Calls
    <2>2. phase = "normalize" => Stored(q)'.payload <= 1
      BY <1>0, <2>1 DEF CallTyped
    <2>3. phase = "normalize" /\ got # EndOfSequence => SearchPast(got.addr)'
      BY <1>0, <1>1 DEF OInv, Normalizes, SearchPast, Behind
    <2>4. phase # "drift"
      BY <1>0 DEF OInv, Calls
    <2> QED
      BY <1>0, <1>1, <1>8, <1>11, <2>2, <2>3, <2>4 DEF Normalizes, OInv
  <1>13. Nodes'
    <2>1. ~FirstWalk
      BY <1>0 DEF OInv, Calls, FirstWalk
    <2>2. \A p \in Positions : p # q \/ call.op # "nid" => (Located(p)' <=> Located(p)) /\ Stored(p)'.nid = Stored(p).nid
      BY <1>1 DEF Located
    <2>3. CASE FirstLocation
      <3>1. call.op = "nid" /\ ~filling
        BY <1>0, <2>3 DEF FirstLocation, OInv, Calls
      <3>2. Located(q)'
        BY <1>0, <1>1, <3>1, ValuesAssumption DEF Located, CallTyped, NoNid
      <3>3. ~Due(q)
        <4>1. /\ \A x \in Addrs : Waiting(x) => call.addr < x
              /\ got # EndOfSequence => call.addr <= got.addr
              /\ call.addr \in Nat /\ call.addr \in Addrs
          BY <1>0, <2>3, ValuesAssumption DEF FirstLocation, OInv, Calls, IInv, TypeOK
        <4> QED
          BY <1>1, <3>1, <4>1 DEF Due, Pending, WasRead
      <3> QED
        BY <1>0, <1>1, <1>8, <1>11, <2>2, <2>3, <3>2, <3>3 DEF Nodes, OInv, FirstLocation, FirstWalk
    <2>4. CASE ~FirstLocation
      <3>1. call.op # "nid"
        BY <1>0, <2>4 DEF FirstLocation, OInv, Calls
      <3> QED
        BY <1>0, <1>1, <2>1, <2>2, <2>4, <3>1 DEF Nodes, OInv, FirstLocation, FirstWalk
    <2> QED
      BY <2>3, <2>4
  <1> QED
    BY <1>5, <1>6, <1>7, <1>10, <1>12, <1>13 DEF OInv

-----------------------------------------------------------------------------
(* The invariant.                                                          *)

\* The sequence is empty at first.
LEMMA InitOrder == Init => OInv
  <1> SUFFICES ASSUME Init PROVE OInv
    OBVIOUS
  <1>1. addr_clusters = <<>> /\ phase = "rest" /\ call = None /\ addr_size = 0
    BY DEF Init
  <1>2. Positions = {}
    BY <1>1 DEF Positions, Clusters
  <1>3. Counted
    BY <1>1, <1>2, FS_EmptySet DEF Counted
  <1>4. find_iter.end = Len(addr_clusters)
    BY <1>1 DEF Init, ResetIterator
  <1>5. Places
    BY <1>1, <1>2, <1>3, <1>4 DEF Places, Ordered, Reading
  <1>6. Calls /\ Walks /\ Locates /\ Normalizes
    BY <1>1 DEF Calls, Walks, Locates, Normalizes
  <1>7. Nodes
    BY <1>1, <1>2 DEF Nodes, FirstWalk, FirstLocation
  <1> QED
    BY <1>5, <1>6, <1>7 DEF OInv

\* Nothing changes.
LEMMA StutterOrder ==
  ASSUME IInv, OInv, UNCHANGED vars
  PROVE  OInv'
  <1>0. UNCHANGED <<addr_clusters, addr_size, find_iter, walk_iter, got, call, nr_walks, missed, phase,
                    filling, addr_set, last_addr>>
    BY DEF vars, seqVars, envVars
  <1>1. /\ Ordered' /\ Counted' /\ Positions' = Positions
        /\ \A p : At(p)' = At(p) /\ Stored(p)' = Stored(p) /\ (Located(p)' <=> Located(p))
    BY <1>0, SameOrder DEF OInv
  <1>2. Reading => ReadTo'
    BY <1>0, SameRead DEF OInv, Places
  <1>3. Places'
    BY <1>0, <1>1, <1>2 DEF Places, OInv, FirstWalk, Reading
  <1>4. \A p : /\ Waiting(p)' <=> Waiting(p)
               /\ WasRead(p)' <=> WasRead(p)
               /\ Pending(p)' <=> Pending(p)
               /\ Asked(p)' <=> Asked(p)
               /\ Due(p)' <=> Due(p)
    BY <1>0, <1>1 DEF Waiting, WasRead, Pending, Asked, Due
  <1>5. Calls' /\ Walks'
    BY <1>0, <1>1, <1>4 DEF Calls, Walks, OInv, SearchPast, Behind
  <1>6. Locates'
    <2>1. ASSUME phase = "locate", NEW p \in Positions, Due(p) PROVE SearchPast(At(p))'
      BY <1>0, <1>1, <2>1 DEF OInv, Locates, SearchPast, Behind
    <2>2. Sorted' <=> Sorted
      BY <1>0 DEF Sorted
    <2> QED
      BY <1>0, <1>1, <1>4, <2>1, <2>2 DEF Locates, OInv
  <1>7. Normalizes'
    <2>1. phase = "normalize" /\ got # EndOfSequence => SearchPast(got.addr)'
      BY <1>0, <1>1 DEF OInv, Normalizes, SearchPast, Behind
    <2> QED
      BY <1>0, <1>1, <1>4, <2>1 DEF Normalizes, OInv
  <1>8. Nodes'
    BY <1>0, <1>1, <1>4 DEF Nodes, FirstWalk, FirstLocation, OInv
  <1> QED
    BY <1>3, <1>5, <1>6, <1>7, <1>8 DEF OInv

\* Every step keeps the order of the table and the places of searches and reads.
LEMMA NextOrder == IInv /\ IInv' /\ OInv /\ [Next]_vars => OInv'
  <1> SUFFICES ASSUME IInv, IInv', OInv, [Next]_vars PROVE OInv'
    OBVIOUS
  <1>1. CASE BeginWalk
    BY <1>1, BeginWalkOrder
  <1>2. CASE EndWalk
    BY <1>2, EndWalkOrder
  <1>3. ASSUME NEW a \in Addrs, NEW n \in {0, 1}, AppendPageRef(a, n) PROVE OInv'
    BY <1>3, AppendPageRefOrder
  <1>4. ASSUME NEW a \in Addrs, NEW n \in {0, 1}, CountPageRef(a, n) PROVE OInv'
    BY <1>4, CountPageRefOrder
  <1>5. CASE SeekNext
    BY <1>5, SeekNextOrder
  <1>6. CASE SeekFound
    BY <1>6, SeekFoundOrder
  <1>7. CASE SeekMissing
    BY <1>7, SeekMissingOrder
  <1>8. CASE BeginLocate
    BY <1>8, BeginLocateOrder
  <1>9. CASE CollectAddr
    BY <1>9, CollectAddrOrder
  <1>10. CASE CollectRest
    BY <1>10, CollectRestOrder
  <1>11. CASE NextBatch
    BY <1>11, NextBatchOrder
  <1>12. CASE EndLocate
    BY <1>12, EndLocateOrder
  <1>13. ASSUME NEW nid \in Nids, LocateAddr(nid) PROVE OInv'
    BY <1>13, LocateAddrOrder
  <1>14. CASE ReadFirst
    BY <1>14, ReadFirstOrder
  <1>15. CASE ReadNext
    BY <1>15, ReadNextOrder
  <1>16. CASE BeginNormalize
    BY <1>16, BeginNormalizeOrder
  <1>17. CASE NormalizeAddr
    BY <1>17, NormalizeAddrOrder
  <1>18. CASE NormalizeNext
    BY <1>18, NormalizeNextOrder
  <1>19. CASE EndNormalize
    BY <1>19, EndNormalizeOrder
  <1>20. CASE UNCHANGED vars
    BY <1>20, StutterOrder
  <1> QED
    BY <1>1, <1>2, <1>3, <1>4, <1>5, <1>6, <1>7, <1>8, <1>9, <1>10, <1>11, <1>12, <1>13,
       <1>14, <1>15, <1>16, <1>17, <1>18, <1>19, <1>20 DEF Next

\* Every state is in order.
LEMMA SpecOrder == Spec /\ []InLastBuffer => [](IInv /\ OInv)
  <1>1. Init => IInv /\ OInv
    BY InitInv, InitOrder
  <1>2. (IInv /\ OInv) /\ InLastBuffer' /\ [Next]_vars => (IInv /\ OInv)'
    BY NextInv, NextOrder
  <1> QED
    BY <1>1, <1>2, PTL DEF Spec

\* The addresses of the table.
LEMMA TableDomain == DOMAIN Table = {At(p) : p \in Positions}
  <1> DEFINE at == [p \in Positions |-> ItemAddr(p[1], p[2])]
  <1>1. DOMAIN Table = {at[p] : p \in Positions}
    BY Zenon DEF Table
  <1>2. \A p \in Positions : at[p] = At(p)
    BY DEF At
  <1> HIDE DEF at
  <1> QED
    BY <1>1, <1>2

\* size() counts the items, and no address is stored twice.
THEOREM SizeExact == Spec /\ []InLastBuffer => []SizeIsEntries
  <1>1. IInv /\ OInv => SizeIsEntries
    <2> SUFFICES ASSUME IInv, OInv PROVE SizeIsEntries
      OBVIOUS
    <2>1. /\ addr_clusters \in Seq(ClusterType) /\ Summed /\ Ordered
          /\ IsFiniteSet(Positions) /\ addr_size = Cardinality(Positions)
      BY DEF IInv, TypeOK, OInv, Places, Counted
    <2> DEFINE image == {At(p) : p \in Positions}
               at == [p \in Positions |-> At(p)]
    <2>2. at \in Bijection(Positions, image)
      <3>1. \A p, q \in Positions : At(p) = At(q) => p = q
        BY <2>1, OrderFacts
      <3>2. at \in [Positions -> image]
        OBVIOUS
      <3>3. at \in Injection(Positions, image)
        BY <3>1, <3>2 DEF Injection, IsInjective
      <3>4. at \in Surjection(Positions, image)
        BY <3>2 DEF Surjection
      <3> QED
        BY <3>3, <3>4 DEF Bijection
    <2>3. Cardinality(image) = Cardinality(Positions)
      <3> HIDE DEF at, image
      <3> QED
        BY <2>1, <2>2, FS_Bijection DEF ExistsBijection
    <2> QED
      BY <2>1, <2>3, TableDomain DEF SizeIsEntries
  <1> QED
    BY <1>1, SpecOrder, PTL

\* get_memory_type() updates a page while get_next() is already past it, and reaches every page.
THEOREM EveryPageLocated == Spec /\ []InLastBuffer => []LocatedAll
  <1>1. IInv /\ OInv => LocatedAll
    BY DEF OInv, Nodes, LocatedAll, Located, FirstWalk, FirstLocation
  <1> QED
    BY <1>1, SpecOrder, PTL

\* normalize_addr_sequence() reaches every page.
THEOREM PayloadsNormalized == Spec /\ []InLastBuffer => []NormalizedPayloads
  <1>1. IInv /\ OInv => NormalizedPayloads
    <2> SUFFICES ASSUME IInv, OInv, phase = "drift", ~InAppendPeriod, NEW a \in DOMAIN Table
                 PROVE  Table[a].refs <= 1
      BY DEF NormalizedPayloads
    <2>1. nr_walks > 1
      BY DEF InAppendPeriod, IInv, TypeOK
    <2>2. \A p \in Positions : Stored(p).payload <= 1
      BY <2>1 DEF OInv, Normalizes
    <2> DEFINE at == [p \in Positions |-> ItemAddr(p[1], p[2])]
               p0 == CHOOSE q \in Positions : at[q] = a
    <2>3. Table[a] = [refs |-> Stored(p0).payload, nid |-> Stored(p0).nid]
      BY Zenon DEF Table, Stored
    <2>4. \E q \in Positions : at[q] = a
      BY TableDomain DEF At
    <2>5. p0 \in Positions
      BY <2>4
    <2> HIDE DEF p0
    <2> QED
      BY <2>2, <2>3, <2>5
  <1> QED
    BY <1>1, SpecOrder, PTL

-----------------------------------------------------------------------------
(* The byte counters of a walk.                                            *)

\* The pages StatsExact speaks of, and when it does.
Young(l) == {p \in Positions : Stored(p).location = l /\ Seen(p)}
TopOf(l) == {p \in Young(l) : Stored(p).payload >= nr_walks}
Gauged   == clean /\ phase \in {"walk", "locate", "rest"}

\* No page was counted more often than there were walks, and none that this
\* walk did not count as often.
Gauges ==
  Gauged =>
    /\ \A p \in Positions :
         /\ Stored(p).payload <= nr_walks
         /\ nr_walks > 1 /\ At(p) \notin touched => Stored(p).payload <= nr_walks - 1
    /\ \A l \in Locations :
         /\ young_bytes[l] = PageSize * Cardinality(Young(l))
         /\ top_bytes[l] = PageSize * Cardinality(TopOf(l))

\* One page more, or none.
LEMMA OneMore ==
  ASSUME IsFiniteSet(Positions), NEW S \in SUBSET Positions, NEW T, NEW q \in Positions, q \notin S,
         NEW c \in BOOLEAN, T = IF c THEN S \cup {q} ELSE S,
         NEW x, NEW y, x = PageSize * Cardinality(S), y = IF c THEN x + PageSize ELSE x
  PROVE  y = PageSize * Cardinality(T)
  <1>1. IsFiniteSet(S) /\ Cardinality(S) \in Nat
    BY FS_Subset, FS_CardinalityType
  <1>2. CASE c
    <2>1. Cardinality(T) = Cardinality(S) + 1
      BY <1>1, <1>2, FS_AddElement
    <2>2. PageSize * (Cardinality(S) + 1) = PageSize * Cardinality(S) + PageSize
      BY <1>1, SizesAssumption
    <2> QED
      BY <1>2, <2>1, <2>2
  <1>3. CASE ~c
    BY <1>3
  <1> QED
    BY <1>2, <1>3

\* A step that neither writes an item nor counts one.
LEMMA SameGauges ==
  ASSUME Gauges, Gauged' => Gauged, Positions' = Positions,
         \A p \in Positions : At(p)' = At(p) /\ Stored(p)' = Stored(p),
         UNCHANGED <<statVars, nr_walks, touched>>
  PROVE  Gauges'
  <1>1. \A p \in Positions : Seen(p)' <=> Seen(p)
    BY DEF Seen, InAppendPeriod, At
  <1>2. \A l : Young(l)' = Young(l) /\ TopOf(l)' = TopOf(l)
    BY <1>1 DEF Young, TopOf
  <1> QED
    BY <1>2 DEF Gauges, statVars

\* rewind() and gather_walk_stats() start from zero.
LEMMA BeginWalkGauges ==
  ASSUME IInv, OInv, Gauges, BeginWalk
  PROVE  Gauges'
  <1>0. /\ UNCHANGED <<addr_clusters, clean>> /\ phase = "rest" /\ nr_walks \in Nat
        /\ nr_walks' = nr_walks + 1 /\ touched' = {} /\ top_bytes' = NoBytes /\ young_bytes' = NoBytes
    BY DEF BeginWalk, seqVars, IInv, TypeOK
  <1>1. Positions' = Positions /\ \A p : At(p)' = At(p) /\ Stored(p)' = Stored(p)
    BY <1>0, SameTable
  <1>2. nr_walks = 0 => Positions = {}
    BY <1>0 DEF IInv, Positions, Clusters
  <1>3. \A p \in Positions : ~Seen(p)'
    BY <1>0, <1>1, <1>2 DEF Seen, InAppendPeriod
  <1>4. \A l : Young(l)' = {} /\ TopOf(l)' = {}
    BY <1>1, <1>3 DEF Young, TopOf
  <1>5. Cardinality({}) = 0 /\ PageSize * 0 = 0
    BY FS_EmptySet, SizesAssumption
  <1>6. \A p \in Positions : Stored(p).payload \in Int
    BY PositionFacts, SizesAssumption DEF IInv, TypeOK, ItemType
  <1>7. Gauged' => Gauged
    BY <1>0 DEF Gauged
  <1>8. Gauged' => \A p \in Positions : Stored(p)'.payload <= nr_walks
    BY <1>1, <1>7 DEF Gauges
  <1>9. \A l \in Locations : young_bytes'[l] = 0 /\ top_bytes'[l] = 0
    BY <1>0 DEF NoBytes
  <1>10. Gauged' => \A p \in Positions' :
           /\ Stored(p)'.payload <= nr_walks'
           /\ nr_walks' > 1 /\ At(p)' \notin touched' => Stored(p)'.payload <= nr_walks' - 1
    BY <1>0, <1>1, <1>6, <1>8
  <1>11. \A l \in Locations :
           /\ young_bytes'[l] = PageSize * Cardinality(Young(l)')
           /\ top_bytes'[l] = PageSize * Cardinality(TopOf(l)')
    BY <1>4, <1>5, <1>9
  <1> QED
    BY <1>10, <1>11 DEF Gauges

\* A page that is appended has no node yet: it is not counted.
LEMMA AppendGauges ==
  ASSUME IInv, OInv, Gauges, NEW a \in Addrs, NEW n \in {0, 1}, AppendPageRef(a, n)
  PROVE  Gauges'
  <1>0. /\ UNCHANGED <<clean, phase, touched, statVars, nr_walks>>
        /\ phase = "walk" /\ nr_walks \in Nat /\ nr_walks = 1
    BY DEF AppendPageRef, AppendAddr, Reported, InAppendPeriod, IInv, TypeOK
  <1>1. CASE RefuseDuplicate(a) \/ AllocateFails(a) \/ ClusterFails(a)
    <2>1. UNCHANGED addr_clusters
      BY <1>1 DEF RefuseDuplicate, AllocateFails, ClusterFails, seqVars
    <2>2. Positions' = Positions /\ \A p : At(p)' = At(p) /\ Stored(p)' = Stored(p)
      BY <2>1, SameTable
    <2> QED
      BY <1>0, <2>2, SameGauges DEF Gauged
  <1>2. CASE MergeIntoCluster(a, n) \/ CreateCluster(a, n)
    <2>1. Added(a, n)
      BY <1>0, <1>2, MergeAdds, CreateAdds DEF OInv, Places
    <2>2. PICK q : /\ q \notin Positions /\ Positions' = Positions \cup {q}
                   /\ \A p \in Positions : At(p)' = At(p) /\ Stored(p)' = Stored(p)
                   /\ Stored(q)'.payload = n /\ Stored(q)'.nid = NoNid
      BY <2>1 DEF Added
    <2>3. ~Seen(q)' /\ \A p \in Positions : Seen(p)' <=> Seen(p)
      BY <1>0, <2>2 DEF Seen, InAppendPeriod
    <2>4. \A l : Young(l)' = Young(l)
      BY <2>2, <2>3 DEF Young
    <2>5. \A l : TopOf(l)' = TopOf(l)
      BY <1>0, <2>2, <2>4 DEF TopOf, Young
    <2> QED
      BY <1>0, <2>2, <2>4, <2>5 DEF Gauges, Gauged, statVars
  <1> QED
    BY <1>1, <1>2 DEF AppendPageRef, AppendAddr

\* What an update writes, and where it is counted: an access adds one, and a page
\* that is located was not counted yet.
LEMMA WrittenOnce ==
  ASSUME IInv, OInv, Gauges, MaxWalks < PayloadMod, SeekFound, ~(call.op = "inc" /\ call.arg = 0),
         Gauged', NEW q \in Positions, At(q) = call.addr, Stored(q)' = Written(Stored(q)),
         At(q)' = At(q)
  PROVE  /\ ~Seen(q)
         /\ Stored(q)'.location \in Locations
         /\ Stored(q)'.payload \in Nat /\ Stored(q)'.payload <= nr_walks
         /\ nr_walks > 1 => call.addr \in touched'
         /\ Seen(q)' <=> Stored(q)'.payload >= 1
  <1>a. clean' = (clean /\ (call.op = "inc" => call.addr \notin touched)) /\ clean'
    BY Zenon DEF SeekFound, Gauged
  <1>b. clean /\ (call.op = "inc" => call.addr \notin touched)
    BY <1>a, Zenon
  <1>c. /\ call # None /\ UNCHANGED <<nr_walks, phase>>
        /\ touched' = IF call.op = "inc" THEN touched \cup {call.addr} ELSE touched
    BY DEF SeekFound
  <1>d. Gauged
    BY <1>b, <1>c DEF Gauged
  <1>0. /\ addr_clusters \in Seq(ClusterType) /\ Summed /\ Gauged /\ nr_walks \in Nat /\ nr_walks <= MaxWalks
        /\ call # None /\ UNCHANGED <<nr_walks, phase>>
        /\ touched' = IF call.op = "inc" THEN touched \cup {call.addr} ELSE touched
        /\ call.op = "inc" => call.addr \notin touched
    BY <1>b, <1>c, <1>d DEF IInv, TypeOK
  <1>1. PICK item \in ItemType : item = Stored(q)
    BY <1>0, PositionFacts
  <1>2. Stored(q)' = Written(item)
    BY <1>1
  <1>3. /\ phase = "walk" => call.op = "inc" /\ nr_walks > 1
        /\ phase # "walk" => phase = "locate" /\ call.op = "nid" /\ nr_walks = 1
    BY <1>0 DEF OInv, Calls, Gauged
  <1>4. /\ item.payload \in Nat /\ item.payload <= nr_walks
        /\ nr_walks > 1 /\ At(q) \notin touched => item.payload <= nr_walks - 1
    BY <1>0, <1>1, SizesAssumption DEF Gauges, ItemType
  <1>5. CASE phase = "walk"
    <2>1. call.op = "inc" /\ At(q) \notin touched /\ nr_walks > 1
      BY <1>0, <1>3, <1>5
    <2>2. (item.payload + 1) % PayloadMod = item.payload + 1
      BY <1>0, <1>4, <2>1, SizesAssumption
    <2>3. Written(item) = [item EXCEPT !.payload = (item.payload + 1) % PayloadMod]
      BY <2>1 DEF Written
    <2> DEFINE r == (item.payload + 1) % PayloadMod
    <2> HIDE DEF r
    <2>4. Written(item).payload = r /\ Written(item).location = item.location /\ item.location \in Locations
      BY <2>3 DEF ItemType, r
    <2>5. ~Seen(q)
      BY <1>0, <2>1 DEF Seen, InAppendPeriod, At
    <2>6. Seen(q)' /\ call.addr \in touched'
      BY <1>0, <2>1 DEF Seen, InAppendPeriod, At
    <2>7. r = item.payload + 1
      BY <2>2 DEF r
    <2>8. r \in Nat /\ r <= nr_walks /\ r >= 1
      BY <1>0, <1>4, <2>1, <2>7
    <2> QED
      BY <1>2, <2>4, <2>5, <2>6, <2>8
  <1>6. CASE phase # "walk"
    <2>1. phase = "locate" /\ call.op = "nid" /\ nr_walks = 1 /\ call.arg \in Nids
      BY <1>0, <1>3, <1>6 DEF IInv, CallTyped
    <2> DEFINE l == Location(call.arg)
    <2>2. Written(item) = [item EXCEPT !.nid = call.arg, !.location = l]
      BY <2>1 DEF Written
    <2>3. l \in Locations
      BY DEF Location, Locations
    <2> HIDE DEF l
    <2>4. Written(item).payload = item.payload /\ Written(item).location = l /\ Written(item).nid = call.arg
      BY <2>2 DEF ItemType
    <2>5. item.nid = NoNid
      BY <1>0, <1>1, <2>1 DEF OInv, Nodes, FirstLocation, Asked
    <2>6. ~Seen(q)
      BY <1>1, <2>1, <2>5 DEF Seen, InAppendPeriod
    <2>7. call.arg # NoNid
      BY <2>1, ValuesAssumption DEF NoNid
    <2>8. Seen(q)' <=> Written(item).payload >= 1
      BY <1>0, <1>2, <1>4, <2>1, <2>4, <2>7 DEF Seen, InAppendPeriod
    <2> QED
      BY <1>2, <1>4, <2>1, <2>3, <2>4, <2>6, <2>8
  <1> QED
    BY <1>5, <1>6

\* update_addr_location_count(): the page is counted where it is, once.
LEMMA SeekFoundGauges ==
  ASSUME IInv, OInv, Gauges, MaxWalks < PayloadMod, SeekFound
  PROVE  Gauges'
  <1>0. /\ addr_clusters \in Seq(ClusterType) /\ Summed /\ nr_walks \in Nat /\ IsFiniteSet(Positions)
        /\ young_bytes \in [Locations -> Nat] /\ top_bytes \in [Locations -> Nat]
        /\ UNCHANGED <<nr_walks, phase>>
    BY DEF IInv, TypeOK, SeekFound, OInv, Places, Counted
  <1>1. CASE call.op = "inc" /\ call.arg = 0
    <2>1. UNCHANGED <<addr_clusters, statVars, touched, clean>>
      BY <1>1 DEF SeekFound
    <2>2. Positions' = Positions /\ \A p : At(p)' = At(p) /\ Stored(p)' = Stored(p)
      BY <2>1, SameTable
    <2>3. Gauged' => Gauged
      BY <1>0, <2>1 DEF Gauged
    <2> QED
      BY <1>0, <2>1, <2>2, <2>3, SameGauges
  <1>2. CASE ~(call.op = "inc" /\ call.arg = 0)
    <2>0. SUFFICES ASSUME Gauged' PROVE Gauges'
      BY DEF Gauges
    <2>1. PICK q \in Positions :
            /\ At(q) = call.addr /\ Positions' = Positions
            /\ \A p \in Positions : At(p)' = At(p)
            /\ \A p \in Positions : p # q => Stored(p)' = Stored(p)
            /\ Stored(q)' = Written(Stored(q))
            /\ CountLocation(Written(Stored(q)))
      BY <1>2, WriteTable
    <2>a. clean' = (clean /\ (call.op = "inc" => call.addr \notin touched)) /\ clean'
      BY <1>2, <2>0, Zenon DEF SeekFound, Gauged
    <2>b. clean
      BY <2>a, Zenon
    <2>2. Gauged
      BY <1>0, <2>0, <2>b DEF Gauged
    <2>3. /\ ~Seen(q)
          /\ Stored(q)'.location \in Locations
          /\ Stored(q)'.payload \in Nat /\ Stored(q)'.payload <= nr_walks
          /\ nr_walks > 1 => call.addr \in touched'
          /\ Seen(q)' <=> Stored(q)'.payload >= 1
      BY <1>2, <2>0, <2>1, WrittenOnce
    <2>4. PICK item : item = Stored(q)'
      OBVIOUS
    <2>5. CountLocation(item)
      BY <2>1, <2>4
    <2>6. \A p \in Positions : p # q => (Seen(p)' <=> Seen(p))
      <3>1. SUFFICES ASSUME NEW p \in Positions, p # q PROVE Seen(p)' <=> Seen(p)
        OBVIOUS
      <3>2. At(p) # call.addr
        BY <2>1, <3>1, <1>0, OrderFacts DEF OInv, Places
      <3>3. touched' = touched \/ touched' = touched \cup {call.addr}
        BY <1>2 DEF SeekFound
      <3> QED
        BY <1>0, <2>1, <3>1, <3>2, <3>3 DEF Seen, InAppendPeriod, At
    <2>7. \A p \in Positions :
            /\ Stored(p)'.payload <= nr_walks'
            /\ nr_walks' > 1 /\ At(p)' \notin touched' => Stored(p)'.payload <= nr_walks' - 1
      <3>1. touched \subseteq touched'
        BY <1>2 DEF SeekFound
      <3> QED
        BY <1>0, <2>1, <2>2, <2>3, <3>1 DEF Gauges
    <2>8. ASSUME NEW l \in Locations
          PROVE  /\ young_bytes'[l] = PageSize * Cardinality(Young(l)')
                 /\ top_bytes'[l] = PageSize * Cardinality(TopOf(l)')
      <3>0. PICK here \in BOOLEAN : here <=> item.location = l
        OBVIOUS
      <3>1. q \notin Young(l) /\ q \notin TopOf(l) /\ Young(l) \in SUBSET Positions /\ TopOf(l) \in SUBSET Positions
        BY <2>3 DEF Young, TopOf
      <3>2. PICK young \in BOOLEAN : young <=> here /\ item.payload >= 1
        OBVIOUS
      <3>3. PICK top \in BOOLEAN : top <=> here /\ item.payload >= nr_walks
        OBVIOUS
      <3>4. Young(l)' = IF young THEN Young(l) \cup {q} ELSE Young(l)
        BY <2>1, <2>3, <2>4, <2>6, <3>0, <3>2 DEF Young
      <3>5. nr_walks >= 1
        BY <1>0 DEF IInv, Positions, Clusters
      <3>6. TopOf(l)' = IF top THEN TopOf(l) \cup {q} ELSE TopOf(l)
        BY <1>0, <2>1, <2>3, <2>4, <2>6, <3>0, <3>2, <3>3, <3>4, <3>5 DEF TopOf, Young
      <3>7. /\ young_bytes'[l] = IF young THEN young_bytes[l] + PageSize ELSE young_bytes[l]
            /\ top_bytes'[l] = IF top THEN top_bytes[l] + PageSize ELSE top_bytes[l]
        BY <1>0, <2>3, <2>4, <2>5, <3>0, <3>2, <3>3 DEF CountLocation
      <3>8. /\ young_bytes[l] = PageSize * Cardinality(Young(l))
            /\ top_bytes[l] = PageSize * Cardinality(TopOf(l))
        BY <2>2 DEF Gauges
      <3>9. young_bytes'[l] = PageSize * Cardinality(Young(l)')
        <4>1. PICK S, T, x, y : S = Young(l) /\ T = Young(l)' /\ x = young_bytes[l] /\ y = young_bytes'[l]
          OBVIOUS
        <4>2. /\ S \in SUBSET Positions /\ q \notin S /\ T = IF young THEN S \cup {q} ELSE S
              /\ x = PageSize * Cardinality(S) /\ y = IF young THEN x + PageSize ELSE x
          BY <3>1, <3>4, <3>7, <3>8, <4>1
        <4>3. y = PageSize * Cardinality(T)
          BY <1>0, <4>2, OneMore, SMTT(60)
        <4> QED
          BY <4>1, <4>3
      <3>10. top_bytes'[l] = PageSize * Cardinality(TopOf(l)')
        <4>1. PICK S, T, x, y : S = TopOf(l) /\ T = TopOf(l)' /\ x = top_bytes[l] /\ y = top_bytes'[l]
          OBVIOUS
        <4>2. /\ S \in SUBSET Positions /\ q \notin S /\ T = IF top THEN S \cup {q} ELSE S
              /\ x = PageSize * Cardinality(S) /\ y = IF top THEN x + PageSize ELSE x
          BY <3>1, <3>6, <3>7, <3>8, <4>1
        <4>3. y = PageSize * Cardinality(T)
          BY <1>0, <4>2, OneMore, SMTT(60)
        <4> QED
          BY <4>1, <4>3
      <3> QED
        BY <3>9, <3>10
    <2> QED
      BY <2>1, <2>7, <2>8 DEF Gauges
  <1> QED
    BY <1>1, <1>2

\* Every step keeps the counters exact.
LEMMA NextGauges == MaxWalks < PayloadMod /\ IInv /\ OInv /\ Gauges /\ [Next]_vars => Gauges'
  <1> SUFFICES ASSUME MaxWalks < PayloadMod, IInv, OInv, Gauges, [Next]_vars PROVE Gauges'
    OBVIOUS
  <1>1. CASE BeginWalk
    BY <1>1, BeginWalkGauges
  <1>2. ASSUME NEW a \in Addrs, NEW n \in {0, 1}, AppendPageRef(a, n) PROVE Gauges'
    BY <1>2, AppendGauges
  <1>3. CASE SeekFound
    BY <1>3, SeekFoundGauges
  <1>4. CASE \/ ReadFirst \/ ReadNext \/ BeginNormalize \/ NormalizeAddr \/ NormalizeNext \/ EndNormalize
    <2>1. ~Gauged'
      BY <1>4 DEF Gauged, ReadFirst, ReadNext, BeginNormalize, NormalizeAddr, NormalizeNext,
                  EndNormalize, envVars
    <2> QED
      BY <2>1 DEF Gauges
  <1>5. CASE UNCHANGED <<addr_clusters, statVars, nr_walks, touched, clean>> /\ (Gauged' => Gauged)
    <2>1. Positions' = Positions /\ \A p : At(p)' = At(p) /\ Stored(p)' = Stored(p)
      BY <1>5, SameTable
    <2> QED
      BY <1>5, <2>1, SameGauges
  <1>6. ASSUME NEW a \in Addrs, NEW n \in {0, 1}, CountPageRef(a, n) PROVE Gauges'
    BY <1>5, <1>6 DEF CountPageRef, Ask, Reported, seqVars, Gauged
  <1>7. ASSUME NEW nid \in Nids, LocateAddr(nid) PROVE Gauges'
    BY <1>5, <1>7 DEF LocateAddr, Ask, Deny, seqVars, Gauged
  <1>8. CASE EndWalk \/ SeekNext \/ SeekMissing \/ UNCHANGED vars
    BY <1>5, <1>8 DEF EndWalk, SeekNext, SeekMissing, vars, seqVars, envVars, Gauged
  <1>9. CASE BeginLocate \/ CollectAddr \/ CollectRest \/ NextBatch \/ EndLocate
    BY <1>5, <1>9 DEF BeginLocate, CollectAddr, CollectRest, NextBatch, EndLocate, seqVars, Gauged
  <1> QED
    BY <1>1, <1>2, <1>3, <1>4, <1>6, <1>7, <1>8, <1>9 DEF Next

\* The byte counters are exact as long as a payload can hold the number of walks, which
\* nothing in GlobalScan::walk_multi() ensures.
THEOREM CountersExact == MaxWalks < PayloadMod => (Spec /\ []InLastBuffer => []StatsExact)
  <1> SUFFICES ASSUME MaxWalks < PayloadMod PROVE Spec /\ []InLastBuffer => []StatsExact
    OBVIOUS
  <1>1. Init => Gauges
    <2> SUFFICES ASSUME Init PROVE Gauges
      OBVIOUS
    <2>1. Positions = {}
      BY DEF Init, Positions, Clusters
    <2>2. \A l : Young(l) = {} /\ TopOf(l) = {}
      BY <2>1 DEF Young, TopOf
    <2>3. Cardinality({}) = 0 /\ PageSize * 0 = 0
      BY FS_EmptySet, SizesAssumption
    <2>4. \A l \in Locations : young_bytes[l] = 0 /\ top_bytes[l] = 0
      BY DEF Init, NoBytes
    <2> QED
      BY <2>1, <2>2, <2>3, <2>4 DEF Gauges
  <1>2. IInv /\ OInv /\ Gauges /\ [Next]_vars => Gauges'
    BY NextGauges
  <1>3. Gauges => StatsExact
    <2> SUFFICES ASSUME Gauges, clean, phase \in {"walk", "locate", "rest"}, NEW l \in Locations
                 PROVE  LET counted == {p \in Positions : Stored(p).location = l /\ Seen(p)}
                            top     == {p \in counted : Stored(p).payload >= nr_walks}
                        IN  /\ young_bytes[l] = PageSize * Cardinality(counted)
                            /\ top_bytes[l] = PageSize * Cardinality(top)
      BY Zenon DEF StatsExact
    <2>1. /\ young_bytes[l] = PageSize * Cardinality(Young(l))
          /\ top_bytes[l] = PageSize * Cardinality(TopOf(l))
      BY DEF Gauges, Gauged
    <2> QED
      BY <2>1, Zenon DEF Young, TopOf
  <1> QED
    BY <1>1, <1>2, <1>3, SpecOrder, PTL DEF Spec

-----------------------------------------------------------------------------
(* How far a payload counts.                                               *)

\* The most that k walks can count, with the addresses that are reported twice.
Most(k) == 1 + (k - 1) * (1 + MaxRepeats)

\* The payload is wide enough for the period.  The code does not see to it:
\* GlobalScan::walk_multi() walks nr_scans * nr_scan_rounds times, whatever the
\* options say (3 * 2 by default, Option.h:127-128).
PayloadsFit == Most(MaxWalks) < PayloadMod

\* A walk counts a page once and once more for each repetition, and the update
\* in progress is still to come.
Counts ==
  phase \in {"rest", "walk", "locate"} =>
    \A p \in Positions :
      /\ Stored(p).payload <= Most(nr_walks)
      /\ phase = "walk" /\ nr_walks > 1 =>
           /\ At(p) > last_addr => Stored(p).payload <= Most(nr_walks - 1)
           /\ At(p) = last_addr =>
                Stored(p).payload + (IF call = None THEN 0 ELSE 1) <= Most(nr_walks - 1) + 1 + repeats

\* One walk more counts one more, and once more for each repetition.
LEMMA MostIs ==
  ASSUME NEW k \in Nat
  PROVE  /\ Most(k) \in Int /\ Most(1) = 1
         /\ Most(k + 1) = Most(k) + 1 + MaxRepeats
         /\ k > 0 => Most(k) = Most(k - 1) + 1 + MaxRepeats
  <1> DEFINE t == 1 + MaxRepeats
  <1>1. t \in Nat /\ MaxRepeats \in Nat
    BY SizesAssumption
  <1>2. Most(k) = 1 + (k - 1) * t /\ Most(k + 1) = 1 + ((k + 1) - 1) * t /\ Most(k - 1) = 1 + ((k - 1) - 1) * t
        /\ Most(1) = 1 + (1 - 1) * t
    BY DEF Most
  <1>3. t = 1 + MaxRepeats
    OBVIOUS
  <1> HIDE DEF t
  <1>4. k * t = (k - 1) * t + t /\ (k - 1) * t = ((k - 1) - 1) * t + t /\ (k - 1) * t \in Int
    BY <1>1
  <1>5. (k + 1) - 1 = k /\ (1 - 1) * t = 0
    BY <1>1
  <1>6. ((k - 1) - 1) * t \in Int
    BY <1>1
  <1> QED
    BY <1>1, <1>2, <1>3, <1>4, <1>5, <1>6

\* No period counts more than a whole one.
LEMMA MostGrows ==
  ASSUME NEW k \in Nat, k <= MaxWalks
  PROVE  Most(k) <= Most(MaxWalks) /\ Most(k) \in Int /\ Most(MaxWalks) \in Int
  <1> DEFINE t == 1 + MaxRepeats
  <1>1. t \in Nat /\ MaxWalks \in Nat
    BY SizesAssumption
  <1>2. Most(k) = 1 + (k - 1) * t /\ Most(MaxWalks) = 1 + (MaxWalks - 1) * t
    BY DEF Most
  <1> HIDE DEF t
  <1>3. (k - 1) * t <= (MaxWalks - 1) * t /\ (k - 1) * t \in Int /\ (MaxWalks - 1) * t \in Int
    BY <1>1
  <1> QED
    BY <1>2, <1>3

\* A step that leaves the table, the walk and what it was asked alone.
LEMMA SameCounts ==
  ASSUME IInv, Counts, Positions' = Positions, \A p \in Positions : At(p)' = At(p) /\ Stored(p)' = Stored(p),
         UNCHANGED <<nr_walks, last_addr, repeats>>, phase' = phase \/ phase' # "walk",
         phase' \in {"rest", "walk", "locate"} => phase \in {"rest", "walk", "locate"},
         phase' = "walk" => call' = call \/ call' = None
  PROVE  Counts'
  <1>1. \A p \in Positions : Stored(p).payload \in Int /\ At(p) \in Nat
    BY PositionFacts, SizesAssumption DEF IInv, TypeOK, ItemType
  <1>2. Most(nr_walks - 1) + 1 + repeats \in Int
    BY MostIs, SizesAssumption DEF IInv, TypeOK, Most
  <1>3. Most(nr_walks)' = Most(nr_walks) /\ Most(nr_walks - 1)' = Most(nr_walks - 1)
    BY DEF Most
  <1> QED
    BY <1>1, <1>2, <1>3 DEF Counts

\* Every step keeps the payloads within what the walks could count.
LEMMA NextCounts ==
  ASSUME PayloadsFit, IInv, OInv, Counts, [Next]_vars
  PROVE  Counts'
  <1>0. /\ addr_clusters \in Seq(ClusterType) /\ Summed /\ nr_walks \in Nat /\ nr_walks <= MaxWalks
        /\ repeats \in Nat /\ repeats <= MaxRepeats /\ last_addr \in Int /\ MaxRepeats \in Nat
        /\ call # None => call.addr \in Addrs /\ call.op \in {"inc", "set", "nid"}
    BY SizesAssumption, ValuesAssumption DEF IInv, TypeOK
  <1>1. \A p \in Positions : Stored(p).payload \in Nat /\ At(p) \in Nat
    BY <1>0, PositionFacts, SizesAssumption DEF ItemType
  <1>2. /\ Most(nr_walks) \in Int /\ Most(nr_walks - 1) \in Int /\ Most(1) = 1
        /\ Most(nr_walks + 1) = Most(nr_walks) + 1 + MaxRepeats
        /\ nr_walks > 0 => Most(nr_walks) = Most(nr_walks - 1) + 1 + MaxRepeats
        /\ Most(nr_walks) < PayloadMod /\ PayloadMod \in Nat
    <2>1. Most(nr_walks) <= Most(MaxWalks) /\ Most(MaxWalks) \in Int
      BY <1>0, MostGrows
    <2>2. PayloadMod \in Nat
      BY SizesAssumption
    <2>3. Most(nr_walks - 1) \in Int
      BY <1>0 DEF Most
    <2> QED
      BY <1>0, <2>1, <2>2, <2>3, MostIs DEF PayloadsFit
  <1>3. CASE UNCHANGED addr_clusters /\ phase' \notin {"rest", "walk", "locate"}
    BY <1>3 DEF Counts
  <1>4. CASE /\ UNCHANGED <<addr_clusters, nr_walks, last_addr, repeats>>
             /\ phase' = phase \/ phase' # "walk"
             /\ phase' \in {"rest", "walk", "locate"} => phase \in {"rest", "walk", "locate"}
             /\ phase' = "walk" => call' = call \/ call' = None
    <2>1. Positions' = Positions /\ \A p : At(p)' = At(p) /\ Stored(p)' = Stored(p)
      BY <1>4, SameTable
    <2> QED
      BY <1>4, <2>1, SameCounts
  <1>5. CASE UNCHANGED <<addr_clusters, nr_walks>> /\ phase \in {"rest", "walk", "locate"} /\ phase' \in {"rest", "locate"}
    <2>1. Positions' = Positions /\ \A p : Stored(p)' = Stored(p)
      BY <1>5, SameTable
    <2>2. Most(nr_walks)' = Most(nr_walks)
      BY <1>5 DEF Most
    <2> QED
      BY <1>5, <2>1, <2>2 DEF Counts
  <1>6. CASE BeginWalk
    <2>1. Positions' = Positions /\ \A p : At(p)' = At(p) /\ Stored(p)' = Stored(p)
      BY <1>6, SameTable DEF BeginWalk, seqVars
    <2>2. nr_walks' = nr_walks + 1 /\ phase = "rest" /\ call = None /\ call' = None
          /\ UNCHANGED <<last_addr, repeats>>
      BY <1>6 DEF BeginWalk, OInv, Calls
    <2>3. Most(nr_walks)' = Most(nr_walks) + 1 + MaxRepeats /\ Most(nr_walks - 1)' = Most(nr_walks)
      BY <1>0, <1>2, <2>2 DEF Most
    <2>4. \A p \in Positions : Stored(p).payload <= Most(nr_walks)
      BY <2>2 DEF Counts
    <2>5. \A p \in Positions' : Stored(p)'.payload <= Most(nr_walks)'
      BY <1>0, <1>1, <1>2, <2>1, <2>3, <2>4
    <2>6. \A p \in Positions' : Stored(p)'.payload + 0 <= Most(nr_walks - 1)' + 1 + repeats'
      <3>1. PICK m \in Int, k \in Nat : m = Most(nr_walks) /\ k = repeats
        BY <1>0, <1>2
      <3>2. \A p \in Positions : Stored(p).payload \in Nat /\ Stored(p).payload <= m
        BY <1>1, <2>4, <3>1
      <3>3. \A p \in Positions : Stored(p).payload + 0 <= m + 1 + k
        BY <3>1, <3>2
      <3>4. Most(nr_walks - 1)' = m /\ repeats' = k
        BY <2>2, <2>3, <3>1
      <3> QED
        BY <2>1, <3>3, <3>4
    <2>7. \A p \in Positions' : Stored(p)'.payload <= Most(nr_walks - 1)'
      BY <2>1, <2>3, <2>4
    <2> QED
      BY <2>2, <2>5, <2>6, <2>7 DEF Counts
  <1>7. ASSUME NEW a \in Addrs, NEW n \in {0, 1}, AppendPageRef(a, n) PROVE Counts'
    <2>1. /\ UNCHANGED nr_walks /\ phase = "walk" /\ nr_walks = 1
      BY <1>0, <1>7 DEF AppendPageRef, AppendAddr, Reported, InAppendPeriod, IInv, TypeOK
    <2>2. \A p \in Positions : Stored(p).payload <= 1
      BY <1>2, <2>1 DEF Counts
    <2>3. \A p \in Positions' : Stored(p)'.payload <= 1
      <3>1. CASE RefuseDuplicate(a) \/ AllocateFails(a) \/ ClusterFails(a)
        <4>1. UNCHANGED addr_clusters
          BY <3>1 DEF RefuseDuplicate, AllocateFails, ClusterFails, seqVars
        <4> QED
          BY <2>2, <4>1, SameTable
      <3>2. CASE MergeIntoCluster(a, n) \/ CreateCluster(a, n)
        <4>1. Added(a, n)
          BY <2>1, <3>2, MergeAdds, CreateAdds DEF OInv, Places
        <4> QED
          BY <2>2, <4>1 DEF Added
      <3> QED
        BY <1>7, <3>1, <3>2 DEF AppendPageRef, AppendAddr
    <2>4. Most(nr_walks)' = 1
      BY <1>2, <2>1 DEF Most
    <2> QED
      BY <2>1, <2>3, <2>4 DEF Counts
  <1>8. ASSUME NEW a \in Addrs, NEW n \in {0, 1}, CountPageRef(a, n) PROVE Counts'
    <2>1. /\ UNCHANGED <<addr_clusters, nr_walks>> /\ phase = "walk" /\ call = None /\ nr_walks > 1
          /\ a > last_addr \/ (a = last_addr /\ repeats < MaxRepeats)
          /\ last_addr' = a
          /\ repeats' = IF a = last_addr THEN repeats + 1 ELSE repeats
          /\ a \in Nat
      BY <1>0, <1>8, ValuesAssumption DEF CountPageRef, Ask, seqVars, Reported, InAppendPeriod
    <2>2. Positions' = Positions /\ \A p : At(p)' = At(p) /\ Stored(p)' = Stored(p)
      BY <2>1, SameTable
    <2>3. Most(nr_walks)' = Most(nr_walks) /\ Most(nr_walks - 1)' = Most(nr_walks - 1)
      BY <2>1 DEF Most
    <2>4. \A p \in Positions :
            /\ Stored(p).payload <= Most(nr_walks)
            /\ At(p) > last_addr => Stored(p).payload <= Most(nr_walks - 1)
            /\ At(p) = last_addr => Stored(p).payload + 0 <= Most(nr_walks - 1) + 1 + repeats
      BY <2>1 DEF Counts
    <2>5. ASSUME NEW p \in Positions
          PROVE  /\ At(p) > a => Stored(p).payload <= Most(nr_walks - 1)
                 /\ At(p) = a => Stored(p).payload + 1 <= Most(nr_walks - 1) + 1 + repeats'
      <3>1. PICK m \in Int, k \in Nat, n1 \in Nat, b \in Nat, c \in Int :
              /\ m = Most(nr_walks - 1) /\ k = repeats /\ n1 = Stored(p).payload /\ b = At(p) /\ c = last_addr
        BY <1>0, <1>1, <1>2
      <3>2. /\ b > c => n1 <= m
            /\ b = c => n1 + 0 <= m + 1 + k
        BY <2>4, <3>1
      <3>3. (a > c /\ repeats' = k) \/ (a = c /\ repeats' = k + 1)
        BY <1>0, <2>1, <3>1
      <3>4. /\ b > a => n1 <= m
            /\ b = a => n1 + 1 <= m + 1 + repeats'
        BY <2>1, <3>1, <3>2, <3>3
      <3> QED
        BY <3>1, <3>4
    <2>6. \A p \in Positions : At(p) = a =>
            Stored(p).payload + (IF call' = None THEN 0 ELSE 1) <= Most(nr_walks - 1) + 1 + repeats'
      <3>1. call' # None
        <4>1. call' \in [op : {"inc", "set", "nid"}, addr : Addrs, arg : {0, 1} \cup Nids]
          BY <1>8 DEF CountPageRef, Ask
        <4> QED
          BY <4>1, ValuesAssumption
      <3> QED
        BY <2>5, <3>1
    <2> QED
      BY <2>1, <2>2, <2>3, <2>4, <2>5, <2>6 DEF Counts
  <1>9. CASE SeekFound
    <2>1. UNCHANGED <<nr_walks, last_addr, repeats, phase>> /\ call # None /\ call' = None
      BY <1>9 DEF SeekFound
    <2>2. CASE call.op = "inc" /\ call.arg = 0
      <3>1. UNCHANGED addr_clusters
        BY <1>9, <2>2 DEF SeekFound
      <3> QED
        BY <1>4, <2>1, <3>1
    <2>3. CASE ~(call.op = "inc" /\ call.arg = 0)
      <3>1. PICK q \in Positions :
            /\ At(q) = call.addr /\ Positions' = Positions
            /\ \A p \in Positions : At(p)' = At(p)
            /\ \A p \in Positions : p # q => Stored(p)' = Stored(p)
            /\ Stored(q)' = Written(Stored(q))
        BY <1>9, <2>3, WriteTable
      <3>2. Most(nr_walks)' = Most(nr_walks) /\ Most(nr_walks - 1)' = Most(nr_walks - 1)
        BY <2>1 DEF Most
      <3>3. SUFFICES ASSUME phase \in {"rest", "walk", "locate"} PROVE Counts'
        BY <2>1 DEF Counts
      <3>4. PICK item \in ItemType : item = Stored(q)
        BY <1>0, <3>1, PositionFacts
      <3>5. item.payload \in Nat
        BY <1>1, <3>4
      <3>6. CASE phase = "walk"
        <4>1. call.op = "inc" /\ nr_walks > 1 /\ call.addr = last_addr
          BY <2>1, <3>6 DEF OInv, Calls
        <4>2. item.payload + 1 <= Most(nr_walks - 1) + 1 + repeats
          BY <2>1, <3>1, <3>4, <3>6, <4>1 DEF Counts
        <4>3. item.payload + 1 <= Most(nr_walks)
          BY <1>0, <1>2, <3>5, <4>1, <4>2
        <4>4. (item.payload + 1) % PayloadMod = item.payload + 1
          BY <1>2, <3>5, <4>3
        <4> DEFINE r == (item.payload + 1) % PayloadMod
        <4>5. Written(item) = [item EXCEPT !.payload = r]
          BY <4>1 DEF Written
        <4>6. r = item.payload + 1
          BY <4>4
        <4> HIDE DEF r
        <4>7. Stored(q)'.payload = item.payload + 1
          BY <3>1, <3>4, <4>5, <4>6 DEF ItemType
        <4>8. \A p \in Positions : Stored(p)'.payload <= Most(nr_walks)
          BY <3>1, <3>6, <4>3, <4>7 DEF Counts
        <4>9. \A p \in Positions : At(p) > last_addr => Stored(p)'.payload <= Most(nr_walks - 1)
          BY <1>0, <1>1, <3>1, <3>6, <4>1 DEF Counts
        <4>10. \A p \in Positions : At(p) = last_addr => Stored(p)'.payload + 0 <= Most(nr_walks - 1) + 1 + repeats
          <5>1. \A p \in Positions : At(p) = last_addr => p = q
            BY <1>0, <3>1, <4>1, OrderFacts DEF OInv, Places
          <5> QED
            BY <3>5, <4>2, <4>7, <5>1
        <4> QED
          BY <2>1, <3>1, <3>2, <4>8, <4>9, <4>10 DEF Counts
      <3>7. CASE phase # "walk"
        <4>1. call.op = "nid"
          BY <2>1, <3>3, <3>7 DEF OInv, Calls
        <4> DEFINE l == Location(call.arg)
        <4>2. Written(item) = [item EXCEPT !.nid = call.arg, !.location = l]
          BY <4>1 DEF Written
        <4> HIDE DEF l
        <4>3. Stored(q)'.payload = item.payload
          BY <3>1, <3>4, <4>2 DEF ItemType
        <4> QED
          BY <2>1, <3>1, <3>2, <3>3, <3>4, <3>7, <4>3 DEF Counts
      <3> QED
        BY <3>6, <3>7
    <2> QED
      BY <2>2, <2>3
  <1>10. CASE ReadFirst \/ ReadNext \/ BeginNormalize \/ NormalizeAddr \/ NormalizeNext \/ EndNormalize
    <2>1. phase' \notin {"rest", "walk", "locate"}
      BY <1>10 DEF ReadFirst, ReadNext, BeginNormalize, NormalizeAddr, NormalizeNext, EndNormalize, envVars
    <2> QED
      BY <2>1 DEF Counts
  <1>11. CASE EndWalk \/ BeginLocate
    BY <1>5, <1>11 DEF EndWalk, BeginLocate, seqVars
  <1>12. ASSUME NEW nid \in Nids, LocateAddr(nid) PROVE Counts'
    BY <1>5, <1>12 DEF LocateAddr, Ask, Deny, seqVars
  <1>13. CASE CollectAddr \/ CollectRest \/ NextBatch \/ EndLocate
    BY <1>5, <1>13 DEF CollectAddr, CollectRest, NextBatch, EndLocate, seqVars
  <1>14. CASE SeekNext \/ SeekMissing \/ UNCHANGED vars
    BY <1>4, <1>14 DEF SeekNext, SeekMissing, vars, seqVars, envVars
  <1> QED
    BY <1>6, <1>7, <1>8, <1>9, <1>10, <1>11, <1>12, <1>13, <1>14 DEF Next

-----------------------------------------------------------------------------
(* The table implements its contract.                                      *)

EntryOf(p) == [refs |-> Stored(p).payload, nid |-> Stored(p).nid]

\* What the sequence stands for: the entries of its items, under their addresses.
TableFacts ==
  /\ Table = [a \in DOMAIN Table |-> Table[a]]
  /\ DOMAIN Table = {At(p) : p \in Positions}
  /\ \A p \in Positions : /\ Table[At(p)] = EntryOf(p)
                          /\ At(p) \in Addrs /\ At(p) \in Nat
  /\ \A p, q \in Positions : At(p) = At(q) => p = q

\* An ordered table is a function of addresses.
LEMMA TableIs == IInv /\ OInv => TableFacts
  <1> SUFFICES ASSUME IInv, OInv PROVE TableFacts
    OBVIOUS
  <1>0. addr_clusters \in Seq(ClusterType) /\ Summed /\ Ordered
    BY DEF IInv, TypeOK, OInv, Places
  <1>1. \A p, q \in Positions : At(p) = At(q) => p = q
    BY <1>0, OrderFacts
  <1>2. \A p \in Positions : At(p) \in Addrs /\ At(p) \in Nat
    BY <1>0, PositionFacts
  <1> DEFINE at == [p \in Positions |-> ItemAddr(p[1], p[2])]
  <1>3. Table = [a \in {at[p] : p \in Positions} |->
                   LET p == CHOOSE q \in Positions : at[q] = a
                       item == addr_clusters[p[1]].deltas[p[2]]
                   IN  [refs |-> item.payload, nid |-> item.nid]]
    BY Zenon DEF Table
  <1>4. \A p \in Positions : at[p] = At(p)
    BY DEF At
  <1> HIDE DEF at
  <1>5. Table = [a \in DOMAIN Table |-> Table[a]]
    BY <1>3
  <1>6. ASSUME NEW p \in Positions PROVE Table[At(p)] = EntryOf(p)
    <2> DEFINE q0 == CHOOSE q \in Positions : at[q] = At(p)
    <2>1. q0 \in Positions /\ at[q0] = At(p)
      BY <1>4
    <2>2. q0 = p
      BY <1>1, <1>4, <2>1
    <2>3. At(p) \in {at[q] : q \in Positions}
      BY <1>4
    <2>4. Table[At(p)] = [refs |-> addr_clusters[q0[1]].deltas[q0[2]].payload,
                          nid |-> addr_clusters[q0[1]].deltas[q0[2]].nid]
      BY <1>3, <2>3
    <2> HIDE DEF q0
    <2> QED
      BY <2>2, <2>4 DEF EntryOf, Stored
  <1> QED
    BY <1>1, <1>2, <1>5, <1>6, TableDomain DEF TableFacts

\* It is one after a step, too.
LEMMA TableIsNext == (IInv /\ OInv)' => TableFacts'
  BY TableIs, PTL

\* A step that moves and writes no item leaves the table alone.
LEMMA SameEntries ==
  ASSUME TableFacts, TableFacts', Positions' = Positions,
         \A p \in Positions : At(p)' = At(p) /\ EntryOf(p)' = EntryOf(p)
  PROVE  Table' = Table
  <1>1. DOMAIN Table' = DOMAIN Table
    BY DEF TableFacts
  <1>2. \A a \in DOMAIN Table : Table'[a] = Table[a]
    <2>1. SUFFICES ASSUME NEW p \in Positions PROVE Table'[At(p)] = Table[At(p)]
      BY DEF TableFacts
    <2>2. Table'[At(p)'] = EntryOf(p)'
      BY DEF TableFacts
    <2> QED
      BY <2>2 DEF TableFacts
  <1>3. Table = [a \in DOMAIN Table |-> Table[a]] /\ Table' = [a \in DOMAIN Table' |-> Table'[a]]
    BY DEF TableFacts
  <1> QED
    BY <1>1, <1>2, <1>3

\* So does one that leaves the clusters alone.
LEMMA SameTableValue ==
  ASSUME TableFacts, TableFacts', UNCHANGED addr_clusters
  PROVE  Table' = Table
  <1>1. Positions' = Positions /\ \A p : At(p)' = At(p) /\ Stored(p)' = Stored(p)
    BY SameTable
  <1>2. \A p \in Positions : EntryOf(p)' = EntryOf(p)
    BY <1>1 DEF EntryOf
  <1> QED
    BY <1>1, <1>2, SameEntries

\* The least address of a set.
LEMMA LeastIs ==
  ASSUME NEW S \in SUBSET Nat, NEW a \in S, \A b \in S : a <= b
  PROVE  Contract!Least(S) = a
  <1> DEFINE c == CHOOSE x \in S : \A b \in S : x <= b
  <1>1. c \in S /\ \A b \in S : c <= b
    OBVIOUS
  <1>2. Contract!Least(S) = c
    BY DEF Contract!Least
  <1> HIDE DEF c
  <1> QED
    BY <1>1, <1>2

\* A read that starts over reads the entry with the least address.
LEMMA ReadsFirst ==
  ASSUME IInv, OInv, IInv', OInv', GetFirst, UNCHANGED <<addr_clusters, nr_walks, call>>
  PROVE  Contract!ReadFirst
  <1>0. TableFacts /\ TableFacts' /\ Table' = Table
    BY TableIs, TableIsNext, SameTableValue
  <1>1. /\ addr_clusters \in Seq(ClusterType) /\ ItemsInBuffers /\ Summed /\ Ordered
    BY DEF IInv, TypeOK, Packed, OInv, Places
  <1>2. /\ got' = EndOfSequence => Positions = {}
        /\ got' # EndOfSequence =>
              /\ \E p \in Positions :
                   /\ At(p) = got'.addr
                   /\ got'.refs = Stored(p).payload /\ got'.nid = Stored(p).nid
              /\ \A p \in Positions : At(p) >= got'.addr
    BY <1>1, GetFirstReads
  <1>3. got' = EndOfSequence \/ got' = [addr |-> got'.addr, refs |-> got'.refs, nid |-> got'.nid]
    BY DEF GetFirst, DoGet
  <1>4. Contract!Read(DOMAIN Table)
    <2>1. CASE got' = EndOfSequence
      BY <1>0, <1>2, <2>1 DEF Contract!Read, TableFacts
    <2>2. CASE got' # EndOfSequence
      <3>1. PICK p \in Positions : /\ At(p) = got'.addr
                                   /\ got'.refs = Stored(p).payload /\ got'.nid = Stored(p).nid
        BY <1>2, <2>2
      <3>2. PICK S, a : S = DOMAIN Table /\ a = At(p)
        OBVIOUS
      <3>3. S \in SUBSET Nat /\ a \in S /\ \A b \in S : a <= b
        BY <1>0, <1>2, <2>2, <3>1, <3>2 DEF TableFacts
      <3>4. Contract!Least(S) = a
        BY <3>3, LeastIs
      <3>5. Table[a] = EntryOf(p)
        BY <1>0, <3>2 DEF TableFacts
      <3>6. got' = [addr |-> a, refs |-> Table[a].refs, nid |-> Table[a].nid]
        BY <1>3, <2>2, <3>1, <3>2, <3>5 DEF EntryOf
      <3> QED
        BY <3>2, <3>3, <3>4, <3>6 DEF Contract!Read
    <2> QED
      BY <2>1, <2>2
  <1> QED
    BY <1>0, <1>4 DEF Contract!ReadFirst

\* A read that goes on reads the entry with the next address.
LEMMA ReadsNext ==
  ASSUME IInv, OInv, IInv', OInv', Reading, GetNext, got # EndOfSequence,
         UNCHANGED <<addr_clusters, nr_walks, call>>
  PROVE  Contract!ReadNext
  <1>0. TableFacts /\ TableFacts' /\ Table' = Table
    BY TableIs, TableIsNext, SameTableValue
  <1>1. /\ addr_clusters \in Seq(ClusterType) /\ ItemsInBuffers /\ Summed /\ Ordered /\ ReadTo
        /\ got \in Entry
    BY DEF IInv, TypeOK, Packed, OInv, Places, GotTyped, Reading
  <1>2. /\ got' = EndOfSequence => \A p \in Positions : At(p) <= got.addr
        /\ got' # EndOfSequence =>
              /\ \E p \in Positions :
                   /\ At(p) > got.addr /\ At(p) = got'.addr
                   /\ got'.refs = Stored(p).payload /\ got'.nid = Stored(p).nid
              /\ \A p \in Positions : At(p) < got'.addr => At(p) <= got.addr
    BY <1>1, GetNextReads
  <1>3. got' = EndOfSequence \/ got' = [addr |-> got'.addr, refs |-> got'.refs, nid |-> got'.nid]
    BY DEF GetNext, DoGet
  <1>4. got # None
    <2>1. 0..(PayloadMod - 1) \subseteq Nat /\ Nids \cup {NoNid} \subseteq Int
      BY SizesAssumption, ValuesAssumption DEF NoNid
    <2>2. Entry \subseteq [addr : Addrs, refs : Nat, nid : Int]
      BY <2>1 DEF Entry
    <2> QED
      BY <1>1, <2>2, ValuesAssumption
  <1>5. PICK g \in Nat : g = got.addr
    BY <1>1, ValuesAssumption DEF Entry
  <1>6. PICK S : S = {a \in DOMAIN Table : a > got.addr}
    OBVIOUS
  <1>7. S \in SUBSET Nat /\ \A p \in Positions : At(p) \in S <=> At(p) > g
    BY <1>0, <1>5, <1>6 DEF TableFacts
  <1>8. \A b \in S : \E p \in Positions : b = At(p)
    BY <1>0, <1>6 DEF TableFacts
  <1>9. Contract!Read(S)
    <2>1. CASE got' = EndOfSequence
      <3>1. S = {}
        BY <1>0, <1>2, <1>5, <1>7, <1>8, <2>1 DEF TableFacts
      <3> QED
        BY <2>1, <3>1 DEF Contract!Read
    <2>2. CASE got' # EndOfSequence
      <3>1. PICK p \in Positions : /\ At(p) > g /\ At(p) = got'.addr
                                   /\ got'.refs = Stored(p).payload /\ got'.nid = Stored(p).nid
        BY <1>2, <1>5, <2>2
      <3>2. PICK a : a = At(p)
        OBVIOUS
      <3>3. a \in S /\ \A b \in S : a <= b
        BY <1>0, <1>2, <1>5, <1>7, <1>8, <2>2, <3>1, <3>2 DEF TableFacts
      <3>4. Contract!Least(S) = a
        BY <1>7, <3>3, LeastIs
      <3>5. Table[a] = EntryOf(p)
        BY <1>0, <3>2 DEF TableFacts
      <3>6. got' = [addr |-> a, refs |-> Table[a].refs, nid |-> Table[a].nid]
        BY <1>3, <2>2, <3>1, <3>2, <3>5 DEF EntryOf
      <3> QED
        BY <3>3, <3>4, <3>6 DEF Contract!Read
    <2> QED
      BY <2>1, <2>2
  <1> QED
    BY <1>0, <1>4, <1>6, <1>9 DEF Contract!ReadNext

\* append_addr(): nothing, or an entry beyond all others.
LEMMA AppendRecords ==
  ASSUME IInv, OInv, IInv', OInv', NEW a \in Addrs, NEW n \in {0, 1}, AppendPageRef(a, n)
  PROVE  Contract!Record(a, n) \/ UNCHANGED Contract!tableVars
  <1>0. /\ UNCHANGED <<call, got, nr_walks, phase>> /\ TableFacts /\ TableFacts'
        /\ phase = "walk" /\ call = None /\ nr_walks = 1
    BY TableIs, TableIsNext
       DEF AppendPageRef, AppendAddr, Reported, InAppendPeriod, IInv, TypeOK
  <1>1. CASE RefuseDuplicate(a) \/ AllocateFails(a) \/ ClusterFails(a)
    <2>1. UNCHANGED addr_clusters
      BY <1>1 DEF RefuseDuplicate, AllocateFails, ClusterFails, seqVars
    <2>2. Table' = Table
      BY <1>0, <2>1, SameTableValue
    <2> QED
      BY <1>0, <2>2 DEF Contract!tableVars
  <1>2. CASE MergeIntoCluster(a, n) \/ CreateCluster(a, n)
    <2>1. Added(a, n)
      BY <1>0, <1>2, MergeAdds, CreateAdds DEF OInv, Places
    <2>2. PICK q :
            /\ q \notin Positions /\ Positions' = Positions \cup {q}
            /\ \A p \in Positions : At(p)' = At(p) /\ Stored(p)' = Stored(p) /\ At(p) < a
            /\ At(q)' = a
            /\ Stored(q)'.payload = n /\ Stored(q)'.nid = NoNid
      BY <2>1 DEF Added
    <2>3. \A b \in DOMAIN Table : b < a
      BY <1>0, <2>2 DEF TableFacts
    <2>4. DOMAIN Table' = DOMAIN Table \cup {a}
      BY <1>0, <2>2 DEF TableFacts
    <2>5. Table'[a] = [refs |-> n, nid |-> NoNid]
      <3>1. Table'[At(q)'] = EntryOf(q)'
        BY <1>0, <2>2 DEF TableFacts
      <3> QED
        BY <2>2, <3>1 DEF EntryOf
    <2>6. ASSUME NEW b \in DOMAIN Table PROVE b # a /\ Table'[b] = Table[b]
      <3>1. PICK p \in Positions : b = At(p)
        BY <1>0 DEF TableFacts
      <3>2. Table'[At(p)'] = EntryOf(p)' /\ Table[At(p)] = EntryOf(p)
        BY <1>0, <2>2 DEF TableFacts
      <3>3. b # a
        <4>1. b < a /\ a \in Nat /\ b \in Nat
          BY <1>0, <2>3, <3>1, ValuesAssumption DEF TableFacts
        <4> QED
          BY <4>1
      <3> QED
        BY <2>2, <3>1, <3>2, <3>3 DEF EntryOf
    <2>7. Table' = [b \in DOMAIN Table' |-> Table'[b]]
      BY <1>0 DEF TableFacts
    <2>8. Table' = [b \in DOMAIN Table \cup {a} |->
                      IF b = a THEN [refs |-> n, nid |-> NoNid] ELSE Table[b]]
      BY <2>4, <2>5, <2>6, <2>7
    <2> QED
      BY <1>0, <2>3, <2>8 DEF Contract!Record, Contract!InAppendPeriod, Contract!NoNid, NoNid
  <1> QED
    BY <1>1, <1>2 DEF AppendPageRef, AppendAddr

\* The search answers for the entry it found.
LEMMA FoundAnswers ==
  ASSUME PayloadsFit, IInv, OInv, Counts, IInv', OInv', SeekFound
  PROVE  Contract!Answer
  <1>0. /\ TableFacts /\ TableFacts' /\ call # None /\ call' = None /\ UNCHANGED <<nr_walks, got>>
        /\ call.op \in {"inc", "set", "nid"} /\ addr_clusters \in Seq(ClusterType) /\ Summed
        /\ nr_walks \in Nat /\ nr_walks <= MaxWalks /\ repeats \in Nat /\ repeats <= MaxRepeats
    BY TableIs, TableIsNext DEF SeekFound, IInv, TypeOK
  <1>1. CASE call.op = "inc" /\ call.arg = 0
    <2>1. UNCHANGED addr_clusters
      BY <1>1 DEF SeekFound
    <2>2. Table' = Table
      BY <1>0, <2>1, SameTableValue
    <2>3. Table = [Table EXCEPT ![call.addr] = Table[call.addr]]
      BY <1>0 DEF TableFacts
    <2>4. Contract!Updated(Table[call.addr], call) = Table[call.addr]
      BY <1>1 DEF Contract!Updated
    <2> QED
      BY <1>0, <2>2, <2>3, <2>4 DEF Contract!Answer
  <1>2. CASE ~(call.op = "inc" /\ call.arg = 0)
    <2>1. PICK q \in Positions :
            /\ At(q) = call.addr /\ Positions' = Positions
            /\ \A p \in Positions : At(p)' = At(p)
            /\ \A p \in Positions : p # q => Stored(p)' = Stored(p)
            /\ Stored(q)' = Written(Stored(q))
      BY <1>2, WriteTable
    <2>2. PICK item \in ItemType : item = Stored(q)
      BY <1>0, <2>1, PositionFacts
    <2>3. PICK e, a : e = EntryOf(q) /\ a = At(q)
      OBVIOUS
    <2>4. e = [refs |-> item.payload, nid |-> item.nid]
      BY <2>2, <2>3 DEF EntryOf
    <2>5. EntryOf(q)' = Contract!Updated(e, call)
      <3>1. EntryOf(q)' = [refs |-> Written(item).payload, nid |-> Written(item).nid]
        BY <2>1, <2>2 DEF EntryOf
      <3>2. CASE call.op = "inc"
        <4>1. item.payload \in Nat
          BY <1>0, <2>1, <2>2, SizesAssumption DEF ItemType
        <4>2. item.payload + 1 < PayloadMod /\ PayloadMod \in Nat
          <5>1. phase = "walk" /\ nr_walks > 1 /\ call.addr = last_addr
            BY <1>0, <3>2 DEF OInv, Calls
          <5>2. item.payload + 1 <= Most(nr_walks - 1) + 1 + repeats
            BY <1>0, <2>1, <2>2, <5>1 DEF Counts
          <5>3. Most(nr_walks) = Most(nr_walks - 1) + 1 + MaxRepeats /\ Most(nr_walks - 1) \in Int
            BY <1>0, <5>1, MostIs DEF Most
          <5>4. Most(nr_walks) <= Most(MaxWalks) /\ Most(nr_walks) \in Int /\ Most(MaxWalks) \in Int
            BY <1>0, MostGrows
          <5>5. Most(MaxWalks) < PayloadMod /\ PayloadMod \in Nat /\ MaxRepeats \in Nat
            BY SizesAssumption DEF PayloadsFit
          <5> QED
            BY <1>0, <4>1, <5>2, <5>3, <5>4, <5>5
        <4>3. (item.payload + 1) % PayloadMod = item.payload + 1
          BY <4>1, <4>2
        <4> DEFINE r == (item.payload + 1) % PayloadMod
        <4>4. Written(item) = [item EXCEPT !.payload = r]
          BY <3>2 DEF Written
        <4>5. r = item.payload + 1
          BY <4>3
        <4> HIDE DEF r
        <4>6. Written(item).payload = item.payload + 1 /\ Written(item).nid = item.nid
          BY <4>4, <4>5 DEF ItemType
        <4>7. Contract!Updated(e, call) = [e EXCEPT !.refs = e.refs + 1]
          BY <1>2, <3>2 DEF Contract!Updated
        <4>8. [e EXCEPT !.refs = e.refs + 1] = [refs |-> item.payload + 1, nid |-> item.nid]
          BY <2>4
        <4> QED
          BY <3>1, <4>6, <4>7, <4>8
      <3>3. CASE call.op = "set"
        <4>1. Written(item) = [item EXCEPT !.payload = call.arg]
          BY <3>3 DEF Written
        <4>2. Written(item).payload = call.arg /\ Written(item).nid = item.nid
          BY <4>1 DEF ItemType
        <4>3. Contract!Updated(e, call) = [e EXCEPT !.refs = call.arg]
          BY <3>3 DEF Contract!Updated
        <4>4. [e EXCEPT !.refs = call.arg] = [refs |-> call.arg, nid |-> item.nid]
          BY <2>4
        <4> QED
          BY <3>1, <4>2, <4>3, <4>4
      <3>4. CASE call.op = "nid"
        <4> DEFINE l == Location(call.arg)
        <4>1. Written(item) = [item EXCEPT !.nid = call.arg, !.location = l]
          BY <3>4 DEF Written
        <4> HIDE DEF l
        <4>2. Written(item).payload = item.payload /\ Written(item).nid = call.arg
          BY <4>1 DEF ItemType
        <4>3. Contract!Updated(e, call) = [e EXCEPT !.nid = call.arg]
          BY <3>4 DEF Contract!Updated
        <4>4. [e EXCEPT !.nid = call.arg] = [refs |-> item.payload, nid |-> call.arg]
          BY <2>4
        <4> QED
          BY <3>1, <4>2, <4>3, <4>4
      <3> QED
        BY <1>0, <3>2, <3>3, <3>4
    <2>6. a \in DOMAIN Table /\ a = call.addr /\ Table[a] = e
      BY <1>0, <2>1, <2>3 DEF TableFacts
    <2>7. PICK u : u = Contract!Updated(e, call)
      OBVIOUS
    <2>8. DOMAIN Table' = DOMAIN Table
      BY <1>0, <2>1 DEF TableFacts
    <2>9. Table'[a] = u
      <3>1. Table'[At(q)'] = EntryOf(q)'
        BY <1>0, <2>1 DEF TableFacts
      <3> QED
        BY <2>1, <2>3, <2>5, <2>7, <3>1
    <2>10. ASSUME NEW b \in DOMAIN Table, b # a PROVE Table'[b] = Table[b]
      <3>1. PICK p \in Positions : b = At(p)
        BY <1>0 DEF TableFacts
      <3>2. p # q
        BY <2>3, <2>10, <3>1
      <3>3. Table'[At(p)'] = EntryOf(p)' /\ Table[At(p)] = EntryOf(p)
        BY <1>0, <2>1 DEF TableFacts
      <3> QED
        BY <2>1, <3>1, <3>2, <3>3 DEF EntryOf
    <2>11. Table' = [b \in DOMAIN Table' |-> Table'[b]] /\ Table = [b \in DOMAIN Table |-> Table[b]]
      BY <1>0 DEF TableFacts
    <2>12. Table' = [Table EXCEPT ![a] = u]
      BY <2>6, <2>8, <2>9, <2>10, <2>11
    <2> QED
      BY <1>0, <2>6, <2>7, <2>12 DEF Contract!Answer
  <1> QED
    BY <1>1, <1>2

\* The search found no entry because there is none.
LEMMA MissingAnswers ==
  ASSUME IInv, OInv, IInv', OInv', SeekMissing
  PROVE  Contract!Answer
  <1>0. /\ TableFacts /\ TableFacts' /\ UNCHANGED <<addr_clusters, nr_walks, got>>
        /\ call # None /\ call' = None
        /\ ~AtEnd(find_iter) => AddrAt(find_iter) > call.addr
    BY TableIs, TableIsNext DEF SeekMissing, seqVars
  <1>1. ~FirstWalk /\ SearchPast(call.addr)
    BY <1>0 DEF OInv, Calls, FirstWalk
  <1>2. \A p \in Positions : At(p) # call.addr
    BY <1>0, <1>1, NothingMissed DEF OInv
  <1>3. call.addr \notin DOMAIN Table
    BY <1>0, <1>2 DEF TableFacts
  <1>4. Table' = Table
    BY <1>0, SameTableValue
  <1> QED
    BY <1>0, <1>3, <1>4 DEF Contract!Answer

\* Every step is one of the contract's, or none.
LEMMA NextContract ==
  ASSUME PayloadsFit, IInv, OInv, Counts, IInv', OInv', [Next]_vars
  PROVE  [Contract!Next]_Contract!tableVars
  <1>0. TableFacts /\ TableFacts'
    BY TableIs, TableIsNext
  <1>1. CASE UNCHANGED <<addr_clusters, nr_walks, call, got>>
    <2>1. Table' = Table
      BY <1>0, <1>1, SameTableValue
    <2> QED
      BY <1>1, <2>1 DEF Contract!tableVars
  <1>2. CASE BeginWalk
    <2>1. UNCHANGED <<addr_clusters, call, got>> /\ nr_walks' = nr_walks + 1 /\ call = None
      BY <1>2 DEF BeginWalk, seqVars, OInv, Calls
    <2>2. Table' = Table
      BY <1>0, <2>1, SameTableValue
    <2> QED
      BY <2>1, <2>2 DEF Contract!Next, Contract!BeginWalk
  <1>3. ASSUME NEW a \in Addrs, NEW n \in {0, 1}, AppendPageRef(a, n)
        PROVE  [Contract!Next]_Contract!tableVars
    <2>1. Contract!Record(a, n) \/ UNCHANGED Contract!tableVars
      BY <1>3, AppendRecords
    <2> QED
      BY <2>1 DEF Contract!Next
  <1>4. ASSUME UNCHANGED <<addr_clusters, nr_walks, got>>, call = None, call' \in Contract!Request,
               (call'.op = "nid") <=> nr_walks < 2
        PROVE  Contract!Next
    <2>1. Table' = Table
      BY <1>0, <1>4, SameTableValue
    <2> QED
      BY <1>4, <2>1 DEF Contract!Next, Contract!Ask, Contract!Allowed, Contract!InAppendPeriod
  <1>5. ASSUME NEW a \in Addrs, NEW n \in {0, 1}, CountPageRef(a, n)
        PROVE  Contract!Next
    <2>1. call' = [op |-> "inc", addr |-> a, arg |-> n] /\ ~(nr_walks < 2) /\ call = None
          /\ UNCHANGED <<addr_clusters, nr_walks, got>>
      BY <1>5 DEF CountPageRef, Ask, seqVars, Reported, InAppendPeriod
    <2>2. call' \in Contract!Request /\ call'.op # "nid"
      BY <2>1 DEF Contract!Request
    <2> QED
      BY <1>4, <2>1, <2>2
  <1>6. ASSUME NEW nid \in Nids, LocateAddr(nid) PROVE [Contract!Next]_Contract!tableVars
    <2>1. CASE nr_walks < 2
      <3>1. PICK h : h = Head(addr_set)
        OBVIOUS
      <3>2. h \in Addrs
        BY <1>6, <3>1 DEF LocateAddr, IInv, TypeOK
      <3>3. call' = [op |-> "nid", addr |-> h, arg |-> nid] /\ call = None
            /\ UNCHANGED <<addr_clusters, nr_walks, got>>
        BY <1>6, <2>1, <3>1 DEF LocateAddr, Ask, seqVars, InAppendPeriod
      <3>4. call' \in Contract!Request /\ call'.op = "nid"
        BY <3>2, <3>3 DEF Contract!Request
      <3> QED
        BY <1>4, <2>1, <3>3, <3>4
    <2>2. CASE ~(nr_walks < 2)
      BY <1>1, <1>6, <2>2 DEF LocateAddr, Deny, seqVars, InAppendPeriod
    <2> QED
      BY <2>1, <2>2
  <1>7. CASE NormalizeAddr
    <2>1. CASE nr_walks < 2
      BY <1>1, <1>7, <2>1 DEF NormalizeAddr, Deny, seqVars, InAppendPeriod
    <2>2. CASE ~(nr_walks < 2)
      <3>0. PICK g : g = got.addr
        OBVIOUS
      <3>1. PICK n \in {0, 1} : call' = [op |-> "set", addr |-> g, arg |-> n]
        BY <1>7, <2>2, <3>0 DEF NormalizeAddr, Ask, InAppendPeriod
      <3>2. g \in Addrs
        BY <1>7, <3>0 DEF NormalizeAddr, IInv, GotTyped, Entry
      <3>3. call = None /\ UNCHANGED <<addr_clusters, nr_walks, got>>
        BY <1>7, <2>2 DEF NormalizeAddr, Ask, seqVars, InAppendPeriod, OInv, Calls
      <3>4. call' \in Contract!Request /\ call'.op # "nid"
        BY <3>1, <3>2 DEF Contract!Request
      <3> QED
        BY <1>4, <2>2, <3>3, <3>4
    <2> QED
      BY <2>1, <2>2
  <1>8. CASE SeekFound \/ SeekMissing
    BY <1>8, FoundAnswers, MissingAnswers DEF Contract!Next
  <1>9. CASE BeginLocate \/ ReadFirst \/ BeginNormalize
    <2>1. GetFirst /\ UNCHANGED <<addr_clusters, nr_walks, call>>
      BY <1>9 DEF BeginLocate, ReadFirst, BeginNormalize, seqVars
    <2> QED
      BY <2>1, ReadsFirst DEF Contract!Next
  <1>10. ASSUME Reading, GetNext, got # EndOfSequence, UNCHANGED <<addr_clusters, nr_walks, call>>
         PROVE  Contract!Next
    BY <1>10, ReadsNext DEF Contract!Next
  <1>11. CASE CollectAddr
    <2>1. Reading /\ got # EndOfSequence /\ UNCHANGED <<addr_clusters, nr_walks, call>>
          /\ (GetNext \/ UNCHANGED got)
      BY <1>11 DEF CollectAddr, seqVars, Reading
    <2> QED
      BY <1>1, <1>10, <2>1
  <1>12. CASE NextBatch \/ ReadNext
    <2>1. Reading /\ got # EndOfSequence /\ UNCHANGED <<addr_clusters, nr_walks, call>> /\ GetNext
      BY <1>12 DEF NextBatch, ReadNext, seqVars, Reading
    <2> QED
      BY <1>10, <2>1
  <1>13. CASE NormalizeNext
    <2>1. Reading /\ UNCHANGED <<addr_clusters, nr_walks, call>> /\ GetNext /\ phase = "normalize" /\ ~filling
      BY <1>13 DEF NormalizeNext, seqVars, Reading
    <2>2. got # EndOfSequence
      BY <2>1 DEF OInv, Normalizes
    <2> QED
      BY <1>10, <2>1, <2>2
  <1>14. CASE EndWalk \/ SeekNext \/ CollectRest \/ EndLocate \/ EndNormalize \/ UNCHANGED vars
    BY <1>1, <1>14 DEF EndWalk, SeekNext, CollectRest, EndLocate, EndNormalize, vars, seqVars
  <1> QED
    BY <1>2, <1>3, <1>5, <1>6, <1>7, <1>8, <1>9, <1>11, <1>12, <1>13, <1>14 DEF Next

\* The sequence implements its contract: clusters, buffers, distances and
\* iterators make a table that is counted, located and read in order.
THEOREM ContractImplemented == PayloadsFit => (Spec /\ []InLastBuffer => ImplementsContract)
  <1> SUFFICES ASSUME PayloadsFit PROVE Spec /\ []InLastBuffer => ImplementsContract
    OBVIOUS
  <1>1. Init => Counts /\ Contract!Init
    <2> SUFFICES ASSUME Init PROVE Counts /\ Contract!Init
      OBVIOUS
    <2>1. Positions = {}
      BY DEF Init, Positions, Clusters
    <2>2. TableFacts
      BY InitInv, InitOrder, TableIs
    <2>3. DOMAIN Table = {}
      BY <2>1, <2>2 DEF TableFacts
    <2>4. Table = [a \in {} |-> Table[a]]
      BY <2>2, <2>3 DEF TableFacts
    <2>5. Table = <<>>
      BY <2>4
    <2> QED
      BY <2>1, <2>5 DEF Init, Counts, Contract!Init
  <1>2. IInv /\ OInv /\ Counts /\ [Next]_vars => Counts'
    BY NextCounts
  <1>3. IInv /\ OInv /\ Counts /\ (IInv /\ OInv)' /\ [Next]_vars => [Contract!Next]_Contract!tableVars
    BY NextContract
  <1> QED
    BY <1>1, <1>2, <1>3, SpecOrder, PTL DEF Spec, ImplementsContract, Contract!Spec

=============================================================================
