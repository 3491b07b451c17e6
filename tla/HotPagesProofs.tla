---------------------------- MODULE HotPagesProofs ----------------------------
(***************************************************************************)
(* Proofs about hmd's page migration, for every hash function, every size  *)
(* of the table, and every sequence of samples: the filter joins ranges    *)
(* without gaining or losing an address (insert_range), the hot page table *)
(* stays within its bounds (cmsk_update, cmsk_sort), the loop keeps both   *)
(* (HInv), and a sorted table reports what was sampled (SampleInv).        *)
(***************************************************************************)
EXTENDS HotPages, SequenceTheorems, FiniteSetTheorems, WellFoundedInduction, TLAPS

-----------------------------------------------------------------------------
(* Proofs by induction: the theorems of the library take the formula as an *)
(* operator, here it is the set of the numbers that satisfy it.            *)

LessOnNat == {pair \in Nat \X Nat : pair[1] < pair[2]}

\* Every set of natural numbers has a least element.
LEMMA LessWellFounded == IsWellFoundedOn(LessOnNat, Nat)
  BY NatLessThanWellFounded, Zenon DEF OpToRel, LessOnNat

\* A set that holds 0 and the successor of each of its numbers holds them all.
LEMMA SetInduction ==
  ASSUME NEW S, 0 \in S, \A n \in Nat : n \in S => n + 1 \in S
  PROVE  \A n \in Nat : n \in S
  <1> DEFINE T == Nat \ S
  <1>1. \A x, y \in Nat : y < x => <<y, x>> \in LessOnNat
    BY DEF LessOnNat
  <1> SUFFICES ASSUME T # {} PROVE FALSE
    OBVIOUS
  <1>2. \E x \in T : \A y \in T : <<y, x>> \notin LessOnNat
    <2>1. T \subseteq Nat
      OBVIOUS
    <2> HIDE DEF T
    <2> QED
      BY LessWellFounded, WFMin, <2>1, Zenon
  <1>3. PICK x \in T : \A y \in T : <<y, x>> \notin LessOnNat
    BY <1>2
  <1>4. x \in Nat /\ x # 0 /\ x \notin S
    OBVIOUS
  <1>5. x - 1 \in Nat /\ x - 1 < x
    BY <1>4
  <1>6. x - 1 \in S
    BY <1>1, <1>3, <1>4, <1>5
  <1> QED
    BY <1>4, <1>5, <1>6

-----------------------------------------------------------------------------
(* The order of the keys.                                                  *)

KeyPairs == Nat \X Nat

\* Keys are ordered by process, then by start.
LEMMA KeyOrder ==
  ASSUME NEW k \in KeyPairs, NEW l \in KeyPairs, NEW q \in KeyPairs
  PROVE  /\ k = l \/ Before(k, l) \/ Before(l, k)
         /\ ~(Before(k, l) /\ Before(l, k))
         /\ ~Before(k, k)
         /\ Before(k, l) /\ Before(l, q) => Before(k, q)
  <1>1. /\ k = <<k[1], k[2]>> /\ l = <<l[1], l[2]>>
        /\ k[1] \in Nat /\ k[2] \in Nat /\ l[1] \in Nat /\ l[2] \in Nat /\ q[1] \in Nat /\ q[2] \in Nat
    BY DEF KeyPairs
  <1>2. k[1] = l[1] /\ k[2] = l[2] => k = l
    BY <1>1
  <1> QED
    BY <1>1, <1>2 DEF Before

HasFirst(keys) == \E k \in keys : \A l \in keys \ {k} : Before(k, l)
HasLast(keys) == \E k \in keys : \A l \in keys \ {k} : Before(l, k)

\* Finitely many keys, but not none, have a first and a last one.
LEMMA FirstAndLast ==
  ASSUME NEW keys \in SUBSET KeyPairs, IsFiniteSet(keys), keys # {}
  PROVE  HasFirst(keys) /\ HasLast(keys)
  <1> DEFINE Fine(n) == \A s \in SUBSET KeyPairs :
                          IsFiniteSet(s) /\ Cardinality(s) = n + 1 => HasFirst(s) /\ HasLast(s)
             S == {n \in Nat : Fine(n)}
  <1>1. 0 \in S
    <2> SUFFICES ASSUME NEW s \in SUBSET KeyPairs, IsFiniteSet(s), Cardinality(s) = 1
                 PROVE  HasFirst(s) /\ HasLast(s)
      OBVIOUS
    <2>1. PICK k : s = {k}
      BY FS_Singleton
    <2> QED
      BY <2>1 DEF HasFirst, HasLast
  <1>2. ASSUME NEW n \in Nat, n \in S PROVE n + 1 \in S
    <2> SUFFICES ASSUME NEW s \in SUBSET KeyPairs, IsFiniteSet(s), Cardinality(s) = (n + 1) + 1
                 PROVE  HasFirst(s) /\ HasLast(s)
      OBVIOUS
    <2>1. s # {}
      BY FS_EmptySet
    <2>2. PICK x : x \in s
      BY <2>1
    <2> DEFINE t == s \ {x}
    <2>3. IsFiniteSet(t) /\ Cardinality(t) = n + 1 /\ t \in SUBSET KeyPairs
      BY <2>2, FS_RemoveElement
    <2>4. HasFirst(t) /\ HasLast(t)
      BY <1>2, <2>3
    <2>5. PICK f \in t : \A l \in t \ {f} : Before(f, l)
      BY <2>4 DEF HasFirst
    <2>6. PICK e \in t : \A l \in t \ {e} : Before(l, e)
      BY <2>4 DEF HasLast
    <2>7. x \in KeyPairs /\ f \in KeyPairs /\ e \in KeyPairs /\ x # f /\ x # e
      BY <2>2
    <2>8. HasFirst(s)
      <3>1. CASE Before(x, f)
        <4>1. \A l \in s \ {x} : Before(x, l)
          BY <2>5, <2>7, <3>1, KeyOrder
        <4> QED
          BY <2>2, <4>1 DEF HasFirst
      <3>2. CASE Before(f, x)
        <4>1. \A l \in s \ {f} : Before(f, l)
          BY <2>5, <2>7, <3>2
        <4> QED
          BY <2>5, <4>1 DEF HasFirst
      <3> QED
        BY <2>7, <3>1, <3>2, KeyOrder
    <2>9. HasLast(s)
      <3>1. CASE Before(e, x)
        <4>1. \A l \in s \ {x} : Before(l, x)
          BY <2>6, <2>7, <3>1, KeyOrder
        <4> QED
          BY <2>2, <4>1 DEF HasLast
      <3>2. CASE Before(x, e)
        <4>1. \A l \in s \ {e} : Before(l, e)
          BY <2>6, <2>7, <3>2
        <4> QED
          BY <2>6, <4>1 DEF HasLast
      <3> QED
        BY <2>7, <3>1, <3>2, KeyOrder
    <2> QED
      BY <2>8, <2>9
  <1> HIDE DEF S
  <1>3. \A n \in Nat : n \in S
    BY <1>1, <1>2, SetInduction
  <1>4. Cardinality(keys) \in Nat /\ Cardinality(keys) # 0
    BY FS_CardinalityType, FS_EmptySet
  <1>5. Cardinality(keys) - 1 \in S
    BY <1>3, <1>4
  <1> QED
    BY <1>4, <1>5 DEF S

\* What FirstKey() and LastKey() return.
LEMMA FirstKeyIs ==
  ASSUME NEW keys \in SUBSET KeyPairs, IsFiniteSet(keys), keys # {}
  PROVE  FirstKey(keys) \in keys /\ \A l \in keys : ~Before(l, FirstKey(keys))
  <1>1. PICK k \in keys : \A l \in keys \ {k} : Before(k, l)
    BY FirstAndLast DEF HasFirst
  <1> DEFINE f == CHOOSE q \in keys : \A l \in keys \ {q} : Before(q, l)
  <1>2. f \in keys /\ \A l \in keys \ {f} : Before(f, l)
    BY <1>1, Zenon
  <1>3. FirstKey(keys) = f
    BY Zenon DEF FirstKey
  <1> HIDE DEF f
  <1>4. \A l \in keys : ~Before(l, f)
    BY <1>2, KeyOrder
  <1> QED
    BY <1>2, <1>3, <1>4

\* What LastKey() returns.
LEMMA LastKeyIs ==
  ASSUME NEW keys \in SUBSET KeyPairs, IsFiniteSet(keys), keys # {}
  PROVE  LastKey(keys) \in keys /\ \A l \in keys : ~Before(LastKey(keys), l)
  <1>1. PICK k \in keys : \A l \in keys \ {k} : Before(l, k)
    BY FirstAndLast DEF HasLast
  <1> DEFINE f == CHOOSE q \in keys : \A l \in keys \ {q} : Before(l, q)
  <1>2. f \in keys /\ \A l \in keys \ {f} : Before(l, f)
    BY <1>1, Zenon
  <1>3. LastKey(keys) = f
    BY Zenon DEF LastKey
  <1> HIDE DEF f
  <1>4. \A l \in keys : ~Before(f, l)
    BY <1>2, KeyOrder
  <1> QED
    BY <1>2, <1>3, <1>4

-----------------------------------------------------------------------------
(* A map of ranges.                                                        *)

IsMap(m) ==
  /\ DOMAIN m \in SUBSET KeyPairs /\ IsFiniteSet(DOMAIN m)
  /\ \A k \in DOMAIN m : m[k] \in Nat \ {0}

\* The number types of a range.
LEMMA RangeTyped ==
  ASSUME NEW m, IsMap(m), NEW k \in DOMAIN m
  PROVE  /\ k \in KeyPairs /\ k = <<k[1], k[2]>> /\ k[1] \in Nat /\ k[2] \in Nat
         /\ EndOf(m, k) \in Nat /\ EndOf(m, k) = k[2] + m[k] /\ k[2] < EndOf(m, k)
  <1>1. k \in KeyPairs /\ m[k] \in Nat \ {0}
    BY DEF IsMap
  <1> QED
    BY <1>1 DEF KeyPairs, EndOf

\* An address is covered if a range of its process holds it.
LEMMA InCovered ==
  ASSUME NEW m, IsMap(m), NEW p \in Nat, NEW x \in Nat
  PROVE  <<p, x>> \in Covered(m) <=> \E k \in DOMAIN m : k[1] = p /\ k[2] <= x /\ x < EndOf(m, k)
  <1>1. \A k \in DOMAIN m : <<p, x>> \in AddressesOf(k[1], k[2], m[k]) <=> k[1] = p /\ k[2] <= x /\ x < EndOf(m, k)
    <2> SUFFICES ASSUME NEW k \in DOMAIN m
                 PROVE  <<p, x>> \in AddressesOf(k[1], k[2], m[k]) <=> k[1] = p /\ k[2] <= x /\ x < EndOf(m, k)
      OBVIOUS
    <2>1. k[1] \in Nat /\ k[2] \in Nat /\ m[k] \in Nat /\ EndOf(m, k) = k[2] + m[k]
      BY RangeTyped DEF IsMap
    <2> QED
      BY <2>1 DEF AddressesOf
  <1> QED
    BY <1>1 DEF Covered

\* The filter covers addresses of processes.
LEMMA CoveredTyped ==
  ASSUME NEW m, IsMap(m)
  PROVE  Covered(m) \in SUBSET KeyPairs
  <1>1. \A k \in DOMAIN m : AddressesOf(k[1], k[2], m[k]) \in SUBSET KeyPairs
    <2> SUFFICES ASSUME NEW k \in DOMAIN m PROVE AddressesOf(k[1], k[2], m[k]) \in SUBSET KeyPairs
      OBVIOUS
    <2>1. k[1] \in Nat /\ k[2] \in Nat /\ m[k] \in Nat
      BY RangeTyped DEF IsMap
    <2>2. (k[2] .. k[2] + m[k] - 1) \subseteq Nat
      BY <2>1
    <2> QED
      BY <2>1, <2>2 DEF AddressesOf, KeyPairs
  <1> QED
    BY <1>1 DEF Covered
-----------------------------------------------------------------------------
(* Lookup.                                                                 *)

\* What an iterator above a key is.
Above(m, k, upper) ==
  /\ upper # END => /\ upper \in DOMAIN m /\ Before(k, upper)
                    /\ \A l \in DOMAIN m : Before(k, l) => ~Before(l, upper)
  /\ upper = END => \A l \in DOMAIN m : ~Before(k, l)

\* What search_range() tells of an address.
Searched(m, p, x, s) ==
  /\ s.it # END => /\ s.it \in DOMAIN m /\ s.it[1] = p
                   /\ s.it[2] <= x /\ x < EndOf(m, s.it)
  /\ s.it = END => \A k \in DOMAIN m : k[1] = p => x < k[2] \/ EndOf(m, k) <= x
  /\ s.it = END /\ s.lower # END =>
       /\ s.lower \in DOMAIN m /\ s.lower[1] = p /\ EndOf(m, s.lower) <= x
       /\ \A k \in DOMAIN m : k[1] = p /\ k[2] <= x => k[2] <= s.lower[2]
  /\ s.it = END /\ s.lower = END => \A k \in DOMAIN m : k[1] = p => x < k[2]
  /\ Above(m, <<p, x>>, s.upper)

\* What the iterator upper_bound() returns is.
LEMMA UpperBound ==
  ASSUME NEW m, IsMap(m), NEW k \in KeyPairs
  PROVE  Above(m, k, upper_bound(m, k))
  <1> DEFINE keys == {l \in DOMAIN m : Before(k, l)}
  <1>1. keys \in SUBSET KeyPairs /\ IsFiniteSet(keys)
    BY FS_Subset DEF IsMap
  <1>2. upper_bound(m, k) = FirstKey(keys)
    BY Zenon DEF upper_bound
  <1>3. CASE keys = {}
    <2>1. FirstKey(keys) = END
      BY <1>3, Zenon DEF FirstKey
    <2> QED
      BY <1>2, <1>3, <2>1 DEF Above
  <1>4. CASE keys # {}
    <2>1. FirstKey(keys) \in keys /\ \A l \in keys : ~Before(l, FirstKey(keys))
      BY <1>1, <1>4, FirstKeyIs, Zenon
    <2>2. FirstKey(keys) # END
      BY <1>1, <2>1, FilterAssumption DEF KeyPairs
    <2> QED
      BY <1>2, <2>1, <2>2 DEF Above
  <1> QED
    BY <1>3, <1>4

\* What search_range() returns: the range that holds the address, or else the
\* one of the process below it; and the next one.
LEMMA SearchRange ==
  ASSUME NEW m, IsMap(m), Apart(m), NEW p \in Nat, NEW x \in Nat
  PROVE  Searched(m, p, x, search_range(m, p, x))
  <1> DEFINE k == <<p, x>>
             keys == {l \in DOMAIN m : ~Before(k, l)}
             it == LastKey(keys)
             mine == IF it = END THEN FALSE ELSE it[1] = p
             in == IF mine THEN x < EndOf(m, it) ELSE FALSE
             s == search_range(m, p, x)
  <1> SUFFICES Searched(m, p, x, s)
    OBVIOUS
  <1>0. keys \in SUBSET KeyPairs /\ IsFiniteSet(keys) /\ k \in KeyPairs
    BY FS_Subset DEF IsMap, KeyPairs
  <1>a. Above(m, k, upper_bound(m, k))
    BY <1>0, UpperBound
  <1>1. s = [it |-> IF in THEN it ELSE END, lower |-> IF mine /\ ~in THEN it ELSE END, upper |-> upper_bound(m, k)]
    BY Zenon DEF search_range
  <1>2. /\ it # END => it \in DOMAIN m /\ ~Before(k, it) /\ \A l \in keys : ~Before(it, l)
        /\ it = END => keys = {}
    <2>1. CASE keys = {}
      <3>1. it = END
        BY <2>1, Zenon DEF LastKey
      <3> QED
        BY <2>1, <3>1
    <2>2. CASE keys # {}
      <3>1. it \in keys /\ \A l \in keys : ~Before(it, l)
        BY <1>0, <2>2, LastKeyIs, Zenon
      <3>2. it # END
        BY <1>0, <3>1, FilterAssumption DEF KeyPairs
      <3> QED
        BY <3>1, <3>2
    <2> QED
      BY <2>1, <2>2
  <1>3. \A l \in DOMAIN m : l[1] = p /\ l[2] <= x => l \in keys
    BY RangeTyped DEF Before
  <1> HIDE DEF keys
  <1> HIDE DEF it
  <1>4. mine <=> it # END /\ it[1] = p
    OBVIOUS
  <1>5. in <=> mine /\ x < EndOf(m, it)
    OBVIOUS
  <1>6. mine => /\ it \in DOMAIN m /\ it[2] <= x
                /\ \A l \in DOMAIN m : l[1] = p /\ l[2] <= x => l[2] <= it[2]
    <2> SUFFICES ASSUME mine PROVE /\ it \in DOMAIN m /\ it[2] <= x
                /\ \A l \in DOMAIN m : l[1] = p /\ l[2] <= x => l[2] <= it[2]
      OBVIOUS
    <2>1. it \in DOMAIN m /\ it[1] = p /\ it[2] \in Nat
      BY <1>2, <1>4, RangeTyped
    <2>2. it[2] <= x
      BY <1>2, <1>4, <2>1 DEF Before
    <2>3. ASSUME NEW l \in DOMAIN m, l[1] = p, l[2] <= x PROVE l[2] <= it[2]
      <3>1. ~Before(it, l)
        BY <1>2, <1>3, <1>4, <2>3
      <3>2. l[2] \in Nat
        BY RangeTyped
      <3> QED
        BY <2>1, <2>3, <3>1, <3>2 DEF Before
    <2> QED
      BY <2>1, <2>2, <2>3
  <1>7. ~mine => \A l \in DOMAIN m : l[1] = p => x < l[2]
    <2> SUFFICES ASSUME ~mine, NEW l \in DOMAIN m, l[1] = p, ~(x < l[2]) PROVE FALSE
      OBVIOUS
    <2>1. l[2] \in Nat /\ l[2] <= x
      BY RangeTyped
    <2>2. l \in keys
      BY <1>3, <2>1
    <2>3. it # END /\ it \in DOMAIN m /\ ~Before(k, it) /\ ~Before(it, l) /\ it[1] # p
      BY <1>2, <1>4, <2>2
    <2>4. it[1] \in Nat /\ it[2] \in Nat
      BY <2>3, RangeTyped
    <2> QED
      BY <2>1, <2>3, <2>4 DEF Before
  <1> HIDE DEF mine
  <1> HIDE DEF in
  <1>8. in => it # END
    BY <1>4, <1>5
  <1>9. CASE in
    <2>1. s.it = it /\ s.upper = upper_bound(m, k)
      BY <1>1, <1>9
    <2>2. /\ it \in DOMAIN m /\ it[1] = p /\ it[2] <= x /\ x < EndOf(m, it) /\ it # END
      BY <1>4, <1>5, <1>6, <1>9
    <2> HIDE DEF s
    <2> QED
      BY <2>1, <2>2, <1>a DEF Searched
  <1>10. CASE ~in /\ mine
    <2>1. s.it = END /\ s.lower = it /\ s.upper = upper_bound(m, k)
      BY <1>1, <1>10
    <2>2. it \in DOMAIN m /\ it[1] = p /\ it # END /\ ~(x < EndOf(m, it)) /\ EndOf(m, it) \in Nat /\ it[2] \in Nat
      BY <1>4, <1>5, <1>6, <1>10, RangeTyped
    <2>3. EndOf(m, it) <= x
      BY <2>2
    <2>4. ASSUME NEW l \in DOMAIN m, l[1] = p PROVE x < l[2] \/ EndOf(m, l) <= x
      <3>1. l[2] \in Nat /\ EndOf(m, l) \in Nat /\ l = <<l[1], l[2]>> /\ it = <<it[1], it[2]>>
        BY <2>2, RangeTyped
      <3>2. CASE l[2] = it[2]
        <4>1. l = it
          BY <2>2, <2>4, <3>1, <3>2
        <4> QED
          BY <2>3, <4>1
      <3>3. CASE l[2] < it[2]
        <4>1. EndOf(m, l) < it[2]
          BY <2>2, <2>4, <3>3 DEF Apart
        <4> QED
          BY <1>6, <1>10, <2>2, <3>1, <4>1
      <3>4. CASE l[2] > it[2]
        BY <1>6, <1>10, <2>2, <2>4, <3>1, <3>4
      <3> QED
        BY <2>2, <3>1, <3>2, <3>3, <3>4
    <2>5. \A l \in DOMAIN m : l[1] = p /\ l[2] <= x => l[2] <= it[2]
      BY <1>6, <1>10
    <2> HIDE DEF s
    <2> QED
      BY <2>1, <2>2, <2>3, <2>4, <2>5, <1>a DEF Searched
  <1>11. CASE ~mine
    <2>0. ~in
      BY <1>5, <1>11
    <2>1. s.it = END /\ s.lower = END /\ s.upper = upper_bound(m, k)
      BY <1>1, <1>11, <2>0
    <2> HIDE DEF s
    <2> QED
      BY <2>1, <1>7, <1>11, <1>a DEF Searched
  <1> QED
    BY <1>9, <1>10, <1>11

\* search_address() finds what is covered.
LEMMA SearchAddress ==
  ASSUME NEW m, IsMap(m), Apart(m), NEW p \in Nat, NEW x \in Nat
  PROVE  search_address(m, p, x) <=> <<p, x>> \in Covered(m)
  <1> DEFINE s == search_range(m, p, x)
  <1>1. Searched(m, p, x, s)
    BY SearchRange
  <1>2. search_address(m, p, x) <=> s.it # END
    BY DEF search_address
  <1> HIDE DEF s
  <1>3. s.it = END => ~\E k \in DOMAIN m : k[1] = p /\ k[2] <= x /\ x < EndOf(m, k)
    <2> SUFFICES ASSUME s.it = END, NEW k \in DOMAIN m, k[1] = p, k[2] <= x, x < EndOf(m, k) PROVE FALSE
      OBVIOUS
    <2>1. x < k[2] \/ EndOf(m, k) <= x
      BY <1>1 DEF Searched
    <2> QED
      BY <2>1, RangeTyped
  <1>4. s.it # END => \E k \in DOMAIN m : k[1] = p /\ k[2] <= x /\ x < EndOf(m, k)
    BY <1>1 DEF Searched
  <1> QED
    BY <1>2, <1>3, <1>4, InCovered

-----------------------------------------------------------------------------
(* Insertion.                                                              *)

\* low is where a range that begins at x begins once it is joined with those
\* below it: at x, if no range of the process holds or touches x.
JoinsBelow(m, p, x, low) ==
  \/ low = x /\ \A k \in DOMAIN m : k[1] = p => ~(k[2] <= x /\ x <= EndOf(m, k))
  \/ \E k \in DOMAIN m : k[1] = p /\ k[2] <= x /\ x <= EndOf(m, k) /\ low = k[2]

\* high is where a range that ends at x ends once it is joined with those above.
JoinsAbove(m, p, x, high) ==
  \/ high = x /\ \A k \in DOMAIN m : k[1] = p => ~(k[2] <= x /\ x <= EndOf(m, k))
  \/ \E k \in DOMAIN m : k[1] = p /\ k[2] <= x /\ x <= EndOf(m, k) /\ high = EndOf(m, k)

\* The ranges of a process between two addresses.
Inside(m, p, low, high) == {k \in DOMAIN m : k[1] = p /\ low <= k[2] /\ EndOf(m, k) <= high}

\* The ranges that a joined range replaces are apart from the others.
LEMMA JoinApart ==
  ASSUME NEW m, IsMap(m), Apart(m), NEW p \in Nat, NEW x \in Nat, NEW y \in Nat, x < y,
         NEW low, JoinsBelow(m, p, x, low), NEW high, JoinsAbove(m, p, y, high)
  PROVE  /\ low \in Nat /\ high \in Nat /\ low <= x /\ y <= high
         /\ \A k \in DOMAIN m : k[1] = p => \/ k \in Inside(m, p, low, high)
                                           \/ EndOf(m, k) < low
                                           \/ high < k[2]
         /\ \A q \in Nat : low <= q /\ q < high => \/ x <= q /\ q < y
                                                  \/ <<p, q>> \in Covered(m)
  <1>1. low \in Nat /\ low <= x
    BY RangeTyped DEF JoinsBelow
  <1>2. high \in Nat /\ y <= high
    BY RangeTyped DEF JoinsAbove
  <1>3. \A k, l \in DOMAIN m : k[1] = p /\ l[1] = p => k = l \/ EndOf(m, k) < l[2] \/ EndOf(m, l) < k[2]
    <2> SUFFICES ASSUME NEW k \in DOMAIN m, NEW l \in DOMAIN m, k[1] = p, l[1] = p
                 PROVE  k = l \/ EndOf(m, k) < l[2] \/ EndOf(m, l) < k[2]
      OBVIOUS
    <2>1. k = <<k[1], k[2]>> /\ l = <<l[1], l[2]>> /\ k[2] \in Nat /\ l[2] \in Nat
      BY RangeTyped
    <2>2. CASE k[2] = l[2]
      BY <2>1, <2>2
    <2>3. CASE k[2] < l[2]
      BY <2>3 DEF Apart
    <2>4. CASE l[2] < k[2]
      BY <2>4 DEF Apart
    <2> QED
      BY <2>1, <2>2, <2>3, <2>4
  <1>4. ASSUME NEW k \in DOMAIN m, k[1] = p, ~(low <= k[2]) PROVE EndOf(m, k) < low
    <2>1. k[2] \in Nat /\ EndOf(m, k) \in Nat /\ k[2] < EndOf(m, k)
      BY RangeTyped
    <2>2. CASE low = x /\ \A l \in DOMAIN m : l[1] = p => ~(l[2] <= x /\ x <= EndOf(m, l))
      BY <1>1, <1>4, <2>1, <2>2
    <2>3. CASE \E l \in DOMAIN m : l[1] = p /\ l[2] <= x /\ x <= EndOf(m, l) /\ low = l[2]
      <3>1. PICK l \in DOMAIN m : l[1] = p /\ low = l[2]
        BY <2>3
      <3>2. EndOf(m, l) \in Nat /\ l[2] < EndOf(m, l)
        BY RangeTyped
      <3> QED
        BY <1>1, <1>3, <1>4, <2>1, <3>1, <3>2
    <2> QED
      BY <2>2, <2>3 DEF JoinsBelow
  <1>5. ASSUME NEW k \in DOMAIN m, k[1] = p, ~(EndOf(m, k) <= high) PROVE high < k[2]
    <2>1. k[2] \in Nat /\ EndOf(m, k) \in Nat /\ k[2] < EndOf(m, k)
      BY RangeTyped
    <2>2. CASE high = y /\ \A l \in DOMAIN m : l[1] = p => ~(l[2] <= y /\ y <= EndOf(m, l))
      BY <1>2, <1>5, <2>1, <2>2
    <2>3. CASE \E l \in DOMAIN m : l[1] = p /\ l[2] <= y /\ y <= EndOf(m, l) /\ high = EndOf(m, l)
      <3>1. PICK l \in DOMAIN m : l[1] = p /\ high = EndOf(m, l)
        BY <2>3
      <3>2. l[2] \in Nat /\ l[2] < EndOf(m, l)
        BY RangeTyped
      <3> QED
        BY <1>2, <1>3, <1>5, <2>1, <3>1, <3>2
    <2> QED
      BY <2>2, <2>3 DEF JoinsAbove
  <1>6. ASSUME NEW q \in Nat, low <= q, q < high, ~(x <= q /\ q < y)
        PROVE  <<p, q>> \in Covered(m)
    <2>1. CASE q < x
      <3>1. PICK k \in DOMAIN m : k[1] = p /\ x <= EndOf(m, k) /\ low = k[2]
        BY <1>1, <1>6, <2>1 DEF JoinsBelow
      <3>2. EndOf(m, k) \in Nat
        BY RangeTyped
      <3>3. k[2] <= q /\ q < EndOf(m, k)
        BY <1>6, <2>1, <3>1, <3>2
      <3> QED
        BY <3>1, <3>3, InCovered
    <2>2. CASE y <= q
      <3>1. PICK k \in DOMAIN m : k[1] = p /\ k[2] <= y /\ high = EndOf(m, k)
        BY <1>2, <1>6, <2>2 DEF JoinsAbove
      <3>2. k[2] \in Nat
        BY RangeTyped
      <3>3. k[2] <= q /\ q < EndOf(m, k)
        BY <1>6, <2>2, <3>1, <3>2
      <3> QED
        BY <3>1, <3>3, InCovered
    <2> QED
      BY <1>6, <2>1, <2>2
  <1> QED
    BY <1>1, <1>2, <1>4, <1>5, <1>6 DEF Inside

\* The map in which a joined range has replaced the ranges inside it.
Replaced(m, p, low, high) ==
  [k \in (DOMAIN m \ Inside(m, p, low, high)) \cup {<<p, low>>} |->
     IF k \in DOMAIN m \ Inside(m, p, low, high) THEN m[k] ELSE high - low]

\* It covers the addresses that were covered and those between x and y, and
\* its ranges are apart.
LEMMA JoinExact ==
  ASSUME NEW m, IsMap(m), Apart(m), NEW p \in Nat, NEW x \in Nat, NEW y \in Nat, x < y,
         NEW low, JoinsBelow(m, p, x, low), NEW high, JoinsAbove(m, p, y, high),
         NEW n, n = Replaced(m, p, low, high)
  PROVE  /\ IsMap(n) /\ Apart(n)
         /\ Covered(n) = Covered(m) \cup AddressesOf(p, x, y - x)
  <1> DEFINE kept == DOMAIN m \ Inside(m, p, low, high)
             new == <<p, low>>
  <1>1. /\ low \in Nat /\ high \in Nat /\ low <= x /\ y <= high
        /\ \A k \in DOMAIN m : k[1] = p => \/ k \in Inside(m, p, low, high)
                                           \/ EndOf(m, k) < low
                                           \/ high < k[2]
        /\ \A q \in Nat : low <= q /\ q < high => \/ x <= q /\ q < y
                                                  \/ <<p, q>> \in Covered(m)
    BY JoinApart
  <1>2. low < high
    BY <1>1
  <1>3. \A k \in kept : k[1] = p => EndOf(m, k) < low \/ high < k[2]
    BY <1>1
  <1>4. new \notin kept
    <2> SUFFICES ASSUME new \in kept PROVE FALSE
      OBVIOUS
    <2>1. EndOf(m, new) < low \/ high < low
      BY <1>3
    <2>2. low < EndOf(m, new) /\ EndOf(m, new) \in Nat
      BY RangeTyped
    <2> QED
      BY <1>1, <1>2, <2>1, <2>2
  <1>5. /\ DOMAIN n = kept \cup {new} /\ n[new] = high - low
        /\ \A k \in kept : n[k] = m[k]
    <2>1. n = [k \in kept \cup {new} |-> IF k \in kept THEN m[k] ELSE high - low]
      BY DEF Replaced
    <2> HIDE DEF kept, new
    <2> QED
      BY <1>4, <2>1
  <1>6. kept \subseteq DOMAIN m
    OBVIOUS
  <1>7. \A k \in DOMAIN m \ kept : k[1] = p /\ low <= k[2] /\ EndOf(m, k) <= high
    BY DEF Inside
  <1> HIDE DEF kept
  <1>8. IsMap(n)
    <2>1. DOMAIN n \in SUBSET KeyPairs
      BY <1>1, <1>5, <1>6 DEF IsMap, KeyPairs
    <2>2. IsFiniteSet(kept)
      BY <1>6, FS_Subset DEF IsMap
    <2>3. IsFiniteSet(DOMAIN n)
      BY <1>5, <2>2, FS_AddElement
    <2>4. \A k \in DOMAIN n : n[k] \in Nat \ {0}
      BY <1>1, <1>2, <1>5, <1>6 DEF IsMap
    <2> QED
      BY <2>1, <2>3, <2>4 DEF IsMap
  <1>9. EndOf(n, new) = high /\ new[1] = p /\ new[2] = low
    BY <1>1, <1>5 DEF EndOf
  <1>10. \A k \in kept : EndOf(n, k) = EndOf(m, k)
    BY <1>5 DEF EndOf
  <1>11. Apart(n)
    <2> SUFFICES ASSUME NEW k \in DOMAIN n, NEW l \in DOMAIN n, k[1] = l[1], k[2] < l[2]
                 PROVE  EndOf(n, k) < l[2]
      BY DEF Apart
    <2>0. /\ k \in kept => k \in DOMAIN m /\ k[2] \in Nat /\ EndOf(m, k) \in Nat /\ k[2] < EndOf(m, k)
          /\ l \in kept => l \in DOMAIN m /\ l[2] \in Nat /\ EndOf(m, l) \in Nat /\ l[2] < EndOf(m, l)
      BY <1>6, RangeTyped
    <2>1. CASE k \in kept /\ l \in kept
      BY <1>10, <2>0, <2>1 DEF Apart
    <2>2. CASE k \in kept /\ l = new
      BY <1>1, <1>2, <1>3, <1>9, <1>10, <2>0, <2>2
    <2>3. CASE k = new /\ l \in kept
      BY <1>1, <1>2, <1>3, <1>9, <1>10, <2>0, <2>3
    <2>4. CASE k = new /\ l = new
      BY <1>1, <1>9, <2>4
    <2> QED
      BY <1>5, <2>1, <2>2, <2>3, <2>4
  <1>12. AddressesOf(p, x, y - x) \in SUBSET KeyPairs
    <2>1. (x .. x + (y - x) - 1) \subseteq Nat
      OBVIOUS
    <2> QED
      BY <2>1 DEF AddressesOf, KeyPairs
  <1>13. \A r \in Nat, q \in Nat : <<r, q>> \in AddressesOf(p, x, y - x) <=> r = p /\ x <= q /\ q < y
    BY DEF AddressesOf
  <1>14. ASSUME NEW r \in Nat, NEW q \in Nat
         PROVE  <<r, q>> \in Covered(n) <=> <<r, q>> \in Covered(m) \cup AddressesOf(p, x, y - x)
    <2>1. ASSUME <<r, q>> \in Covered(n) PROVE <<r, q>> \in Covered(m) \cup AddressesOf(p, x, y - x)
      <3>1. PICK k \in DOMAIN n : k[1] = r /\ k[2] <= q /\ q < EndOf(n, k)
        BY <1>8, <2>1, InCovered
      <3>2. CASE k \in kept
        BY <1>6, <1>10, <3>1, <3>2, InCovered
      <3>3. CASE k = new
        <4>1. r = p /\ low <= q /\ q < high
          BY <1>9, <3>1, <3>3
        <4> QED
          BY <1>1, <1>13, <4>1
      <3> QED
        BY <1>5, <3>1, <3>2, <3>3
    <2>2. ASSUME <<r, q>> \in Covered(m) PROVE <<r, q>> \in Covered(n)
      <3>1. PICK k \in DOMAIN m : k[1] = r /\ k[2] <= q /\ q < EndOf(m, k)
        BY <2>2, InCovered
      <3>2. CASE k \in kept
        <4>1. k \in DOMAIN n /\ q < EndOf(n, k)
          BY <1>5, <1>10, <3>1, <3>2
        <4> QED
          BY <1>8, <3>1, <4>1, InCovered
      <3>3. CASE k \notin kept
        <4>1. k[1] = p /\ low <= k[2] /\ EndOf(m, k) <= high /\ k[2] \in Nat /\ EndOf(m, k) \in Nat
          BY <1>7, <3>3, RangeTyped
        <4>2. new \in DOMAIN n /\ new[1] = r /\ new[2] <= q /\ q < EndOf(n, new)
          BY <1>1, <1>5, <1>9, <3>1, <4>1
        <4> HIDE DEF new
        <4> QED
          BY <1>8, <4>2, InCovered
      <3> QED
        BY <3>2, <3>3
    <2>3. ASSUME <<r, q>> \in AddressesOf(p, x, y - x) PROVE <<r, q>> \in Covered(n)
      <3>1. r = p /\ x <= q /\ q < y
        BY <1>13, <2>3
      <3>2. new \in DOMAIN n /\ new[1] = r /\ new[2] <= q /\ q < EndOf(n, new)
        BY <1>1, <1>5, <1>9, <3>1
      <3> HIDE DEF new
      <3> QED
        BY <1>8, <3>2, InCovered
    <2> QED
      BY <2>1, <2>2, <2>3
  <1>15. Covered(m) \in SUBSET KeyPairs /\ Covered(n) \in SUBSET KeyPairs
    BY <1>8, CoveredTyped
  <1>16. Covered(n) = Covered(m) \cup AddressesOf(p, x, y - x)
    <2> DEFINE a == Covered(n)
               b == Covered(m) \cup AddressesOf(p, x, y - x)
    <2>1. a \in SUBSET KeyPairs /\ b \in SUBSET KeyPairs
      BY <1>12, <1>15
    <2>2. \A r \in Nat, q \in Nat : <<r, q>> \in a <=> <<r, q>> \in b
      BY <1>14
    <2> HIDE DEF a, b
    <2>3. a = b
      BY <2>1, <2>2 DEF KeyPairs
    <2> QED
      BY <2>3 DEF a, b
  <1> QED
    BY <1>8, <1>11, <1>16

\* The parts of insert_range().
Joins(m, low, x) == IF low.lower = END THEN FALSE ELSE EndOf(m, low.lower) = x

RemoveStart(m, low, x) ==
  IF low.it # END THEN low.it
  ELSE IF Joins(m, low, x) THEN low.lower
  ELSE IF low.lower # END THEN upper_bound(m, low.lower) ELSE END

LowEnd(m, low, x) == IF low.it # END \/ Joins(m, low, x) THEN RemoveStart(m, low, x)[2] ELSE x

RemoveEnd(high, p, y) == IF high.it = END /\ high.upper = <<p, y>> THEN high.upper ELSE high.it

HighEnd(m, high, p, y) == IF RemoveEnd(high, p, y) = END THEN y ELSE EndOf(m, RemoveEnd(high, p, y))

\* The search below a range decides where the joined one begins.
LEMMA BelowFound ==
  ASSUME NEW m, IsMap(m), Apart(m), NEW p \in Nat, NEW x \in Nat,
         NEW low, Searched(m, p, x, low)
  PROVE  JoinsBelow(m, p, x, LowEnd(m, low, x))
  <1>1. CASE low.it # END
    <2>1. low.it \in DOMAIN m /\ low.it[1] = p /\ low.it[2] <= x /\ x < EndOf(m, low.it)
      BY <1>1 DEF Searched
    <2>2. LowEnd(m, low, x) = low.it[2]
      BY <1>1 DEF LowEnd, RemoveStart
    <2>3. EndOf(m, low.it) \in Nat
      BY <2>1, RangeTyped
    <2> QED
      BY <2>1, <2>2, <2>3 DEF JoinsBelow
  <1>2. CASE low.it = END /\ Joins(m, low, x)
    <2>0. low.lower # END /\ EndOf(m, low.lower) = x
      BY <1>2 DEF Joins
    <2>1. low.lower \in DOMAIN m /\ low.lower[1] = p
      BY <1>2, <2>0 DEF Searched
    <2>2. LowEnd(m, low, x) = low.lower[2]
      BY <1>2 DEF LowEnd, RemoveStart
    <2>3. low.lower[2] \in Nat /\ low.lower[2] < EndOf(m, low.lower)
      BY <2>1, RangeTyped
    <2> QED
      BY <2>0, <2>1, <2>2, <2>3 DEF JoinsBelow
  <1>3. CASE low.it = END /\ ~Joins(m, low, x)
    <2>1. LowEnd(m, low, x) = x
      BY <1>3 DEF LowEnd
    <2>2. ASSUME NEW k \in DOMAIN m, k[1] = p, k[2] <= x, x <= EndOf(m, k) PROVE FALSE
      <3>1. k[2] \in Nat /\ EndOf(m, k) \in Nat /\ k = <<k[1], k[2]>>
        BY RangeTyped
      <3>2. EndOf(m, k) = x
        BY <1>3, <2>2, <3>1 DEF Searched
      <3>3. low.lower # END
        BY <1>3, <2>2, <3>1 DEF Searched
      <3>4. /\ low.lower \in DOMAIN m /\ low.lower[1] = p /\ EndOf(m, low.lower) <= x
            /\ k[2] <= low.lower[2]
        BY <1>3, <2>2, <3>3 DEF Searched
      <3>5. low.lower = <<low.lower[1], low.lower[2]>> /\ low.lower[2] \in Nat /\ low.lower[2] < EndOf(m, low.lower)
            /\ EndOf(m, low.lower) \in Nat
        BY <3>4, RangeTyped
      <3>6. k # low.lower
        BY <1>3, <3>2, <3>3 DEF Joins
      <3>7. k[2] < low.lower[2]
        BY <2>2, <3>1, <3>4, <3>5, <3>6
      <3>8. EndOf(m, k) < low.lower[2]
        BY <2>2, <3>4, <3>7 DEF Apart
      <3> QED
        BY <3>2, <3>4, <3>5, <3>8
    <2> QED
      BY <2>1, <2>2 DEF JoinsBelow
  <1> QED
    BY <1>1, <1>2, <1>3

\* The search at its last address decides where it ends.
LEMMA AboveFound ==
  ASSUME NEW m, IsMap(m), Apart(m), NEW p \in Nat, NEW y \in Nat, y > 0,
         NEW z \in Nat, z = y - 1, NEW high, Searched(m, p, z, high)
  PROVE  /\ JoinsAbove(m, p, y, HighEnd(m, high, p, y))
         /\ RemoveEnd(high, p, y) # END =>
              /\ RemoveEnd(high, p, y) \in DOMAIN m /\ RemoveEnd(high, p, y)[1] = p
              /\ RemoveEnd(high, p, y)[2] <= y /\ y <= EndOf(m, RemoveEnd(high, p, y))
  <1> DEFINE e == RemoveEnd(high, p, y)
  <1>0. <<p, y>> \in KeyPairs /\ <<p, y>> # END /\ y - 1 \in Nat
    BY FilterAssumption DEF KeyPairs
  <1>1. CASE high.it # END
    <2>1. /\ high.it \in DOMAIN m /\ high.it[1] = p /\ high.it[2] <= y - 1 /\ y - 1 < EndOf(m, high.it)
          /\ e = high.it
      BY <1>1 DEF Searched, RemoveEnd
    <2>2. EndOf(m, high.it) \in Nat /\ high.it[2] \in Nat
      BY <2>1, RangeTyped
    <2>3. high.it[2] <= y /\ y <= EndOf(m, high.it) /\ HighEnd(m, high, p, y) = EndOf(m, high.it)
      BY <1>1, <2>1, <2>2 DEF HighEnd
    <2> QED
      BY <2>1, <2>3 DEF JoinsAbove
  <1>2. CASE high.it = END /\ high.upper = <<p, y>>
    <2>1. e = <<p, y>> /\ e \in DOMAIN m /\ e[1] = p /\ e[2] = y
      BY <1>0, <1>2 DEF Searched, Above, RemoveEnd
    <2>2. e[2] < EndOf(m, e) /\ EndOf(m, e) \in Nat
      BY <2>1, RangeTyped
    <2>3. HighEnd(m, high, p, y) = EndOf(m, e)
      BY <1>0, <2>1 DEF HighEnd
    <2> HIDE DEF e
    <2>4. e[2] <= y /\ y <= EndOf(m, e)
      BY <2>1, <2>2
    <2>5. JoinsAbove(m, p, y, HighEnd(m, high, p, y))
      BY <2>1, <2>3, <2>4 DEF JoinsAbove
    <2> QED
      BY <2>1, <2>4, <2>5 DEF e
  <1>3. CASE high.it = END /\ high.upper # <<p, y>>
    <2>1. e = END /\ HighEnd(m, high, p, y) = y
      BY <1>3 DEF RemoveEnd, HighEnd
    <2>2. ASSUME NEW k \in DOMAIN m, k[1] = p, k[2] <= y, y <= EndOf(m, k) PROVE FALSE
      <3>1. k[2] \in Nat /\ EndOf(m, k) \in Nat /\ k = <<k[1], k[2]>> /\ k \in KeyPairs
        BY RangeTyped
      <3>2. y - 1 < k[2] \/ EndOf(m, k) <= y - 1
        BY <1>3, <2>2 DEF Searched
      <3>3. k = <<p, y>>
        BY <2>2, <3>1, <3>2
      <3>4. Before(<<p, y - 1>>, k)
        BY <3>3 DEF Before
      <3>5. Above(m, <<p, y - 1>>, high.upper)
        BY Zenon DEF Searched
      <3>6. /\ high.upper # END /\ high.upper \in DOMAIN m
            /\ Before(<<p, y - 1>>, high.upper) /\ ~Before(k, high.upper)
        BY <3>4, <3>5 DEF Above
      <3>7. high.upper \in KeyPairs /\ <<p, y - 1>> \in KeyPairs
        BY <1>0, <3>6, RangeTyped DEF KeyPairs
      <3>8. Before(high.upper, k)
        BY <1>3, <3>1, <3>3, <3>6, <3>7, KeyOrder
      <3>9. high.upper[1] \in Nat /\ high.upper[2] \in Nat
        BY <3>7 DEF KeyPairs
      <3> QED
        BY <3>3, <3>6, <3>8, <3>9 DEF Before
    <2> QED
      BY <2>1, <2>2 DEF JoinsAbove
  <1> QED
    BY <1>1, <1>2, <1>3


\* No range that the new one replaces comes before the one where the removal
\* starts.
LEMMA RemoveFrom ==
  ASSUME NEW m, IsMap(m), Apart(m), NEW p \in Nat, NEW x \in Nat,
         NEW low, Searched(m, p, x, low),
         NEW k \in DOMAIN m, k[1] = p, LowEnd(m, low, x) <= k[2],
         NEW begin, begin = IF RemoveStart(m, low, x) = END THEN FirstKey(DOMAIN m) ELSE RemoveStart(m, low, x)
  PROVE  ~Before(k, begin)
  <1>0. k \in KeyPairs /\ k[2] \in Nat /\ k[1] \in Nat /\ k = <<k[1], k[2]>> /\ k[2] < EndOf(m, k)
    BY RangeTyped
  <1>1. CASE RemoveStart(m, low, x) = END
    <2>1. ~Before(k, FirstKey(DOMAIN m))
      BY FirstKeyIs DEF IsMap
    <2> QED
      BY <1>1, <2>1
  <1>2. CASE RemoveStart(m, low, x) # END /\ low.it # END
    <2>1. begin = low.it /\ low.it \in DOMAIN m /\ low.it[1] = p /\ low.it[2] <= k[2]
      BY <1>2 DEF Searched, RemoveStart, LowEnd
    <2>2. low.it[2] \in Nat
      BY <2>1, RangeTyped
    <2> QED
      BY <1>0, <2>1, <2>2 DEF Before
  <1>3. CASE RemoveStart(m, low, x) # END /\ low.it = END /\ Joins(m, low, x)
    <2>0. low.lower # END
      BY <1>3 DEF Joins
    <2>1. begin = low.lower /\ low.lower \in DOMAIN m /\ low.lower[1] = p /\ low.lower[2] <= k[2]
      BY <1>3, <2>0 DEF Searched, RemoveStart, LowEnd
    <2>2. low.lower[2] \in Nat
      BY <2>1, RangeTyped
    <2> QED
      BY <1>0, <2>1, <2>2 DEF Before
  <1>4. CASE RemoveStart(m, low, x) # END /\ low.it = END /\ ~Joins(m, low, x)
    <2>1. low.lower # END /\ begin = upper_bound(m, low.lower)
      BY <1>4 DEF RemoveStart
    <2>2. low.lower \in DOMAIN m /\ low.lower[1] = p /\ EndOf(m, low.lower) <= x
      BY <1>4, <2>1 DEF Searched
    <2>3. low.lower \in KeyPairs /\ low.lower[2] \in Nat /\ low.lower[2] < EndOf(m, low.lower)
          /\ EndOf(m, low.lower) \in Nat
      BY <2>2, RangeTyped
    <2>4. x <= k[2]
      BY <1>4 DEF LowEnd
    <2>5. Before(low.lower, k)
      BY <1>0, <2>2, <2>3, <2>4 DEF Before
    <2>6. Above(m, low.lower, begin)
      BY <2>1, <2>3, UpperBound
    <2> QED
      BY <1>4, <2>1, <2>5, <2>6 DEF Above, RemoveStart
  <1> QED
    BY <1>1, <1>2, <1>3, <1>4

\* What is left of a map without the ranges inside a joined one.
Keeps(n, m, p, low, high) ==
  DOMAIN n = DOMAIN m \ Inside(m, p, low, high) /\ \A k \in DOMAIN n : n[k] = m[k]

\* What the loop of remove_ranges() and the erasure after it remove.
LEMMA Removed ==
  ASSUME NEW m, IsMap(m), Apart(m), NEW p \in Nat, NEW x \in Nat, NEW y \in Nat, x < y,
         NEW z \in Nat, z = y - 1,
         NEW low, Searched(m, p, x, low), NEW high, Searched(m, p, z, high)
  PROVE  Keeps(remove_ranges(m, RemoveStart(m, low, x), RemoveEnd(high, p, y), p,
                             LowEnd(m, low, x), HighEnd(m, high, p, y)),
               m, p, LowEnd(m, low, x), HighEnd(m, high, p, y))
  <1> DEFINE start == RemoveStart(m, low, x)
             last == RemoveEnd(high, p, y)
             a == LowEnd(m, low, x)
             b == HighEnd(m, high, p, y)
             begin == IF start = END THEN FirstKey(DOMAIN m) ELSE start
             onwards == {k \in DOMAIN m : ~Before(k, begin)}
             visited == {k \in onwards : IF last = END THEN TRUE ELSE Before(k, last)}
             inside == {k \in visited : k[1] = p /\ a <= k[2] /\ b >= EndOf(m, k)}
             gone == inside \cup ({last} \cap onwards)
             n == remove_ranges(m, start, last, p, a, b)
  <1> SUFFICES Keeps(n, m, p, a, b)
    OBVIOUS
  <1>1. n = [k \in DOMAIN m \ gone |-> m[k]]
    BY Zenon DEF remove_ranges
  <1>2. /\ JoinsBelow(m, p, x, a) /\ JoinsAbove(m, p, y, b)
        /\ last # END => last \in DOMAIN m /\ last[1] = p /\ last[2] <= y /\ y <= EndOf(m, last)
    BY BelowFound, AboveFound
  <1>3. a \in Nat /\ b \in Nat /\ a <= x /\ y <= b
    BY <1>2, JoinApart
  <1>4. \A k \in DOMAIN m : k[1] = p /\ a <= k[2] => k \in onwards
    BY RemoveFrom
  <1>5. last # END => b = EndOf(m, last)
    BY DEF HighEnd
  <1>6. END \notin DOMAIN m
    BY FilterAssumption DEF IsMap, KeyPairs
  <1> HIDE DEF start, last, a, b, n
  <1> HIDE DEF begin
  <1>7. last # END => a <= last[2]
    <2> SUFFICES ASSUME last # END, ~(a <= last[2]) PROVE FALSE
      OBVIOUS
    <2>1. last \in DOMAIN m /\ last[1] = p /\ last[2] \in Nat /\ EndOf(m, last) \in Nat /\ y <= EndOf(m, last)
      BY <1>2, RangeTyped
    <2>2. \/ last \in Inside(m, p, a, b)
          \/ EndOf(m, last) < a
          \/ b < last[2]
      BY <1>2, <2>1, JoinApart
    <2> QED
      BY <1>3, <1>5, <2>1, <2>2 DEF Inside
  <1>8. ASSUME NEW k \in Inside(m, p, a, b) PROVE k \in gone
    <2>0. k \in DOMAIN m /\ k[1] = p /\ a <= k[2] /\ EndOf(m, k) <= b
      BY DEF Inside
    <2>1. k \in onwards
      BY <1>4, <2>0
    <2>2. CASE last = END
      BY <2>0, <2>1, <2>2
    <2>3. CASE last # END /\ k # last
      <3>1. last \in DOMAIN m /\ last[1] = p /\ last = <<last[1], last[2]>> /\ last[2] \in Nat
        BY <1>2, <2>3, RangeTyped
      <3>2. k = <<k[1], k[2]>> /\ k[2] \in Nat /\ EndOf(m, k) \in Nat /\ k[2] < EndOf(m, k)
        BY <2>0, RangeTyped
      <3>3. ~(last[2] < k[2])
        <4> SUFFICES ASSUME last[2] < k[2] PROVE FALSE
          OBVIOUS
        <4>1. EndOf(m, last) < k[2]
          BY <2>0, <3>1 DEF Apart
        <4> QED
          BY <1>3, <1>5, <2>0, <2>3, <3>2, <4>1
      <3>4. k[2] # last[2]
        BY <2>0, <2>3, <3>1, <3>2
      <3>5. Before(k, last)
        BY <2>0, <3>1, <3>2, <3>3, <3>4 DEF Before
      <3>6. k \in visited
        BY <2>1, <3>5
      <3>7. b >= EndOf(m, k)
        BY <1>3, <2>0, <3>2
      <3> QED
        BY <2>0, <3>6, <3>7
    <2>4. CASE k = last
      BY <2>1, <2>4
    <2> QED
      BY <2>2, <2>3, <2>4
  <1>9. ASSUME NEW k \in gone PROVE k \in Inside(m, p, a, b)
    <2>1. CASE k \in inside
      <3>1. EndOf(m, k) \in Nat
        BY <2>1, RangeTyped
      <3> QED
        BY <1>3, <2>1, <3>1 DEF Inside
    <2>2. CASE k = last /\ last \in onwards
      <3>1. last # END /\ last \in DOMAIN m
        BY <1>6, <2>2
      <3>2. last[1] = p /\ a <= last[2] /\ EndOf(m, last) <= b
        BY <1>2, <1>3, <1>5, <1>7, <3>1
      <3> QED
        BY <2>2, <3>1, <3>2 DEF Inside
    <2> QED
      BY <2>1, <2>2
  <1>10. gone = Inside(m, p, a, b)
    <2> HIDE DEF gone
    <2> QED
      BY <1>8, <1>9
  <1> HIDE DEF gone
  <1> QED
    BY <1>1, <1>10 DEF Keeps

\* A range inserted is joined with those that it overlaps or touches: the map
\* covers what it covered and the range, and its ranges are apart again.
LEMMA InsertRange ==
  ASSUME NEW m, IsMap(m), Apart(m), NEW p \in Nat, NEW x \in Nat, NEW size \in Nat \ {0}
  PROVE  /\ IsMap(insert_range(m, p, x, size)) /\ Apart(insert_range(m, p, x, size))
         /\ Covered(insert_range(m, p, x, size)) = Covered(m) \cup AddressesOf(p, x, size)
  <1> DEFINE low == search_range(m, p, x)
             y == x + size
             z == x + size - 1
             high == search_range(m, p, z)
             a == LowEnd(m, low, x)
             b == HighEnd(m, high, p, y)
             left == remove_ranges(m, RemoveStart(m, low, x), RemoveEnd(high, p, y), p, a, b)
             n == insert_range(m, p, x, size)
  <1>1. n = insert_new_range(left, p, a, b - a)
    BY Zenon DEF insert_range, Joins, RemoveStart, LowEnd, RemoveEnd, HighEnd
  <1>2. y \in Nat /\ x < y /\ z \in Nat /\ z = y - 1 /\ y - x = size
    OBVIOUS
  <1>3. Searched(m, p, x, low) /\ Searched(m, p, z, high)
    BY <1>2, SearchRange
  <1> HIDE DEF low, high, n
  <1> HIDE DEF y, z
  <1>4. Keeps(left, m, p, a, b)
    BY <1>2, <1>3, Removed
  <1>5. JoinsBelow(m, p, x, a) /\ JoinsAbove(m, p, y, b)
    BY <1>2, <1>3, BelowFound, AboveFound
  <1> HIDE DEF a, b, left
  <1>6. n = Replaced(m, p, a, b)
    <2>1. n = [k \in DOMAIN left \cup {<<p, a>>} |-> IF k \in DOMAIN left THEN left[k] ELSE b - a]
      BY <1>1, Zenon DEF insert_new_range
    <2> DEFINE kept == DOMAIN m \ Inside(m, p, a, b)
               new == <<p, a>>
    <2>2. DOMAIN left = kept /\ \A k \in kept : left[k] = m[k]
      BY <1>4 DEF Keeps
    <2>3. n = [k \in kept \cup {new} |-> IF k \in kept THEN m[k] ELSE b - a]
      <3> HIDE DEF kept, new
      <3>1. n = [k \in DOMAIN left \cup {new} |-> IF k \in DOMAIN left THEN left[k] ELSE b - a]
        BY <2>1 DEF new
      <3> QED
        BY <2>2, <3>1
    <2> QED
      BY <2>3 DEF Replaced
  <1>7. IsMap(n) /\ Apart(n) /\ Covered(n) = Covered(m) \cup AddressesOf(p, x, y - x)
    BY <1>2, <1>5, <1>6, JoinExact
  <1> QED
    BY <1>2, <1>7 DEF n

-----------------------------------------------------------------------------
(* Filters built by insertions.                                            *)

FilterIs(m, covered) == IsMap(m) /\ Apart(m) /\ Covered(m) = covered

\* An insertion adds the addresses of the range.
LEMMA Inserts ==
  ASSUME NEW m, NEW c, FilterIs(m, c), NEW p \in Nat, NEW x \in Nat, NEW size \in Nat \ {0}
  PROVE  FilterIs(insert_range(m, p, x, size), c \cup AddressesOf(p, x, size))
  BY InsertRange DEF FilterIs

\* A filter without ranges covers nothing.
LEMMA EmptyFilter ==
  ASSUME NEW m, DOMAIN m = {}
  PROVE  FilterIs(m, {})
  <1>1. IsMap(m)
    BY FS_EmptySet DEF IsMap
  <1>2. Apart(m)
    BY DEF Apart
  <1>3. Covered(m) = {}
    BY DEF Covered
  <1> QED
    BY <1>1, <1>2, <1>3 DEF FilterIs

\* f inserts the ranges of each set of configured ones, in some order.
InsertsSets(f) ==
  f = [s \in SUBSET Configured |->
         IF s = {} THEN <<>>
         ELSE LET r == CHOOSE x \in s : TRUE IN insert_range(f[s \ {r}], r[1], r[2], r[3])]

\* The range that is inserted last.
LastOf(s) == CHOOSE x \in s : TRUE

InsertedLast(f, s) == insert_range(f[s \ {LastOf(s)}], LastOf(s)[1], LastOf(s)[2], LastOf(s)[3])

\* One range less.
LEMMA OneRangeLess ==
  ASSUME NEW s \in SUBSET Configured, s # {}
  PROVE  /\ LastOf(s) \in s /\ IsFiniteSet(s) /\ s \ {LastOf(s)} \in SUBSET Configured
         /\ Cardinality(s) \in Nat \ {0} /\ Cardinality(s \ {LastOf(s)}) = Cardinality(s) - 1
  <1>1. LastOf(s) \in s
    BY DEF LastOf
  <1>2. IsFiniteSet(s)
    BY HotPagesAssumption, FS_Subset
  <1>3. Cardinality(s) \in Nat /\ Cardinality(s) # 0
    BY <1>2, FS_CardinalityType, FS_EmptySet
  <1> QED
    BY <1>1, <1>2, <1>3, FS_RemoveElement

\* The function that the configuration is inserted by exists.
LEMMA InsertsSetsExists == \E f : InsertsSets(f)
  <1> DEFINE Upto(f, n) == \A s \in SUBSET Configured :
                             Cardinality(s) <= n => f[s] = IF s = {} THEN <<>> ELSE InsertedLast(f, s)
             S == {n \in Nat : \E f : Upto(f, n)}
  <1>0. IsFiniteSet(Configured)
    BY HotPagesAssumption
  <1>1. 0 \in S
    <2> DEFINE f == [s \in SUBSET Configured |-> <<>>]
    <2>1. \A s \in SUBSET Configured : Cardinality(s) <= 0 => s = {}
      <3> SUFFICES ASSUME NEW s \in SUBSET Configured, Cardinality(s) <= 0, s # {} PROVE FALSE
        OBVIOUS
      <3>1. Cardinality(s) \in Nat \ {0}
        BY OneRangeLess
      <3> QED
        BY <3>1
    <2>2. \A s \in SUBSET Configured : f[s] = <<>>
      OBVIOUS
    <2> HIDE DEF f
    <2>3. Upto(f, 0)
      BY <2>1, <2>2
    <2> QED
      BY <2>3
  <1>2. ASSUME NEW n \in Nat, n \in S PROVE n + 1 \in S
    <2>1. PICK f : Upto(f, n)
      BY <1>2
    <2> DEFINE g == [s \in SUBSET Configured |-> IF Cardinality(s) <= n THEN f[s] ELSE InsertedLast(f, s)]
    <2>2. \A s \in SUBSET Configured : g[s] = IF Cardinality(s) <= n THEN f[s] ELSE InsertedLast(f, s)
      OBVIOUS
    <2> HIDE DEF g
    <2>3. ASSUME NEW s \in SUBSET Configured, Cardinality(s) <= n + 1
          PROVE  g[s] = IF s = {} THEN <<>> ELSE InsertedLast(g, s)
      <3>1. CASE s = {}
        <4>1. Cardinality(s) <= n
          BY <3>1, FS_EmptySet
        <4>2. g[s] = f[s] /\ f[s] = <<>>
          BY <2>1, <2>2, <3>1, <4>1
        <4> QED
          BY <3>1, <4>2
      <3>2. CASE s # {}
        <4>1. /\ s \ {LastOf(s)} \in SUBSET Configured
              /\ Cardinality(s) \in Nat \ {0} /\ Cardinality(s \ {LastOf(s)}) = Cardinality(s) - 1
          BY <3>2, OneRangeLess
        <4>2. Cardinality(s \ {LastOf(s)}) <= n
          BY <2>3, <4>1
        <4>3. g[s \ {LastOf(s)}] = f[s \ {LastOf(s)}]
          BY <2>2, <4>1, <4>2
        <4>4. InsertedLast(g, s) = InsertedLast(f, s)
          BY <4>3, Zenon DEF InsertedLast
        <4>5. CASE Cardinality(s) <= n
          <5>1. g[s] = f[s]
            BY <2>2, <4>5
          <5>2. f[s] = InsertedLast(f, s)
            BY <2>1, <3>2, <4>5
          <5> QED
            BY <3>2, <4>4, <5>1, <5>2
        <4>6. CASE ~(Cardinality(s) <= n)
          <5>1. g[s] = InsertedLast(f, s)
            BY <2>2, <4>6
          <5> QED
            BY <3>2, <4>4, <5>1
        <4> QED
          BY <4>5, <4>6
      <3> QED
        BY <3>1, <3>2
    <2>4. Upto(g, n + 1)
      BY <2>3
    <2> QED
      BY <2>4
  <1> HIDE DEF S
  <1>3. Cardinality(Configured) \in S
    BY <1>0, <1>1, <1>2, SetInduction, FS_CardinalityType
  <1>4. PICK f : Upto(f, Cardinality(Configured))
    BY <1>3 DEF S
  <1>5. \A s \in SUBSET Configured : Cardinality(s) <= Cardinality(Configured)
    BY <1>0, FS_Subset
  <1> DEFINE h == [s \in SUBSET Configured |-> f[s]]
  <1>6. \A s \in SUBSET Configured : h[s] = f[s]
    OBVIOUS
  <1>7. DOMAIN h = SUBSET Configured /\ h = [s \in SUBSET Configured |-> h[s]]
    OBVIOUS
  <1> HIDE DEF h
  <1>8. ASSUME NEW s \in SUBSET Configured
        PROVE  h[s] = IF s = {} THEN <<>>
                      ELSE LET r == CHOOSE x \in s : TRUE IN insert_range(h[s \ {r}], r[1], r[2], r[3])
    <2>1. f[s] = IF s = {} THEN <<>> ELSE InsertedLast(f, s)
      BY <1>4, <1>5
    <2>2. InsertedLast(f, s) = InsertedLast(h, s)
      <3>1. s \ {LastOf(s)} \in SUBSET Configured
        OBVIOUS
      <3>2. h[s \ {LastOf(s)}] = f[s \ {LastOf(s)}]
        BY <1>6, <3>1
      <3> QED
        BY <3>2, Zenon DEF InsertedLast
    <2>3. h[s] = IF s = {} THEN <<>> ELSE InsertedLast(h, s)
      BY <1>6, <2>1, <2>2
    <2> QED
      BY <2>3, Zenon DEF InsertedLast, LastOf
  <1>9. InsertsSets(h)
    BY <1>7, <1>8, Zenon DEF InsertsSets
  <1> QED
    BY <1>9

AddressesIn(s) == UNION {AddressesOf(r[1], r[2], r[3]) : r \in s}

\* The filter of the configured ranges covers just them, in whatever order
\* they are inserted.
LEMMA ConfiguredRanges == FilterIs(ConfiguredFilter, AddressesIn(Configured))
  <1> DEFINE f == CHOOSE f : InsertsSets(f)
  <1>1. InsertsSets(f)
    BY InsertsSetsExists, Zenon
  <1>2. ConfiguredFilter = f[Configured]
    BY Zenon DEF ConfiguredFilter, InsertsSets
  <1> HIDE DEF f
  <1>3. \A s \in SUBSET Configured : f[s] = IF s = {} THEN <<>> ELSE InsertedLast(f, s)
    <2> SUFFICES ASSUME NEW s \in SUBSET Configured
                 PROVE  f[s] = IF s = {} THEN <<>> ELSE InsertedLast(f, s)
      OBVIOUS
    <2>1. f[s] = IF s = {} THEN <<>>
                 ELSE LET r == CHOOSE x \in s : TRUE IN insert_range(f[s \ {r}], r[1], r[2], r[3])
      BY <1>1, SMT DEF InsertsSets
    <2> QED
      BY <2>1, Zenon DEF InsertedLast, LastOf
  <1> DEFINE Fine(n) == \A s \in SUBSET Configured : Cardinality(s) = n => FilterIs(f[s], AddressesIn(s))
             S == {n \in Nat : Fine(n)}
  <1>4. 0 \in S
    <2> SUFFICES ASSUME NEW s \in SUBSET Configured, Cardinality(s) = 0 PROVE FilterIs(f[s], AddressesIn(s))
      OBVIOUS
    <2>1. s = {}
      BY OneRangeLess
    <2>2. f[s] = <<>> /\ DOMAIN <<>> = {}
      BY <1>3, <2>1
    <2>3. AddressesIn(s) = {}
      BY <2>1 DEF AddressesIn
    <2> QED
      BY <2>2, <2>3, EmptyFilter
  <1>5. ASSUME NEW n \in Nat, n \in S PROVE n + 1 \in S
    <2> SUFFICES ASSUME NEW s \in SUBSET Configured, Cardinality(s) = n + 1
                 PROVE  FilterIs(f[s], AddressesIn(s))
      OBVIOUS
    <2>1. s # {}
      BY FS_EmptySet
    <2>2. PICK r : r = LastOf(s)
      OBVIOUS
    <2>3. r \in s /\ s \ {r} \in SUBSET Configured /\ Cardinality(s \ {r}) = n
      BY <2>1, <2>2, OneRangeLess
    <2>4. FilterIs(f[s \ {r}], AddressesIn(s \ {r}))
      BY <1>5, <2>3
    <2>5. r \in Nat \X Nat \X (Nat \ {0})
      BY <2>3, HotPagesAssumption
    <2>6. r[1] \in Nat /\ r[2] \in Nat /\ r[3] \in Nat \ {0}
      BY <2>5
    <2>7. f[s] = insert_range(f[s \ {r}], r[1], r[2], r[3])
      BY <1>3, <2>1, <2>2 DEF InsertedLast
    <2>8. FilterIs(f[s], AddressesIn(s \ {r}) \cup AddressesOf(r[1], r[2], r[3]))
      <3>1. PICK m : m = f[s \ {r}]
        OBVIOUS
      <3>2. PICK c : c = AddressesIn(s \ {r})
        OBVIOUS
      <3>3. PICK p, x, size : p = r[1] /\ x = r[2] /\ size = r[3]
        OBVIOUS
      <3>4. FilterIs(insert_range(m, p, x, size), c \cup AddressesOf(p, x, size))
        BY <2>4, <2>6, <3>1, <3>2, <3>3, Inserts
      <3> QED
        BY <2>7, <3>1, <3>2, <3>3, <3>4
    <2>9. AddressesIn(s) = AddressesIn(s \ {r}) \cup AddressesOf(r[1], r[2], r[3])
      BY <2>3 DEF AddressesIn
    <2> QED
      BY <2>8, <2>9
  <1> HIDE DEF S
  <1>6. Cardinality(Configured) \in S
    BY <1>4, <1>5, SetInduction, FS_CardinalityType, HotPagesAssumption
  <1> QED
    BY <1>2, <1>6 DEF S


-----------------------------------------------------------------------------
(* Pages that are inserted one by one.                                     *)

\* The function by which pages are inserted in turn.
InsertsPages(f, m, pages) ==
  f = [i \in 0 .. Len(pages) |->
         IF i = 0 THEN m ELSE insert_range(f[i - 1], pages[i][1], pages[i][2], 1)]

InTurn(f, m, pages, n) ==
  f[0] = m /\ \A i \in 1 .. n : f[i] = insert_range(f[i - 1], pages[i][1], pages[i][2], 1)

\* Inserted() is defined for every sequence of pages.
LEMMA InsertsPagesExists ==
  ASSUME NEW m, NEW pages \in Seq(KeyPairs)
  PROVE  \E f : InsertsPages(f, m, pages)
  <1> DEFINE S == {n \in Nat : \E f : InTurn(f, m, pages, n)}
  <1>1. 0 \in S
    <2>1. InTurn([i \in 0 .. 0 |-> m], m, pages, 0)
      BY DEF InTurn
    <2> QED
      BY <2>1
  <1>2. ASSUME NEW n \in Nat, n \in S PROVE n + 1 \in S
    <2>1. PICK f : InTurn(f, m, pages, n)
      BY <1>2
    <2> DEFINE g == [i \in 0 .. n + 1 |-> IF i <= n THEN f[i]
                                          ELSE insert_range(f[n], pages[n + 1][1], pages[n + 1][2], 1)]
    <2>2. /\ \A i \in 0 .. n : g[i] = f[i]
          /\ g[n + 1] = insert_range(f[n], pages[n + 1][1], pages[n + 1][2], 1)
      OBVIOUS
    <2> HIDE DEF g
    <2>3. ASSUME NEW i \in 1 .. n + 1
          PROVE  g[i] = insert_range(g[i - 1], pages[i][1], pages[i][2], 1)
      <3>1. CASE i <= n
        <4>1. i \in 1 .. n /\ i - 1 \in 0 .. n
          BY <3>1
        <4>2. g[i] = f[i] /\ g[i - 1] = f[i - 1] /\ f[i] = insert_range(f[i - 1], pages[i][1], pages[i][2], 1)
          BY <2>1, <2>2, <4>1 DEF InTurn
        <4> QED
          BY <4>2
      <3>2. CASE i = n + 1
        <4>1. i - 1 = n /\ n \in 0 .. n
          BY <3>2
        <4>2. g[n] = f[n]
          BY <2>2, <4>1
        <4>3. g[i - 1] = g[n]
          BY <4>1
        <4> QED
          BY <2>2, <3>2, <4>2, <4>3
      <3> QED
        BY <3>1, <3>2
    <2>4. g[0] = m
      BY <2>1, <2>2 DEF InTurn
    <2>5. InTurn(g, m, pages, n + 1)
      BY <2>3, <2>4 DEF InTurn
    <2> QED
      BY <2>5
  <1> HIDE DEF S
  <1>3. Len(pages) \in S
    BY <1>1, <1>2, SetInduction
  <1>4. PICK f : InTurn(f, m, pages, Len(pages))
    BY <1>3 DEF S
  <1> DEFINE h == [i \in 0 .. Len(pages) |-> f[i]]
  <1>5. \A i \in 0 .. Len(pages) : h[i] = f[i]
    OBVIOUS
  <1>6. h = [i \in 0 .. Len(pages) |-> h[i]]
    OBVIOUS
  <1> HIDE DEF h
  <1>7. ASSUME NEW i \in 0 .. Len(pages)
        PROVE  h[i] = IF i = 0 THEN m ELSE insert_range(h[i - 1], pages[i][1], pages[i][2], 1)
    <2>1. CASE i = 0
      BY <1>4, <1>5, <2>1 DEF InTurn
    <2>2. CASE i # 0
      <3>1. i \in 1 .. Len(pages) /\ i - 1 \in 0 .. Len(pages)
        BY <2>2
      <3>2. f[i] = insert_range(f[i - 1], pages[i][1], pages[i][2], 1)
        BY <1>4, <3>1 DEF InTurn
      <3>3. h[i] = f[i] /\ h[i - 1] = f[i - 1]
        BY <1>5, <3>1
      <3> QED
        BY <2>2, <3>2, <3>3
    <2> QED
      BY <2>1, <2>2
  <1>8. InsertsPages(h, m, pages)
    BY <1>6, <1>7, Zenon DEF InsertsPages
  <1> QED
    BY <1>8

\* A page of its own.
LEMMA OnePage ==
  ASSUME NEW q \in KeyPairs
  PROVE  AddressesOf(q[1], q[2], 1) = {q}
  <1>1. q[1] \in Nat /\ q[2] \in Nat /\ q = <<q[1], q[2]>>
    BY DEF KeyPairs
  <1>2. q[2] .. q[2] + 1 - 1 = {q[2]}
    BY <1>1
  <1>3. {q[1]} \X {q[2]} = {<<q[1], q[2]>>}
    OBVIOUS
  <1> QED
    BY <1>1, <1>2, <1>3 DEF AddressesOf

\* Pages that are inserted one by one are covered with what was covered.
LEMMA InsertedPages ==
  ASSUME NEW m, NEW c, FilterIs(m, c), NEW pages \in Seq(KeyPairs)
  PROVE  FilterIs(Inserted(m, pages), c \cup {pages[i] : i \in DOMAIN pages})
  <1> DEFINE f == CHOOSE f : InsertsPages(f, m, pages)
             S == {n \in Nat : n <= Len(pages) => FilterIs(f[n], c \cup {pages[i] : i \in 1 .. n})}
  <1>1. InsertsPages(f, m, pages)
    BY InsertsPagesExists, Zenon
  <1>2. Inserted(m, pages) = f[Len(pages)]
    BY Zenon DEF Inserted, InsertsPages
  <1> HIDE DEF f
  <1>3. f[0] = m /\ \A i \in 1 .. Len(pages) : f[i] = insert_range(f[i - 1], pages[i][1], pages[i][2], 1)
    BY <1>1 DEF InsertsPages
  <1>4. 0 \in S
    <2>1. c \cup {pages[i] : i \in 1 .. 0} = c
      OBVIOUS
    <2> QED
      BY <1>3, <2>1
  <1>5. ASSUME NEW n \in Nat, n \in S PROVE n + 1 \in S
    <2> SUFFICES ASSUME n + 1 <= Len(pages)
                 PROVE  FilterIs(f[n + 1], c \cup {pages[i] : i \in 1 .. n + 1})
      OBVIOUS
    <2>1. PICK m1, c1, q : m1 = f[n] /\ c1 = c \cup {pages[i] : i \in 1 .. n} /\ q = pages[n + 1]
      OBVIOUS
    <2>2. FilterIs(m1, c1)
      BY <1>5, <2>1
    <2>3. q \in KeyPairs /\ q[1] \in Nat /\ q[2] \in Nat
      BY <2>1 DEF KeyPairs
    <2>4. f[n + 1] = insert_range(m1, q[1], q[2], 1)
      BY <1>3, <2>1
    <2>5. FilterIs(f[n + 1], c1 \cup AddressesOf(q[1], q[2], 1))
      BY <2>2, <2>3, <2>4, Inserts
    <2>6. c1 \cup {q} = c \cup {pages[i] : i \in 1 .. n + 1}
      <3>1. 1 .. n + 1 = (1 .. n) \cup {n + 1}
        OBVIOUS
      <3> QED
        BY <2>1, <3>1
    <2> QED
      BY <2>3, <2>5, <2>6, OnePage
  <1> HIDE DEF S
  <1>6. Len(pages) \in S
    BY <1>4, <1>5, SetInduction
  <1>7. FilterIs(f[Len(pages)], c \cup {pages[i] : i \in 1 .. Len(pages)})
    BY <1>6 DEF S
  <1>8. DOMAIN pages = 1 .. Len(pages)
    OBVIOUS
  <1>9. {pages[i] : i \in DOMAIN pages} = {pages[i] : i \in 1 .. Len(pages)}
    BY <1>8
  <1> QED
    BY <1>2, <1>7, <1>9

-----------------------------------------------------------------------------
(* Sequences chosen from others.                                           *)

\* What is taken with one element more.
Grown(t, s, i, places) == IF i \in places THEN Append(t, s[i]) ELSE t

\* The function by which Chosen() takes elements.
Takes(f, s, places) ==
  f = [i \in 0 .. Len(s) |-> IF i = 0 THEN <<>> ELSE Grown(f[i - 1], s, i, places)]

TakesInTurn(f, s, places, n) ==
  f[0] = <<>> /\ \A i \in 1 .. n : f[i] = Grown(f[i - 1], s, i, places)

\* Chosen() is defined for every sequence.
LEMMA TakesExists ==
  ASSUME NEW T, NEW s \in Seq(T), NEW places
  PROVE  \E f : Takes(f, s, places)
  <1> DEFINE S == {n \in Nat : \E f : TakesInTurn(f, s, places, n)}
  <1>1. 0 \in S
    <2>1. TakesInTurn([i \in 0 .. 0 |-> <<>>], s, places, 0)
      BY DEF TakesInTurn
    <2> QED
      BY <2>1
  <1>2. ASSUME NEW n \in Nat, n \in S PROVE n + 1 \in S
    <2>1. PICK f : TakesInTurn(f, s, places, n)
      BY <1>2
    <2>a. PICK z : z = Grown(f[n], s, n + 1, places)
      OBVIOUS
    <2> DEFINE g == [i \in 0 .. n + 1 |-> IF i <= n THEN f[i] ELSE z]
    <2>2. /\ \A i \in 0 .. n : g[i] = f[i]
          /\ g[n + 1] = z
      OBVIOUS
    <2> HIDE DEF g
    <2>3. ASSUME NEW i \in 1 .. n + 1
          PROVE  g[i] = Grown(g[i - 1], s, i, places)
      <3>1. CASE i <= n
        <4>1. i \in 1 .. n /\ i - 1 \in 0 .. n
          BY <3>1
        <4>2. /\ g[i] = f[i] /\ g[i - 1] = f[i - 1]
              /\ f[i] = Grown(f[i - 1], s, i, places)
          BY <2>1, <2>2, <4>1 DEF TakesInTurn
        <4> QED
          BY <4>2
      <3>2. CASE i = n + 1
        <4>1. i - 1 = n /\ n \in 0 .. n
          BY <3>2
        <4>2. g[n] = f[n]
          BY <2>2, <4>1
        <4>3. g[i - 1] = g[n]
          BY <4>1
        <4> QED
          BY <2>a, <2>2, <3>2, <4>2, <4>3
      <3> QED
        BY <3>1, <3>2
    <2>4. g[0] = <<>>
      BY <2>1, <2>2 DEF TakesInTurn
    <2>5. TakesInTurn(g, s, places, n + 1)
      BY <2>3, <2>4 DEF TakesInTurn
    <2> QED
      BY <2>5
  <1> HIDE DEF S
  <1>3. Len(s) \in S
    BY <1>1, <1>2, SetInduction
  <1>4. PICK f : TakesInTurn(f, s, places, Len(s))
    BY <1>3 DEF S
  <1> DEFINE h == [i \in 0 .. Len(s) |-> f[i]]
  <1>5. \A i \in 0 .. Len(s) : h[i] = f[i]
    OBVIOUS
  <1>6. h = [i \in 0 .. Len(s) |-> h[i]]
    OBVIOUS
  <1> HIDE DEF h
  <1>7. ASSUME NEW i \in 0 .. Len(s)
        PROVE  h[i] = IF i = 0 THEN <<>> ELSE Grown(h[i - 1], s, i, places)
    <2>1. CASE i = 0
      BY <1>4, <1>5, <2>1 DEF TakesInTurn
    <2>2. CASE i # 0
      <3>1. i \in 1 .. Len(s) /\ i - 1 \in 0 .. Len(s)
        BY <2>2
      <3>2. f[i] = Grown(f[i - 1], s, i, places)
        BY <1>4, <3>1 DEF TakesInTurn
      <3>3. h[i] = f[i] /\ h[i - 1] = f[i - 1]
        BY <1>5, <3>1
      <3> QED
        BY <2>2, <3>2, <3>3
    <2> QED
      BY <2>1, <2>2
  <1>8. Takes(h, s, places)
    BY <1>6, <1>7, Zenon DEF Takes
  <1> QED
    BY <1>8

\* The elements of t are elements of s at the places, and each such element is one.
Picks(t, s, n, places) ==
  /\ Len(t) <= n
  /\ \A j \in DOMAIN t : \E i \in 1 .. n : i \in places /\ t[j] = s[i]
  /\ \A i \in 1 .. n : i \in places => \E j \in DOMAIN t : t[j] = s[i]

\* What Chosen() returns.
LEMMA ChosenPicks ==
  ASSUME NEW T, NEW s \in Seq(T), NEW places
  PROVE  Chosen(s, places) \in Seq(T) /\ Picks(Chosen(s, places), s, Len(s), places)
  <1> DEFINE f == CHOOSE f : Takes(f, s, places)
             S == {n \in Nat : n <= Len(s) => f[n] \in Seq(T) /\ Picks(f[n], s, n, places)}
  <1>1. Takes(f, s, places)
    BY TakesExists, Zenon
  <1>2. Chosen(s, places) = f[Len(s)]
    BY Zenon DEF Chosen, Takes, Grown
  <1> HIDE DEF f
  <1>3. f[0] = <<>> /\ \A i \in 1 .. Len(s) : f[i] = Grown(f[i - 1], s, i, places)
    <2>1. \A i \in 0 .. Len(s) : f[i] = IF i = 0 THEN <<>> ELSE Grown(f[i - 1], s, i, places)
      BY <1>1, SMT DEF Takes
    <2>2. Len(s) \in Nat /\ 0 \in 0 .. Len(s) /\ \A i \in 1 .. Len(s) : i \in 0 .. Len(s) /\ i # 0
      OBVIOUS
    <2> QED
      BY <2>1, <2>2, Zenon
  <1>4. 0 \in S
    <2>1. <<>> \in Seq(T) /\ Picks(<<>>, s, 0, places)
      BY DEF Picks
    <2> QED
      BY <1>3, <2>1
  <1>5. ASSUME NEW n \in Nat, n \in S PROVE n + 1 \in S
    <2> SUFFICES ASSUME n + 1 <= Len(s)
                 PROVE  f[n + 1] \in Seq(T) /\ Picks(f[n + 1], s, n + 1, places)
      OBVIOUS
    <2>1. PICK t : t = f[n]
      OBVIOUS
    <2>2. t \in Seq(T) /\ Picks(t, s, n, places)
      BY <1>5, <2>1
    <2>3. f[n + 1] = IF n + 1 \in places THEN Append(t, s[n + 1]) ELSE t
      <3>1. n + 1 \in 1 .. Len(s) /\ (n + 1) - 1 = n
        OBVIOUS
      <3>2. f[n + 1] = Grown(t, s, n + 1, places)
        BY <1>3, <2>1, <3>1
      <3> QED
        BY <3>2 DEF Grown
    <2>4. CASE n + 1 \notin places
      BY <2>2, <2>3, <2>4 DEF Picks
    <2>5. CASE n + 1 \in places
      <3>1. PICK u : u = Append(t, s[n + 1])
        OBVIOUS
      <3>2. /\ u \in Seq(T) /\ Len(u) = Len(t) + 1 /\ u[Len(t) + 1] = s[n + 1]
            /\ \A j \in 1 .. Len(t) : u[j] = t[j]
            /\ DOMAIN u = 1 .. Len(t) + 1 /\ DOMAIN t = 1 .. Len(t) /\ Len(t) \in Nat
        BY <2>2, <3>1
      <3>3. Len(u) <= n + 1
        BY <2>2, <3>2 DEF Picks
      <3>4. ASSUME NEW j \in DOMAIN u PROVE \E i \in 1 .. n + 1 : i \in places /\ u[j] = s[i]
        <4>1. CASE j = Len(t) + 1
          BY <2>5, <3>2, <4>1
        <4>2. CASE j # Len(t) + 1
          <5>1. j \in 1 .. Len(t)
            BY <3>2, <4>2
          <5>2. PICK i \in 1 .. n : i \in places /\ t[j] = s[i]
            BY <2>2, <3>2, <5>1 DEF Picks
          <5>3. i \in 1 .. n + 1 /\ u[j] = s[i]
            BY <3>2, <5>1, <5>2
          <5> QED
            BY <5>2, <5>3
        <4> QED
          BY <4>1, <4>2
      <3>5. ASSUME NEW i \in 1 .. n + 1, i \in places PROVE \E j \in DOMAIN u : u[j] = s[i]
        <4>1. CASE i = n + 1
          BY <3>2, <4>1
        <4>2. CASE i # n + 1
          <5>1. i \in 1 .. n
            BY <4>2
          <5>2. PICK j \in DOMAIN t : t[j] = s[i]
            BY <2>2, <3>5, <5>1 DEF Picks
          <5>3. j \in DOMAIN u /\ u[j] = s[i]
            BY <3>2, <5>2
          <5> QED
            BY <5>3
        <4> QED
          BY <4>1, <4>2
      <3>6. Picks(u, s, n + 1, places)
        BY <3>3, <3>4, <3>5 DEF Picks
      <3>7. f[n + 1] = u
        BY <2>3, <2>5, <3>1
      <3> QED
        BY <3>2, <3>6, <3>7
    <2> QED
      BY <2>4, <2>5
  <1> HIDE DEF S
  <1>6. Len(s) \in S
    BY <1>4, <1>5, SetInduction
  <1> QED
    BY <1>2, <1>6 DEF S

-----------------------------------------------------------------------------
(* The hot page table.                                                     *)

Items == [key : Keys \cup {NoKey}, count : Counts, next : 0 .. Size]

Tables == [hash_mode : BOOLEAN, total : Nat, len : 0 .. Size,
           matrix  : [Rows -> [Columns -> Counts]],
           buckets : [0 .. Size - 1 -> 0 .. Size],
           items   : [1 .. Size -> Items]]

\* A table's items are of pages, and so is whatever an item behind the last one
\* still counts.
Sketched(t) ==
  /\ t \in Tables
  /\ \A n \in 1 .. t.len : t.items[n].key \in Keys
  /\ \A n \in 1 .. Size : t.items[n].count # 0 => t.items[n].key \in Keys

\* The numbers behind the sizes.
LEMMA Sizes ==
  /\ Width \in Nat /\ Width > 1 /\ Size \in Nat \ {0} /\ Threshold \in Nat \ {0}
  /\ Depth \in Nat \ {0} /\ Width \div 2 \in Nat \ {0}
  <1>1. \A n \in Nat : 2 ^ n \in Int
    OBVIOUS
  <1>2. Width \in Int /\ Size \in Int
    BY <1>1, SketchAssumption
  <1>3. Width \in Nat /\ Width > 1 /\ Size \in Nat \ {0}
    BY <1>2, SketchAssumption
  <1>4. Width \div 2 \in Nat /\ Width \div 2 > 0
    BY <1>3
  <1> QED
    BY <1>3, <1>4, SketchAssumption

\* The counts of 16 bits.
LEMMA CountWraps ==
  ASSUME NEW n \in Nat
  PROVE  CmsCount(n) \in Counts
  <1>1. PICK m : m = 65536
    OBVIOUS
  <1>2. Counts = 0 .. m - 1
    BY <1>1, SMT DEF Counts
  <1>3. CmsCount(n) = n % m
    BY <1>1 DEF CmsCount
  <1>4. m \in Nat \ {0}
    BY <1>1
  <1>5. n % m \in 0 .. m - 1
    BY <1>4
  <1> QED
    BY <1>2, <1>3, <1>5

\* Counts are numbers.
LEMMA CountsAreNumbers == 0 \in Counts /\ \A x \in Counts : x \in Nat
  BY SMT DEF Counts

\* An item counts.
LEMMA ItemCounts ==
  ASSUME NEW items \in [1 .. Size -> Items], NEW n \in 1 .. Size
  PROVE  items[n].count \in Nat
  <1>1. items[n].count \in Counts
    BY DEF Items
  <1> QED
    BY <1>1, CountsAreNumbers

\* The table begins empty.
LEMMA TableInit ==
  ASSUME NEW h \in BOOLEAN
  PROVE  Sketched(cmsk_init(h)) /\ cmsk_init(h).len = 0 /\ cmsk_init(h).hash_mode = h
  <1>1. NoItem \in Items /\ NoItem.count = 0
    BY Sizes, CountsAreNumbers DEF NoItem, Items
  <1>2. [r \in Rows |-> [c \in Columns |-> 0]] \in [Rows -> [Columns -> Counts]]
    BY CountsAreNumbers
  <1>3. [b \in 0 .. Size - 1 |-> 0] \in [0 .. Size - 1 -> 0 .. Size]
    BY Sizes
  <1>4. [n \in 1 .. Size |-> NoItem] \in [1 .. Size -> Items]
    BY <1>1
  <1>5. cmsk_init(h) \in Tables
    BY <1>2, <1>3, <1>4, Sizes DEF cmsk_init, Tables
  <1>6. /\ cmsk_init(h).len = 0 /\ cmsk_init(h).hash_mode = h
        /\ \A n \in 1 .. Size : cmsk_init(h).items[n] = NoItem
    BY DEF cmsk_init
  <1> QED
    BY <1>1, <1>5, <1>6 DEF Sketched

\* An interval begins with an empty table, whose items keep their contents.
LEMMA TableAged ==
  ASSUME NEW t, Sketched(t)
  PROVE  Sketched(cmsk_age(t)) /\ cmsk_age(t).len = 0
  <1>1. t \in Tables /\ t.hash_mode \in BOOLEAN /\ t.items \in [1 .. Size -> Items]
    BY DEF Sketched, Tables
  <1>2. PICK u : u = cmsk_init(t.hash_mode)
    OBVIOUS
  <1>3. Sketched(u) /\ u.len = 0 /\ u \in Tables
    BY <1>1, <1>2, TableInit DEF Sketched
  <1>4. PICK v : v = [u EXCEPT !.items = t.items]
    OBVIOUS
  <1>5. v \in Tables /\ v.len = 0 /\ v.items = t.items
    BY <1>1, <1>3, <1>4 DEF Tables
  <1>6. cmsk_age(t) = v
    BY <1>2, <1>4 DEF cmsk_age
  <1>7. Sketched(v)
    BY <1>5 DEF Sketched
  <1> QED
    BY <1>5, <1>6, <1>7

\* Counting in the sketch leaves the items alone.
LEMMA SketchCounted ==
  ASSUME NEW t, Sketched(t), NEW k \in Keys
  PROVE  /\ Sketched(cms_update(t, k)) /\ cms_update(t, k).len = t.len
         /\ Sketched([t EXCEPT !.total = @ + 1]) /\ [t EXCEPT !.total = @ + 1].len = t.len
  <1>1. t \in Tables /\ t.total \in Nat /\ t.matrix \in [Rows -> [Columns -> Counts]]
    BY DEF Sketched, Tables
  <1>2. PICK m : m = [r \in Rows |-> [c \in Columns |->
                        CmsCount(t.matrix[r][c] + IF c = Column(r, k) THEN 1 ELSE 0)]]
    OBVIOUS
  <1>3. m \in [Rows -> [Columns -> Counts]]
    <2>1. ASSUME NEW r \in Rows, NEW c \in Columns
          PROVE  CmsCount(t.matrix[r][c] + IF c = Column(r, k) THEN 1 ELSE 0) \in Counts
      <3>1. PICK x : x = t.matrix[r][c]
        OBVIOUS
      <3>2. x \in Counts
        BY <1>1, <3>1
      <3>3. x + 1 \in Nat /\ x + 0 \in Nat
        BY <3>2, CountsAreNumbers
      <3> QED
        BY <3>1, <3>3, CountWraps
    <2> QED
      BY <1>2, <2>1
  <1>a. PICK total : total = t.total + 1
    OBVIOUS
  <1>b. total \in Nat
    BY <1>1, <1>a
  <1>4. PICK u : u = [t EXCEPT !.total = total, !.matrix = m]
    OBVIOUS
  <1>5. u \in Tables /\ u.len = t.len /\ u.items = t.items
    BY <1>1, <1>3, <1>4, <1>b DEF Tables
  <1>6. Sketched(u)
    BY <1>5 DEF Sketched
  <1>7. cms_update(t, k) = u
    BY <1>2, <1>4, <1>a DEF cms_update
  <1>8. PICK v : v = [t EXCEPT !.total = total]
    OBVIOUS
  <1>9. v \in Tables /\ v.len = t.len /\ v.items = t.items
    BY <1>1, <1>8, <1>b DEF Tables
  <1>10. Sketched(v)
    BY <1>9 DEF Sketched
  <1>11. [t EXCEPT !.total = @ + 1] = v
    BY <1>8, <1>a
  <1> QED
    BY <1>5, <1>6, <1>7, <1>9, <1>10, <1>11


-----------------------------------------------------------------------------
\* The numbers of a chain are numbers of items.
LEMMA ChainNumbers ==
  ASSUME NEW t, Sketched(t), NEW n
  PROVE  /\ n \in Counts => CmsCount(n + 1) \in Counts
         /\ CmsCount(IF t.hash_mode THEN 1 ELSE Threshold) \in Counts
  <1>1. n \in Counts => n + 1 \in Nat
    BY CountsAreNumbers
  <1>2. 1 \in Nat /\ Threshold \in Nat
    BY Sizes
  <1> QED
    BY <1>1, <1>2, CountWraps

\* A new item takes the next place.
LEMMA NewItem ==
  ASSUME NEW t, Sketched(t), t.len < Size, NEW k \in Keys
  PROVE  Sketched(achash_new_item(t, k)) /\ achash_new_item(t, k).len = t.len + 1
  <1>1. t \in Tables /\ t.len \in Nat /\ t.items \in [1 .. Size -> Items]
    BY DEF Sketched, Tables
  <1>2. PICK item : item = [key |-> k, next |-> 0, count |-> CmsCount(IF t.hash_mode THEN 1 ELSE Threshold)]
    OBVIOUS
  <1>3. item \in Items /\ item.key = k
    <2>1. PICK c : c = CmsCount(IF t.hash_mode THEN 1 ELSE Threshold)
      OBVIOUS
    <2>2. c \in Counts
      BY <2>1, ChainNumbers
    <2>3. 0 \in 0 .. Size
      BY Sizes
    <2> QED
      BY <1>2, <2>1, <2>2, <2>3 DEF Items
  <1>4. PICK len : len = t.len + 1
    OBVIOUS
  <1>5. len \in 1 .. Size /\ len \in 0 .. Size
    BY <1>1, <1>4, Sizes
  <1>6. PICK items : items = [t.items EXCEPT ![len] = item]
    OBVIOUS
  <1>7. items \in [1 .. Size -> Items] /\ items[len] = item /\ \A n \in 1 .. Size : n # len => items[n] = t.items[n]
    BY <1>1, <1>3, <1>5, <1>6
  <1>8. PICK u : u = [t EXCEPT !.len = len, !.items = items]
    OBVIOUS
  <1>9. u \in Tables /\ u.len = len /\ u.items = items
    BY <1>1, <1>5, <1>7, <1>8 DEF Tables
  <1>10. achash_new_item(t, k) = u
    BY <1>2, <1>4, <1>6, <1>8 DEF achash_new_item
  <1>11. \A n \in 1 .. len : items[n].key \in Keys
    <2> SUFFICES ASSUME NEW n \in 1 .. len PROVE items[n].key \in Keys
      OBVIOUS
    <2>1. CASE n = len
      BY <1>3, <1>7, <2>1
    <2>2. CASE n # len
      <3>1. n \in 1 .. t.len /\ n \in 1 .. Size
        BY <1>1, <1>4, <1>5, <2>2, Sizes
      <3> QED
        BY <1>7, <2>2, <3>1 DEF Sketched
    <2> QED
      BY <2>1, <2>2
  <1>12. \A n \in 1 .. Size : items[n].count # 0 => items[n].key \in Keys
    BY <1>3, <1>7 DEF Sketched
  <1> QED
    BY <1>4, <1>9, <1>10, <1>11, <1>12 DEF Sketched

\* A page met on its chain is counted again; another one gets an item.
LEMMA HashCounted ==
  ASSUME NEW t, Sketched(t), t.len < Size, NEW k \in Keys
  PROVE  /\ Sketched(achash_update(t, k))
         /\ achash_update(t, k).len \in {t.len, t.len + 1}
  <1> DEFINE b == Bucket(t, k)
             chain == Chain(t, b)
             met == {n \in chain : SameKey(k, t.items[n].key)}
             tail == CHOOSE n \in chain : t.items[n].next = 0
             first == CHOOSE n \in met : TRUE
             added == achash_new_item(t, k)
             u == achash_update(t, k)
  <1>0. t \in Tables /\ t.len \in Nat /\ t.items \in [1 .. Size -> Items]
    BY DEF Sketched, Tables
  <1>1. u = IF met # {} THEN [t EXCEPT !.items[first].count = CmsCount(@ + 1)]
            ELSE IF chain = {} THEN [added EXCEPT !.buckets[b] = added.len]
            ELSE [added EXCEPT !.items[tail].next = added.len]
    BY Zenon DEF achash_update
  <1>2. Sketched(added) /\ added.len = t.len + 1 /\ added \in Tables
    BY NewItem DEF Sketched
  <1>3. met # {} => SameKey(k, t.items[first].key)
    OBVIOUS
  <1> HIDE DEF met, chain, tail, first, added, u, b
  <1>4. CASE met # {}
    <2>1. PICK items : items = [t.items EXCEPT ![first].count = CmsCount(@ + 1)]
      OBVIOUS
    <2>2. u = [t EXCEPT !.items = items]
      BY <1>1, <1>4, <2>1
    <2>3. CASE first \in 1 .. Size
      <3>1. PICK item : item = t.items[first]
        OBVIOUS
      <3>2. item \in Items /\ item.key = k
        BY <1>0, <1>3, <1>4, <2>3, <3>1 DEF SameKey
      <3>3. PICK c : c = CmsCount(item.count + 1)
        OBVIOUS
      <3>4. c \in Counts
        BY <3>2, <3>3, ChainNumbers DEF Items
      <3>5. PICK more : more = [item EXCEPT !.count = c]
        OBVIOUS
      <3>6. more \in Items /\ more.key = k
        BY <3>2, <3>4, <3>5 DEF Items
      <3>7. items = [t.items EXCEPT ![first] = more]
        BY <2>1, <3>1, <3>3, <3>5
      <3>8. items \in [1 .. Size -> Items] /\ items[first] = more /\ \A n \in 1 .. Size : n # first => items[n] = t.items[n]
        BY <1>0, <2>3, <3>6, <3>7
      <3>9. u \in Tables /\ u.len = t.len /\ u.items = items
        BY <1>0, <2>2, <3>8 DEF Tables
      <3>10. \A n \in 1 .. t.len : n \in 1 .. Size
        BY <1>0, Sizes DEF Tables
      <3>11. Sketched(u)
        BY <3>6, <3>8, <3>9, <3>10 DEF Sketched
      <3> QED
        BY <3>9, <3>11 DEF u
    <2>4. CASE first \notin 1 .. Size
      <3>1. items = t.items
        BY <1>0, <2>1, <2>4
      <3>2. u \in Tables /\ u.len = t.len /\ u.items = t.items
        BY <1>0, <2>2, <3>1 DEF Tables
      <3>3. Sketched(u)
        BY <3>2 DEF Sketched
      <3> QED
        BY <3>2, <3>3 DEF u
    <2> QED
      BY <2>3, <2>4
  <1>5. CASE met = {} /\ chain = {}
    <2>1. PICK buckets : buckets = [added.buckets EXCEPT ![b] = added.len]
      OBVIOUS
    <2>2. added.buckets \in [0 .. Size - 1 -> 0 .. Size] /\ added.len \in 0 .. Size
      BY <1>2 DEF Tables
    <2>3. buckets \in [0 .. Size - 1 -> 0 .. Size]
      BY <2>1, <2>2
    <2>4. u = [added EXCEPT !.buckets = buckets]
      BY <1>1, <1>5, <2>1
    <2>5. u \in Tables /\ u.len = added.len /\ u.items = added.items
      BY <1>2, <2>3, <2>4 DEF Tables
    <2>6. Sketched(u)
      BY <1>2, <2>5 DEF Sketched
    <2> QED
      BY <1>2, <2>5, <2>6 DEF u
  <1>6. CASE met = {} /\ chain # {}
    <2>1. PICK items : items = [added.items EXCEPT ![tail].next = added.len]
      OBVIOUS
    <2>2. added.items \in [1 .. Size -> Items] /\ added.len \in 0 .. Size
      BY <1>2 DEF Tables
    <2>3. /\ items \in [1 .. Size -> Items]
          /\ \A n \in 1 .. Size : items[n].key = added.items[n].key /\ items[n].count = added.items[n].count
      <3>1. CASE tail \in 1 .. Size
        <4>1. PICK item : item = added.items[tail]
          OBVIOUS
        <4>2. item \in Items
          BY <2>2, <3>1, <4>1
        <4>3. PICK more : more = [item EXCEPT !.next = added.len]
          OBVIOUS
        <4>4. more \in Items /\ more.key = item.key /\ more.count = item.count
          BY <2>2, <4>2, <4>3 DEF Items
        <4>5. items = [added.items EXCEPT ![tail] = more]
          BY <2>1, <4>1, <4>3
        <4>6. items \in [1 .. Size -> Items] /\ items[tail] = more /\ \A n \in 1 .. Size : n # tail => items[n] = added.items[n]
          BY <2>2, <3>1, <4>4, <4>5
        <4> QED
          BY <4>1, <4>4, <4>6
      <3>2. CASE tail \notin 1 .. Size
        <4>1. items = added.items
          BY <2>1, <2>2, <3>2
        <4> QED
          BY <2>2, <4>1
      <3> QED
        BY <3>1, <3>2
    <2>4. u = [added EXCEPT !.items = items]
      BY <1>1, <1>6, <2>1
    <2>5. u \in Tables /\ u.len = added.len /\ u.items = items
      BY <1>2, <2>3, <2>4 DEF Tables
    <2>6. \A n \in 1 .. added.len : n \in 1 .. Size
      BY <2>2, Sizes
    <2>7. Sketched(u)
      BY <1>2, <2>3, <2>5, <2>6 DEF Sketched
    <2> QED
      BY <1>2, <2>5, <2>7 DEF u
  <1> QED
    BY <1>4, <1>5, <1>6

\* One sample.
LEMMA TableUpdated ==
  ASSUME NEW t, Sketched(t), t.len < Size, NEW k \in Keys
  PROVE  Sketched(cmsk_update(t, k)) /\ cmsk_update(t, k).len \in {t.len, t.len + 1}
  <1>1. PICK a, c : a = [t EXCEPT !.total = @ + 1] /\ c = cms_update(t, k)
    OBVIOUS
  <1>2. Sketched(a) /\ a.len = t.len /\ Sketched(c) /\ c.len = t.len
    BY <1>1, SketchCounted
  <1>3. \/ cmsk_update(t, k) = achash_update(a, k)
        \/ cmsk_update(t, k) = achash_update(c, k)
        \/ cmsk_update(t, k) = c
    BY <1>1 DEF cmsk_update
  <1>4. Sketched(achash_update(a, k)) /\ achash_update(a, k).len \in {t.len, t.len + 1}
    BY <1>2, HashCounted
  <1>5. Sketched(achash_update(c, k)) /\ achash_update(c, k).len \in {t.len, t.len + 1}
    BY <1>2, HashCounted
  <1> QED
    BY <1>2, <1>3, <1>4, <1>5

-----------------------------------------------------------------------------
(* Sorting.                                                                *)

Falling(items) == \A m, n \in 1 .. Size : m < n => items[m].count >= items[n].count

\* Sorting puts items of the table in the order of their counts.
LEMMA SortedItems ==
  ASSUME NEW t, Sketched(t), NEW items \in Sorted(t.items)
  PROVE  /\ items \in [1 .. Size -> Items] /\ Falling(items)
         /\ \A n \in 1 .. Size : items[n].count # 0 => items[n].key \in Keys
  <1>0. t.items \in [1 .. Size -> Items]
    BY DEF Sketched, Tables
  <1>1. PICK q \in [1 .. Size -> 1 .. Size] :
          /\ \A m, n \in 1 .. Size : m < n => t.items[q[m]].count >= t.items[q[n]].count
          /\ items = [n \in 1 .. Size |-> [t.items[q[n]] EXCEPT !.next = 0]]
    BY DEF Sorted
  <1>2. ASSUME NEW n \in 1 .. Size
        PROVE  items[n] \in Items /\ items[n].count = t.items[q[n]].count /\ items[n].key = t.items[q[n]].key
    <2>1. PICK item : item = t.items[q[n]]
      OBVIOUS
    <2>2. item \in Items
      BY <1>0, <2>1
    <2>3. items[n] = [item EXCEPT !.next = 0]
      BY <1>1, <2>1
    <2>4. items[n] \in Items /\ items[n].count = item.count /\ items[n].key = item.key
      BY <2>2, <2>3, Sizes DEF Items
    <2> QED
      BY <2>1, <2>4
  <1>3. items \in [1 .. Size -> Items]
    BY <1>1, <1>2
  <1>4. Falling(items)
    BY <1>1, <1>2 DEF Falling
  <1>5. \A n \in 1 .. Size : items[n].count # 0 => items[n].key \in Keys
    BY <1>2 DEF Sketched
  <1> QED
    BY <1>3, <1>4, <1>5

\* The binary search counts the items above a count, which come first.
LEMMA SearchesFirst ==
  ASSUME NEW items \in [1 .. Size -> Items], Falling(items), NEW end \in 0 .. Size - 1, NEW c \in Nat
  PROVE  /\ achash_bsearch(items, end, c) \in 0 .. end
         /\ \A n \in 1 .. achash_bsearch(items, end, c) : items[n].count > c
  <1> DEFINE above == {n \in 1 .. end : items[n].count > c}
             k == achash_bsearch(items, end, c)
  <1>1. k = Cardinality(above)
    BY DEF achash_bsearch
  <1>2. IsFiniteSet(1 .. end) /\ Cardinality(1 .. end) = end /\ above \subseteq 1 .. end
    BY FS_Interval
  <1> HIDE DEF k
  <1>3. k \in Nat /\ k <= end
    <2> HIDE DEF above
    <2>1. PICK I : I = 1 .. end
      OBVIOUS
    <2>2. IsFiniteSet(I) /\ Cardinality(I) = end /\ above \subseteq I
      BY <1>2, <2>1
    <2>3. IsFiniteSet(above) /\ Cardinality(above) <= Cardinality(I)
      BY <2>2, FS_Subset
    <2>4. Cardinality(above) \in Nat
      BY <2>3, FS_CardinalityType
    <2> QED
      BY <1>1, <2>2, <2>3, <2>4
  <1>4. ASSUME NEW n \in 1 .. k PROVE items[n].count > c
    <2> SUFFICES ASSUME ~(items[n].count > c) PROVE FALSE
      OBVIOUS
    <2>1. ASSUME NEW m \in above PROVE m \in 1 .. n - 1
      <3>1. m \in 1 .. Size /\ n \in 1 .. Size
        BY <1>3, Sizes
      <3>2. items[m].count > c /\ items[m].count \in Nat /\ items[n].count \in Nat
        BY <3>1, ItemCounts
      <3>3. ~(n < m)
        BY <3>1, <3>2 DEF Falling
      <3>4. n # m
        BY <3>2
      <3> QED
        BY <3>1, <3>3, <3>4
    <2>2. above \subseteq 1 .. n - 1
      BY <2>1
    <2>3. IsFiniteSet(1 .. n - 1) /\ Cardinality(1 .. n - 1) = n - 1
      BY FS_Interval
    <2>4. Cardinality(above) <= n - 1
      <3> HIDE DEF above
      <3>1. PICK below : below = 1 .. n - 1
        OBVIOUS
      <3>2. Cardinality(above) <= Cardinality(below)
        BY <2>2, <2>3, <3>1, FS_Subset
      <3> QED
        BY <2>3, <3>1, <3>2
    <2> QED
      BY <1>1, <1>3, <2>4
  <1> QED
    BY <1>3, <1>4 DEF k

\* A count that stays above the cut is at least 1.
LEMMA CutPositive ==
  ASSUME NEW t, Sketched(t)
  PROVE  Cut(t) \in Nat \ {0}
  <1>1. t.total \in Nat
    BY DEF Sketched, Tables
  <1>2. PICK d : d = Width \div 2
    OBVIOUS
  <1>3. d \in Nat \ {0}
    BY <1>2, Sizes
  <1>4. t.total \div d \in Nat
    BY <1>1, <1>3
  <1>5. cms_error(t) \in Nat
    BY <1>2, <1>4 DEF cms_error
  <1> QED
    BY <1>5, Sizes DEF Cut

\* A sorted table holds pages, and no more items than before.
LEMMA TableSorted ==
  ASSUME NEW t, Sketched(t), NEW u \in cmsk_sort(t)
  PROVE  Sketched(u) /\ u.len <= t.len
  <1>0. t \in Tables /\ t.len \in 0 .. Size /\ t.len \in Nat
    BY Sizes DEF Sketched, Tables
  <1>1. CASE t.len = 0
    BY <1>0, <1>1 DEF cmsk_sort
  <1>2. CASE t.len # 0
    <2>1. PICK items \in Sorted(t.items) :
            u = [t EXCEPT !.items = items,
                          !.len = IF items[t.len].count >= Cut(t) THEN t.len
                                  ELSE achash_bsearch(items, t.len - 1, CmsCount(Cut(t) - 1))]
      BY <1>2 DEF cmsk_sort
    <2>2. /\ items \in [1 .. Size -> Items] /\ Falling(items)
          /\ \A n \in 1 .. Size : items[n].count # 0 => items[n].key \in Keys
      BY SortedItems
    <2>3. PICK c, k : c = CmsCount(Cut(t) - 1) /\ k = achash_bsearch(items, t.len - 1, c)
      OBVIOUS
    <2>4. c \in Nat
      <3>1. Cut(t) - 1 \in Nat
        BY CutPositive
      <3> QED
        BY <2>3, <3>1, CountWraps, CountsAreNumbers
    <2>5. PICK end : end = t.len - 1
      OBVIOUS
    <2>6. end \in 0 .. Size - 1
      BY <1>0, <1>2, <2>5, Sizes
    <2>7. k \in 0 .. end /\ \A n \in 1 .. k : items[n].count > c
      BY <2>2, <2>3, <2>4, <2>5, <2>6, SearchesFirst
    <2>8. PICK len : len = IF items[t.len].count >= Cut(t) THEN t.len ELSE k
      OBVIOUS
    <2>9. len \in 0 .. Size /\ len <= t.len
      BY <1>0, <2>5, <2>7, <2>8, Sizes
    <2>10. u = [t EXCEPT !.items = items, !.len = len]
      BY <2>1, <2>3, <2>8
    <2>11. u \in Tables /\ u.len = len /\ u.items = items
      BY <1>0, <2>2, <2>9, <2>10 DEF Tables
    <2>12. ASSUME NEW n \in 1 .. len PROVE items[n].count # 0
      <3>1. CASE items[t.len].count >= Cut(t)
        <4>1. n \in 1 .. Size /\ t.len \in 1 .. Size /\ n <= t.len
          BY <1>0, <1>2, <2>9, Sizes
        <4>2. items[n].count >= items[t.len].count
          <5>1. items[t.len].count \in Nat
            BY <2>2, <4>1, ItemCounts
          <5> QED
            BY <2>2, <4>1, <5>1 DEF Falling
        <4>3. items[n].count \in Nat /\ items[t.len].count \in Nat
          BY <2>2, <4>1, ItemCounts
        <4> QED
          BY <3>1, <4>2, <4>3, CutPositive
      <3>2. CASE ~(items[t.len].count >= Cut(t))
        <4>1. items[n].count > c
          BY <2>7, <2>8, <3>2
        <4> QED
          BY <2>4, <4>1
      <3> QED
        BY <3>1, <3>2
    <2>13. \A n \in 1 .. len : n \in 1 .. Size
      BY <2>9, Sizes
    <2>14. Sketched(u)
      BY <2>2, <2>11, <2>12, <2>13 DEF Sketched
    <2> QED
      BY <2>9, <2>11, <2>14
  <1> QED
    BY <1>1, <1>2

-----------------------------------------------------------------------------
(* The items of one process.                                               *)

SameProcess(e) == \A i \in at .. e : sk.items[i].key.pid = sk.items[at].key.pid

\* The hottest items that may be moved.
LEMMA HotItemsTyped ==
  ASSUME Sketched(sk)
  PROVE  /\ HotItems \in Nat /\ HotItems <= sk.len /\ HotItems <= MovePagesMax \div PagesPer
         /\ MovePagesMax \div PagesPer \in Nat
  <1>1. sk.len \in Nat
    BY Sizes DEF Sketched, Tables
  <1>2. PICK d : d = MovePagesMax \div PagesPer
    OBVIOUS
  <1>3. d \in Nat
    BY <1>2, HotPagesAssumption
  <1>4. HotItems = IF sk.len < d THEN sk.len ELSE d
    BY <1>2 DEF HotItems
  <1> QED
    BY <1>1, <1>2, <1>3, <1>4

\* The group that begins at an item ends at one.
LEMMA RunEndTyped ==
  ASSUME Sketched(sk), at \in Nat \ {0}, at <= HotItems
  PROVE  RunEnd \in at .. HotItems
  <1> DEFINE Ends(e) == /\ \A i \in at .. e : sk.items[i].key.pid = sk.items[at].key.pid
                        /\ e = HotItems \/ sk.items[e + 1].key.pid # sk.items[at].key.pid
             S == {n \in Nat : at + n <= HotItems => SameProcess(at + n)}
  <1>0. HotItems \in Nat
    BY HotItemsTyped
  <1>1. \E e \in at .. HotItems : Ends(e)
    <2> SUFFICES ASSUME \A e \in at .. HotItems : ~Ends(e) PROVE FALSE
      OBVIOUS
    <2>1. 0 \in S
      BY DEF SameProcess
    <2>2. ASSUME NEW n \in Nat, n \in S PROVE n + 1 \in S
      <3> SUFFICES ASSUME at + (n + 1) <= HotItems PROVE SameProcess(at + (n + 1))
        OBVIOUS
      <3>1. PICK e : e = at + n
        OBVIOUS
      <3>2. e \in at .. HotItems /\ e # HotItems /\ SameProcess(e) /\ e + 1 = at + (n + 1)
        BY <1>0, <2>2, <3>1
      <3>3. sk.items[e + 1].key.pid = sk.items[at].key.pid
        BY <3>2 DEF SameProcess
      <3>4. \A i \in at .. e + 1 : i \in at .. e \/ i = e + 1
        BY <3>2
      <3> QED
        BY <3>2, <3>3, <3>4 DEF SameProcess
    <2> HIDE DEF S
    <2>3. HotItems - at \in S
      <3>1. HotItems - at \in Nat
        BY <1>0
      <3> QED
        BY <2>1, <2>2, <3>1, SetInduction
    <2>4. SameProcess(HotItems)
      BY <1>0, <2>3 DEF S
    <2>5. Ends(HotItems)
      BY <2>4 DEF SameProcess
    <2> QED
      BY <1>0, <2>5
  <1>2. RunEnd = CHOOSE e \in at .. HotItems : Ends(e)
    BY Zenon DEF RunEnd
  <1> QED
    BY <1>1, <1>2, Zenon

-----------------------------------------------------------------------------
(* The pages of a group.                                                   *)

HotPage == [page : Pages \cap KeyPairs, count : Nat]

\* Whole items fit into what may be moved.
LEMMA WholeItems ==
  ASSUME NEW n \in Nat, NEW M \in Nat, NEW P \in Nat \ {0}, n <= M \div P
  PROVE  n * P \in Nat /\ n * P <= M
  <1>1. PICK q : q = M \div P
    OBVIOUS
  <1>2. q \in Nat /\ q * P <= M
    BY <1>1, SMT
  <1>3. n * P <= q * P
    BY <1>1, <1>2, SMT
  <1> QED
    BY <1>2, <1>3, SMT

\* Which item, and which page of it, a number stands for.
LEMMA PageOfItem ==
  ASSUME NEW n \in Nat, NEW P \in Nat \ {0}, NEW x \in Nat, x < n * P
  PROVE  x \div P \in 0 .. n - 1 /\ x % P \in 0 .. P - 1
  <1>1. PICK d : d = x \div P
    OBVIOUS
  <1>2. d \in Nat /\ d * P <= x
    BY <1>1, SMT
  <1>3. d < n
    <2> SUFFICES ASSUME n <= d PROVE FALSE
      BY <1>2
    <2>1. n * P <= d * P
      BY <1>2, SMT
    <2> QED
      BY <1>2, <2>1, SMT
  <1>4. x % P \in 0 .. P - 1
    BY SMT
  <1> QED
    BY <1>1, <1>2, <1>3, <1>4

\* The pages of a group are pages that exist and that the filter lets pass.
LEMMA HotPagesOfTyped ==
  ASSUME Sketched(sk), IsMap(rmap), Apart(rmap), at \in Nat \ {0},
         NEW last \in at .. HotItems
  PROVE  /\ HotPagesOf(last) \in Seq(HotPage) /\ Len(HotPagesOf(last)) <= MovePagesMax
         /\ \A i \in DOMAIN HotPagesOf(last) : HotPagesOf(last)[i].page \notin Covered(rmap)
  <1> DEFINE n == last - at + 1
             Entry(i) == LET item == sk.items[at + (i - 1) \div PagesPer] IN
                         [page  |-> <<item.key.pid, item.key.addr * PagesPer + ((i - 1) % PagesPer)>>,
                          count |-> item.count]
             all == [i \in 1 .. n * PagesPer |-> Entry(i)]
             free == {i \in DOMAIN all : ~search_address(rmap, all[i].page[1], all[i].page[2])}
             res == HotPagesOf(last)
  <1>0. PagesPer \in Nat \ {0} /\ MovePagesMax \in Nat
    BY HotPagesAssumption
  <1>1. n \in Nat /\ n <= HotItems /\ HotItems <= sk.len /\ n <= MovePagesMax \div PagesPer /\ at + (n - 1) <= HotItems
    <2>1. HotItems \in Nat
      BY HotItemsTyped
    <2>2. PICK q : q = MovePagesMax \div PagesPer
      OBVIOUS
    <2>3. HotItems <= sk.len /\ HotItems <= q /\ q \in Nat
      BY <2>2, HotItemsTyped
    <2> QED
      BY <2>1, <2>2, <2>3
  <1>2. res = Chosen(all, free)
    BY Zenon DEF HotPagesOf
  <1> HIDE DEF n, free, res
  <1>3. n * PagesPer \in Nat /\ n * PagesPer <= MovePagesMax
    BY <1>0, <1>1, WholeItems
  <1>4. ASSUME NEW i \in 1 .. n * PagesPer PROVE Entry(i) \in HotPage
    <2>1. PICK x, d, j : x = i - 1 /\ d = x \div PagesPer /\ j = x % PagesPer
      OBVIOUS
    <2>2. x \in Nat /\ x < n * PagesPer
      BY <1>3, <2>1
    <2>3. d \in 0 .. n - 1 /\ j \in 0 .. PagesPer - 1
      BY <1>0, <1>1, <2>1, <2>2, PageOfItem
    <2>4. PICK item : item = sk.items[at + d]
      OBVIOUS
    <2>5. sk \in Tables /\ sk.len \in 0 .. Size /\ sk.items \in [1 .. Size -> Items]
      BY DEF Sketched, Tables
    <2>6. HotItems \in Nat /\ Size \in Nat
      BY HotItemsTyped, Sizes
    <2>7. at + d \in 1 .. sk.len /\ at + d \in 1 .. Size
      BY <1>1, <2>3, <2>5, <2>6
    <2>8. item.key \in Keys /\ item.count \in Nat
      BY <2>4, <2>5, <2>7, ItemCounts DEF Sketched
    <2>9. PICK pid, addr : pid = item.key.pid /\ addr = item.key.addr
      OBVIOUS
    <2>10. pid \in Nat /\ addr \in Nat /\ <<pid, addr * PagesPer + j>> \in Pages
      BY <2>3, <2>8, <2>9, HotPagesAssumption
    <2>11. PICK y : y = addr * PagesPer + j
      OBVIOUS
    <2>12. y \in Nat
      BY <1>0, <2>3, <2>10, <2>11
    <2>13. <<pid, y>> \in Pages \cap KeyPairs
      BY <2>10, <2>11, <2>12 DEF KeyPairs
    <2>14. Entry(i) = [page |-> <<pid, y>>, count |-> item.count]
      BY <2>1, <2>4, <2>9, <2>11
    <2> QED
      BY <2>8, <2>13, <2>14 DEF HotPage
  <1> HIDE DEF Entry
  <1>5. all \in Seq(HotPage) /\ Len(all) = n * PagesPer /\ DOMAIN all = 1 .. n * PagesPer
    <2>1. PICK k : k = n * PagesPer
      OBVIOUS
    <2>2. all = [i \in 1 .. k |-> Entry(i)] /\ k \in Nat /\ \A i \in 1 .. k : Entry(i) \in HotPage
      BY <1>3, <1>4, <2>1
    <2>3. all \in [1 .. k -> HotPage]
      BY <2>2
    <2> HIDE DEF all
    <2>4. all \in Seq(HotPage) /\ Len(all) = k /\ DOMAIN all = 1 .. k
      BY <2>2, <2>3
    <2> QED
      BY <2>1, <2>4
  <1> HIDE DEF all
  <1>6. res \in Seq(HotPage) /\ Picks(res, all, Len(all), free)
    BY <1>2, <1>5, ChosenPicks
  <1>7. Len(res) <= MovePagesMax
    <2>1. Len(res) <= Len(all) /\ Len(res) \in Nat
      BY <1>6 DEF Picks
    <2> QED
      BY <1>3, <1>5, <2>1, HotPagesAssumption
  <1>8. ASSUME NEW i \in DOMAIN res PROVE res[i].page \notin Covered(rmap)
    <2>1. PICK l \in 1 .. Len(all) : l \in free /\ res[i] = all[l]
      BY <1>6 DEF Picks
    <2>2. PICK h : h = all[l]
      OBVIOUS
    <2>3. h \in HotPage
      BY <1>5, <2>1, <2>2
    <2>4. h.page \in KeyPairs
      BY <2>3 DEF HotPage
    <2>5. PICK p, x : p = h.page[1] /\ x = h.page[2]
      OBVIOUS
    <2>6. p \in Nat /\ x \in Nat /\ h.page = <<p, x>>
      BY <2>4, <2>5 DEF KeyPairs
    <2>7. ~search_address(rmap, p, x)
      BY <2>1, <2>2, <2>5, Zenon DEF free
    <2>8. <<p, x>> \notin Covered(rmap)
      BY <2>6, <2>7, SearchAddress
    <2> QED
      BY <2>1, <2>2, <2>6, <2>8
  <1> QED
    BY <1>6, <1>7, <1>8 DEF res

-----------------------------------------------------------------------------
(* Type correctness.                                                       *)

Places == {"interval", "unit", "read", "drain", "count", "group", "locate", "move", "done", "crashed"}

\* The table while samples are read, and what becomes of the period.
Sampling ==
  /\ Sketched(sk) /\ (~full => sk.len < Size)
  /\ samples \in Nat /\ unit_begin \in Nat
  /\ period \in Nat /\ period >= PeriodMin
  /\ period_next = 0 \/ (period_next \in Nat /\ period_next >= PeriodMin)

\* The pages in flight, with their targets.
Moving ==
  /\ at \in Nat \ {0}
  /\ hot \in Seq(HotPage) /\ Len(hot) <= MovePagesMax
  /\ pc \notin {"locate", "move", "crashed"} => hot = <<>>
  /\ pc = "move" => target \in [DOMAIN hot -> Nodes]
  /\ where \in [Pages -> Nodes \cup {-2}]

\* What the filter covers, and that no page in flight is covered.
Filtered ==
  /\ IsMap(rmap) /\ Apart(rmap)
  /\ ~positive => FilterIs(rmap, failed \cup AddressesIn(Configured))
  /\ \A i \in DOMAIN hot : hot[i].page \notin Covered(rmap)

HInv == pc \in Places /\ Sampling /\ Moving /\ Filtered

\* The invariant implies what the runs check.
LEMMA HInvTypes ==
  ASSUME HInv
  PROVE  TypeOK /\ FilterExact
  <1>1. SketchTypeOK(sk)
    <2>1. sk \in Tables /\ sk.len \in 0 .. Size /\ sk.total \in Nat /\ sk.items \in [1 .. Size -> Items]
      BY DEF HInv, Sampling, Sketched, Tables
    <2>2. \A b \in DOMAIN sk.buckets : sk.buckets[b] \in 0 .. Size
      BY <2>1 DEF Tables
    <2>3. \A n \in 1 .. sk.len : n \in 1 .. Size
      BY <2>1, Sizes
    <2>4. \A n \in 1 .. sk.len : sk.items[n].key \in Keys /\ sk.items[n].count \in Counts
      BY <2>1, <2>3 DEF HInv, Sampling, Sketched, Items
    <2> QED
      BY <2>1, <2>2, <2>4 DEF SketchTypeOK
  <1>2. TypeOK
    BY <1>1 DEF HInv, Sampling, Moving, TypeOK, Places
  <1>3. ConfiguredPages = AddressesIn(Configured)
    BY Zenon DEF ConfiguredPages, AddressesIn
  <1>4. FilterExact
    BY <1>3, Zenon DEF HInv, Filtered, FilterIs, FilterExact
  <1> QED
    BY <1>2, <1>4

\* It holds of an empty table, a filter of the configured ranges, and no page
\* in flight.
LEMMA HInvInit ==
  ASSUME Init
  PROVE  HInv
  <1>1. pc \in Places
    BY DEF Init, Places
  <1>2. Sampling
    <2>1. PICK h \in BOOLEAN : sk = cmsk_init(h)
      BY DEF Init
    <2>2. Sketched(sk) /\ sk.len = 0
      BY <2>1, TableInit
    <2> QED
      BY <2>2, Sizes, HotPagesAssumption DEF Init, Sampling
  <1>3. Moving
    BY HotPagesAssumption DEF Init, Moving
  <1>4. Filtered
    <2>1. {} \cup AddressesIn(Configured) = AddressesIn(Configured)
      OBVIOUS
    <2> QED
      BY <2>1, ConfiguredRanges DEF Init, Filtered, FilterIs
  <1> QED
    BY <1>1, <1>2, <1>3, <1>4 DEF HInv

-----------------------------------------------------------------------------
(* What the actions leave alone.                                           *)

\* Nothing about samples is written while pages are moved.
LEMMA SamplingKept ==
  ASSUME HInv, UNCHANGED <<sk, full, samples, unit_begin, period, period_next>>
  PROVE  Sampling'
  BY DEF HInv, Sampling

\* No pages are in flight outside of migrate_pages().
LEMMA MovingKept ==
  ASSUME HInv, UNCHANGED <<at, hot, target, where>>, pc \notin {"locate", "move", "crashed"},
         pc' \notin {"locate", "move", "crashed"}
  PROVE  Moving'
  BY DEF HInv, Moving

\* The filter is as it was, and so are the pages in flight.
LEMMA FilteredKept ==
  ASSUME HInv, UNCHANGED <<rmap, failed, positive, hot>>
  PROVE  Filtered'
  BY DEF HInv, Filtered

\* Nothing is in flight between two groups.
LEMMA NothingInFlight ==
  ASSUME Moving, at' \in Nat \ {0}, hot' = <<>>, pc' \notin {"locate", "move", "crashed"},
         where' \in [Pages -> Nodes \cup {-2}]
  PROVE  Moving'
  <1>1. hot' \in Seq(HotPage) /\ Len(hot') <= MovePagesMax
    BY HotPagesAssumption
  <1> QED
    BY <1>1 DEF Moving

-----------------------------------------------------------------------------
(* Sampling.                                                               *)

\* begin_interval: the table is emptied.
LEMMA HInvBeginInterval ==
  ASSUME HInv, BeginInterval
  PROVE  HInv'
  <1> USE DEF BeginInterval, moveVars
  <1>1. Sampling'
    <2>1. Sketched(sk') /\ sk'.len = 0 /\ full' = FALSE
      BY TableAged DEF HInv, Sampling
    <2>2. sk'.len < Size /\ period_next' = 0 /\ samples' = 0 /\ unit_begin' = unit_begin
      BY <2>1, Sizes
    <2>3. period' \in Nat /\ period' >= PeriodMin
      BY HotPagesAssumption DEF HInv, Sampling
    <2> QED
      BY <2>1, <2>2, <2>3 DEF HInv, Sampling
  <1>2. Moving' /\ Filtered' /\ pc' \in Places
    BY MovingKept, FilteredKept DEF Places
  <1> QED
    BY <1>1, <1>2 DEF HInv

\* A record that is read: a full table is noticed at once.
LEMMA HInvReadRecord ==
  ASSUME HInv, NEW c, ReadRecord(c), UNCHANGED <<unit_begin, period, period_next>>
  PROVE  Sampling'
  <1>1. PICK r : r = Head(ring[c])
    OBVIOUS
  <1>2. samples' \in Nat
    BY <1>1 DEF ReadRecord, HInv, Sampling
  <1>3. CASE r \in Keys
    <2>1. sk' = cmsk_update(sk, r) /\ full' = Full(sk, sk') /\ ~full
      BY <1>1, <1>3 DEF ReadRecord
    <2>2. Sketched(sk) /\ sk.len < Size
      BY <2>1 DEF HInv, Sampling
    <2>3. Sketched(sk') /\ sk'.len \in {sk.len, sk.len + 1}
      BY <1>3, <2>1, <2>2, TableUpdated
    <2>4. sk.len \in Nat /\ Size \in Nat
      BY <2>2, Sizes DEF Sketched, Tables
    <2>5. ~full' => sk'.len < Size
      <3>1. PICK l, m : l = sk.len /\ m = sk'.len
        OBVIOUS
      <3>2. full' <=> m > l /\ m >= Size
        BY <2>1, <3>1, Zenon DEF Full
      <3> QED
        BY <2>2, <2>3, <2>4, <3>1, <3>2
    <2> QED
      BY <1>2, <2>3, <2>5 DEF HInv, Sampling
  <1>4. CASE r \notin Keys
    <2>1. UNCHANGED <<sk, full>>
      BY <1>1, <1>4 DEF ReadRecord
    <2> QED
      BY <1>2, <2>1 DEF HInv, Sampling
  <1> QED
    BY <1>3, <1>4

\* adjust_sample_period_prepare() never leaves less than the least period.
LEMMA PeriodNextTyped ==
  ASSUME Sampling
  PROVE  PeriodNext = 0 \/ (PeriodNext \in Nat /\ PeriodNext >= PeriodMin)
  <1>1. PICK n, y, scaled : n = samples - unit_begin /\ y = n * period /\ scaled = y \div Expected
    OBVIOUS
  <1>2. n \in Int /\ period \in Nat
    BY <1>1 DEF Sampling
  <1>3. y \in Int
    BY <1>1, <1>2
  <1>4. scaled \in Int
    BY <1>1, <1>3, HotPagesAssumption
  <1>5. PeriodNext \in {0, PeriodMin} \/ (PeriodNext = scaled /\ ~(scaled < PeriodMin))
    BY <1>1, Zenon DEF PeriodNext
  <1> QED
    BY <1>4, <1>5, HotPagesAssumption

\* Reading the buffers.
LEMMA HInvRead ==
  ASSUME HInv, \/ \E c \in Cpus : Record(c) \/ ReadSelected(c)
               \/ UnitOver \/ BeginUnit \/ DrainRecord \/ DrainNext
  PROVE  HInv'
  <1> USE DEF moveVars, pastVars
  <1>1. CASE \E c \in Cpus : Record(c)
    <2>1. UNCHANGED <<pc, sk, full, samples, unit_begin, period, period_next, at, hot, target, where,
                      rmap, failed, positive>>
      BY <1>1 DEF Record
    <2> QED
      BY <2>1, SamplingKept, FilteredKept DEF HInv, Moving
  <1>2. CASE \E c \in Cpus : ReadSelected(c)
    <2>1. PICK c \in Cpus : ReadSelected(c)
      BY <1>2
    <2>2. Sampling'
      BY <2>1, HInvReadRecord DEF ReadSelected
    <2>3. Moving' /\ Filtered'
      BY <2>1, MovingKept, FilteredKept DEF ReadSelected
    <2> QED
      BY <2>1, <2>2, <2>3 DEF HInv, Places, ReadSelected
  <1>3. CASE UnitOver
    <2>1. Sampling' /\ Moving' /\ Filtered'
      BY <1>3, SamplingKept, MovingKept, FilteredKept DEF UnitOver
    <2> QED
      BY <1>3, <2>1 DEF HInv, Places, UnitOver
  <1>4. CASE BeginUnit
    <2>1. unit_begin' \in Nat /\ pc' \in {"count", "read"} /\ pc = "unit"
      BY <1>4 DEF BeginUnit, HInv, Sampling
    <2>2. Sampling'
      BY <1>4, <2>1 DEF BeginUnit, HInv, Sampling
    <2>3. Moving' /\ Filtered'
      BY <1>4, <2>1, MovingKept, FilteredKept DEF BeginUnit
    <2> QED
      BY <2>1, <2>2, <2>3 DEF HInv, Places
  <1>5. CASE DrainRecord
    <2>1. Sampling'
      BY <1>5, HInvReadRecord DEF DrainRecord
    <2>2. Moving' /\ Filtered'
      BY <1>5, MovingKept, FilteredKept DEF DrainRecord
    <2> QED
      BY <1>5, <2>1, <2>2 DEF HInv, Places, DrainRecord
  <1>6. CASE DrainNext
    <2>1. pc' \in {"drain", "count", "unit"} /\ pc = "drain"
      BY <1>6 DEF DrainNext
    <2>2. period_next' \in {period_next, PeriodNext}
      BY <1>6 DEF DrainNext
    <2>3. Sampling'
      BY <1>6, <2>2, PeriodNextTyped DEF DrainNext, HInv, Sampling
    <2>4. Moving' /\ Filtered'
      BY <1>6, <2>1, MovingKept, FilteredKept DEF DrainNext
    <2> QED
      BY <2>1, <2>3, <2>4 DEF HInv, Places
  <1> QED
    BY <1>1, <1>2, <1>3, <1>4, <1>5, <1>6

-----------------------------------------------------------------------------
(* Migration.                                                              *)

\* The table is sorted, and the filter may be reset.
LEMMA HInvCount ==
  ASSUME HInv, Count
  PROVE  HInv'
  <1> USE DEF pmuVars
  <1>1. Sampling'
    <2>1. Sketched(sk) /\ sk' \in cmsk_sort(sk)
      BY DEF HInv, Sampling, Count
    <2>2. Sketched(sk') /\ sk'.len <= sk.len
      BY <2>1, TableSorted
    <2>3. sk.len \in Nat /\ sk'.len \in Nat /\ Size \in Nat
      BY <2>1, <2>2, Sizes DEF Sketched, Tables
    <2>4. UNCHANGED <<full, samples, unit_begin, period, period_next>>
      BY DEF Count
    <2> QED
      BY <2>2, <2>3, <2>4 DEF HInv, Sampling
  <1>2. hot = <<>> /\ hot' = <<>> /\ pc' = "group" /\ at' = 1 /\ where' = where
    BY DEF Count, HInv, Moving
  <1>3. Moving'
    BY <1>2, NothingInFlight DEF HInv, Moving
  <1>4. Filtered'
    <2>1. CASE UNCHANGED <<rmap, failed, positive>>
      BY <1>2, <2>1 DEF HInv, Filtered
    <2>2. CASE rmap' = ConfiguredFilter /\ failed' = {}
      <3>1. {} \cup AddressesIn(Configured) = AddressesIn(Configured)
        OBVIOUS
      <3>2. FilterIs(rmap', failed' \cup AddressesIn(Configured))
        BY <2>2, <3>1, ConfiguredRanges
      <3> QED
        BY <1>2, <3>2 DEF Filtered, FilterIs
    <2> QED
      BY <2>1, <2>2 DEF Count
  <1> QED
    BY <1>1, <1>2, <1>3, <1>4 DEF HInv, Places

\* The pages of the next process.
LEMMA HInvGroup ==
  ASSUME HInv, Group
  PROVE  HInv'
  <1> USE DEF pmuVars, pastVars
  <1>1. Sampling'
    BY SamplingKept DEF Group
  <1>2. hot = <<>> /\ pc = "group" /\ where' = where /\ where \in [Pages -> Nodes \cup {-2}]
    BY DEF Group, HInv, Moving
  <1>3. UNCHANGED <<rmap, failed, positive, target>>
    BY DEF Group
  <1>4. CASE at > HotItems
    <2>1. pc' = "interval" /\ UNCHANGED <<at, hot>>
      BY <1>4 DEF Group
    <2>2. Moving' /\ Filtered'
      BY <1>2, <1>3, <2>1, MovingKept, FilteredKept
    <2> QED
      BY <1>1, <2>1, <2>2 DEF HInv, Places
  <1>5. CASE ~(at > HotItems)
    <2>1. Sketched(sk) /\ at \in Nat \ {0} /\ IsMap(rmap) /\ Apart(rmap)
      BY DEF HInv, Sampling, Moving, Filtered, FilterIs
    <2>2. HotItems \in Nat /\ at <= HotItems
      BY <1>5, <2>1, HotItemsTyped
    <2>3. PICK last : last = RunEnd
      OBVIOUS
    <2>4. last \in at .. HotItems
      BY <2>1, <2>2, <2>3, RunEndTyped
    <2>5. hot' = HotPagesOf(last) /\ at' = last + 1 /\ pc' = IF hot' = <<>> THEN "group" ELSE "locate"
      BY <1>5, <2>3 DEF Group
    <2>6. /\ hot' \in Seq(HotPage) /\ Len(hot') <= MovePagesMax
          /\ \A i \in DOMAIN hot' : hot'[i].page \notin Covered(rmap)
      BY <2>1, <2>4, <2>5, HotPagesOfTyped
    <2>7. at' \in Nat \ {0}
      BY <2>1, <2>2, <2>4, <2>5
    <2>8. Moving'
      BY <1>2, <2>5, <2>6, <2>7 DEF Moving
    <2>9. Filtered'
      BY <1>3, <2>6 DEF HInv, Filtered
    <2> QED
      BY <1>1, <2>5, <2>8, <2>9 DEF HInv, Places
  <1> QED
    BY <1>4, <1>5

\* A page that is on PMEM has a target, or the program ends.
LEMMA TargetTyped ==
  ASSUME NEW h, OnPmem(h), TargetOf(h) # -1
  PROVE  TargetOf(h) \in Nodes
  <1>1. PICK n : n = where[h.page]
    OBVIOUS
  <1>2. n \in Nodes /\ NodeType[n] = "PMEM"
    BY <1>1 DEF OnPmem
  <1>3. Promote[n] \in Nodes \cup {-1}
    BY <1>2, HotPagesAssumption
  <1> QED
    BY <1>1, <1>3 DEF TargetOf

\* The pages that are hot enough, and where they go.
LEMMA HInvLocate ==
  ASSUME HInv, Locate
  PROVE  HInv'
  <1> USE DEF pmuVars, pastVars
  <1> DEFINE onPmem == {i \in DOMAIN hot : OnPmem(hot[i])}
             pmem == Chosen(hot, onPmem)
             enough == {i \in DOMAIN pmem : HotEnough(pmem[i])}
             kept == Chosen(pmem, enough)
  <1>1. Sampling' /\ pc = "locate" /\ UNCHANGED <<at, rmap, failed, positive, where>>
    BY SamplingKept DEF Locate
  <1>2. CASE NextGroup
    <2>1. hot' = <<>> /\ pc' = "group"
      BY <1>2 DEF NextGroup
    <2>2. Moving'
      BY <1>1, <2>1, NothingInFlight DEF HInv, Moving
    <2>3. Filtered'
      BY <1>1, <2>1 DEF HInv, Filtered
    <2> QED
      BY <1>1, <2>1, <2>2, <2>3 DEF HInv, Places
  <1>3. CASE pc' = "crashed" /\ UNCHANGED <<hot, status, target>>
    <2>1. Moving' /\ Filtered'
      BY <1>1, <1>3, FilteredKept DEF HInv, Moving
    <2> QED
      BY <1>1, <1>3, <2>1 DEF HInv, Places
  <1>4. CASE /\ \A i \in DOMAIN pmem : TargetOf(pmem[i]) # -1
             /\ hot' = kept /\ target' = [i \in DOMAIN kept |-> TargetOf(kept[i])]
             /\ pc' = "move"
    <2>1. hot \in Seq(HotPage) /\ Len(hot) <= MovePagesMax
      BY DEF HInv, Moving
    <2>2. pmem \in Seq(HotPage) /\ Picks(pmem, hot, Len(hot), onPmem)
      <3> HIDE DEF onPmem
      <3> QED
        BY <2>1, ChosenPicks
    <2>3. kept \in Seq(HotPage) /\ Picks(kept, pmem, Len(pmem), enough)
      <3> HIDE DEF enough, pmem
      <3> QED
        BY <2>2, ChosenPicks
    <2>4. Len(kept) <= MovePagesMax
      <3> HIDE DEF onPmem, enough, pmem, kept
      <3>1. Len(kept) \in Nat /\ Len(pmem) \in Nat /\ Len(hot) \in Nat
        BY <2>1, <2>2, <2>3
      <3>2. Len(kept) <= Len(pmem) /\ Len(pmem) <= Len(hot)
        BY <2>2, <2>3 DEF Picks
      <3> QED
        BY <2>1, <3>1, <3>2, HotPagesAssumption
    <2>5. ASSUME NEW i \in DOMAIN kept
          PROVE  /\ TargetOf(kept[i]) \in Nodes
                 /\ \E l \in DOMAIN hot : kept[i] = hot[l]
      <3>1. PICK j \in 1 .. Len(pmem) : j \in enough /\ kept[i] = pmem[j]
        <4> HIDE DEF enough, pmem, kept
        <4> QED
          BY <2>3, <2>5 DEF Picks
      <3>2. j \in DOMAIN pmem
        BY <3>1
      <3>3. PICK l \in 1 .. Len(hot) : l \in onPmem /\ pmem[j] = hot[l]
        <4> HIDE DEF onPmem, enough, pmem, kept
        <4> QED
          BY <2>2, <3>2 DEF Picks
      <3>4. l \in DOMAIN hot /\ OnPmem(hot[l]) /\ TargetOf(hot[l]) # -1
        <4>1. TargetOf(pmem[j]) # -1
          BY <1>4, <3>2
        <4> HIDE DEF pmem
        <4> QED
          BY <3>3, <4>1
      <3>5. TargetOf(hot[l]) \in Nodes
        BY <3>4, TargetTyped
      <3> HIDE DEF pmem, kept
      <3> QED
        BY <3>1, <3>3, <3>4, <3>5
    <2> HIDE DEF pmem, kept
    <2>6. Moving'
      BY <1>1, <1>4, <2>3, <2>4, <2>5 DEF HInv, Moving
    <2>7. Filtered'
      BY <1>1, <1>4, <2>5 DEF HInv, Filtered
    <2> QED
      BY <1>1, <1>4, <2>6, <2>7 DEF HInv, Places
  <1> QED
    BY <1>2, <1>3, <1>4, Zenon DEF Locate

\* The pages that failed go into the filter.
LEMMA HInvMove ==
  ASSUME HInv, Move
  PROVE  HInv'
  <1> USE DEF pmuVars
  <1>1. Sampling' /\ pc = "move" /\ hot' = <<>> /\ pc' = "group" /\ at' = at
    BY SamplingKept DEF Move, NextGroup
  <1>2. hot \in Seq(HotPage) /\ target \in [DOMAIN hot -> Nodes] /\ where \in [Pages -> Nodes \cup {-2}]
    BY <1>1 DEF HInv, Moving
  <1> DEFINE page(i) == hot[i].page
             pages == [i \in DOMAIN hot |-> page(i)]
  <1>3. PICK moving, inserted, left :
          /\ moving \in SUBSET {hot[i].page : i \in DOMAIN hot}
          /\ where' = [p \in Pages |-> IF p \in moving
                         THEN target[CHOOSE i \in DOMAIN hot : hot[i].page = p] ELSE where[p]]
          /\ rmap' = Inserted(rmap, Chosen(pages, inserted))
          /\ failed' = failed \cup Range(Chosen(pages, left))
          /\ ~positive' => ~positive /\ inserted = left
    <2>1. PICK moving, more, answers :
            /\ moving \in SUBSET {hot[i].page : i \in DOMAIN hot}
            /\ where' = [p \in Pages |-> IF p \in moving
                           THEN target[CHOOSE i \in DOMAIN hot : hot[i].page = p] ELSE where[p]]
            /\ rmap' = Inserted(rmap, Unmoved(IF more THEN status ELSE answers))
            /\ failed' = failed \cup Range(Unmoved(answers))
            /\ positive' = (positive \/ more)
      BY Zenon DEF Move
    <2> DEFINE places(result) == {i \in DOMAIN hot : result[i] # target[i]}
    <2>2. \A result : Unmoved(result) = Chosen(pages, places(result))
      BY Zenon DEF Unmoved
    <2>3. ~positive' => ~positive /\ (IF more THEN status ELSE answers) = answers
      BY <2>1
    <2> HIDE DEF pages, places
    <2> QED
      BY <2>1, <2>2, <2>3, Zenon
  <1>4. Moving'
    <2>1. ASSUME NEW p \in Pages
          PROVE  (IF p \in moving THEN target[CHOOSE i \in DOMAIN hot : hot[i].page = p] ELSE where[p])
                   \in Nodes \cup {-2}
      <3>1. CASE p \in moving
        <4>1. \E i \in DOMAIN hot : hot[i].page = p
          BY <1>3, <3>1
        <4>2. PICK l : l = CHOOSE i \in DOMAIN hot : hot[i].page = p
          OBVIOUS
        <4>3. l \in DOMAIN hot
          BY <4>1, <4>2, Zenon
        <4> QED
          BY <1>2, <3>1, <4>2, <4>3
      <3>2. CASE p \notin moving
        BY <1>2, <3>2
      <3> QED
        BY <3>1, <3>2
    <2>2. where' \in [Pages -> Nodes \cup {-2}]
      BY <1>3, <2>1
    <2> QED
      BY <1>1, <2>2, NothingInFlight DEF HInv, Moving
  <1>5. Filtered'
    <2>1. PICK lost : lost = Chosen(pages, inserted)
      OBVIOUS
    <2>2. pages \in Seq(KeyPairs)
      <3>1. ASSUME NEW i \in DOMAIN hot PROVE page(i) \in KeyPairs
        <4>1. hot[i] \in HotPage
          BY <1>2
        <4> QED
          BY <4>1 DEF HotPage
      <3> HIDE DEF page
      <3>2. PICK k : k = Len(hot)
        OBVIOUS
      <3>3. k \in Nat /\ DOMAIN hot = 1 .. k
        BY <1>2, <3>2
      <3>4. pages \in [1 .. k -> KeyPairs]
        BY <3>1, <3>3
      <3> QED
        BY <3>3, <3>4
    <2> HIDE DEF pages
    <2>3. lost \in Seq(KeyPairs)
      BY <2>1, <2>2, ChosenPicks
    <2>4. PICK c, d, m : c = failed \cup AddressesIn(Configured) /\ d = {lost[i] : i \in DOMAIN lost} /\ m = rmap
      OBVIOUS
    <2>5. IsMap(rmap') /\ Apart(rmap')
      <3>1. FilterIs(m, Covered(m))
        BY <2>4 DEF HInv, Filtered, FilterIs
      <3>2. FilterIs(Inserted(m, lost), Covered(m) \cup d)
        BY <2>3, <2>4, <3>1, InsertedPages
      <3> QED
        BY <1>3, <2>1, <2>4, <3>2 DEF FilterIs
    <2>6. ASSUME ~positive' PROVE FilterIs(rmap', failed' \cup AddressesIn(Configured))
      <3>1. FilterIs(m, c)
        BY <1>3, <2>4, <2>6 DEF HInv, Filtered
      <3>2. FilterIs(Inserted(m, lost), c \cup d)
        BY <2>3, <2>4, <3>1, InsertedPages
      <3>3. c \cup d = failed' \cup AddressesIn(Configured)
        BY <1>3, <2>1, <2>4, <2>6 DEF Range
      <3> QED
        BY <1>3, <2>1, <2>4, <3>2, <3>3
    <2> QED
      BY <1>1, <2>5, <2>6 DEF Filtered
  <1> QED
    BY <1>1, <1>4, <1>5 DEF HInv, Places

\* The call fails, or something else runs.
LEMMA HInvRest ==
  ASSUME HInv, MoveFails \/ Drift \/ Interrupt \/ Finish
  PROVE  HInv'
  <1> USE DEF pmuVars, moveVars, pastVars
  <1>1. CASE MoveFails
    <2>1. Sampling' /\ hot' = <<>> /\ pc' = "group" /\ UNCHANGED <<at, rmap, failed, positive, where>>
      BY <1>1, SamplingKept DEF MoveFails, NextGroup
    <2>2. Moving'
      BY <2>1, NothingInFlight DEF HInv, Moving
    <2>3. Filtered'
      BY <2>1 DEF HInv, Filtered
    <2> QED
      BY <2>1, <2>2, <2>3 DEF HInv, Places
  <1>2. CASE Drift
    <2>1. PICK i \in DOMAIN hot, n \in Nodes : where' = [where EXCEPT ![hot[i].page] = n]
      BY <1>2 DEF Drift
    <2>2. where \in [Pages -> Nodes \cup {-2}]
      BY DEF HInv, Moving
    <2>3. where' \in [Pages -> Nodes \cup {-2}]
      BY <2>1, <2>2
    <2>4. Sampling' /\ Filtered'
      BY <1>2, SamplingKept, FilteredKept DEF Drift
    <2>5. UNCHANGED <<pc, at, hot, target>>
      BY <1>2 DEF Drift
    <2> QED
      BY <2>3, <2>4, <2>5 DEF HInv, Moving
  <1>3. CASE Interrupt
    BY <1>3, SamplingKept, MovingKept, FilteredKept DEF Interrupt, HInv
  <1>4. CASE Finish
    BY <1>4, SamplingKept, MovingKept, FilteredKept DEF Finish, HInv, Places
  <1> QED
    BY <1>1, <1>2, <1>3, <1>4

\* Every step keeps the invariant.
LEMMA HInvNext ==
  ASSUME HInv, [Next]_vars
  PROVE  HInv'
  <1>1. CASE UNCHANGED vars
    BY <1>1, SamplingKept, FilteredKept DEF vars, pmuVars, moveVars, pastVars, HInv, Moving
  <1>2. CASE Next
    BY <1>2, HInvBeginInterval, HInvRead, HInvCount, HInvGroup, HInvLocate, HInvMove, HInvRest, Zenon DEF Next
  <1> QED
    BY <1>1, <1>2

\* The invariant of hmd's main loop: the table has room while samples are read,
\* nothing is in flight outside of migrate_pages(), and the filter covers what
\* failed, unless an answer was positive.
THEOREM HInvInvariant == Spec => []HInv
  <1>1. Init => HInv
    BY HInvInit
  <1>2. HInv /\ [Next]_vars => HInv'
    BY HInvNext
  <1> QED
    BY <1>1, <1>2, PTL DEF Spec

\* The hot page table is never written past its last item, and the pages of one
\* process never outgrow the vectors of move_pages_max, for any sequence of
\* samples (cmsk.cc:178, migration.cc:153).
THEOREM TypeCorrect == Spec => []TypeOK
  <1>1. HInv => TypeOK
    BY HInvTypes
  <1> QED
    BY <1>1, HInvInvariant, PTL

\* Whatever ranges insert_range() joins, they never meet, no page in flight lies
\* in one of them, and as long as no call answered with a positive number the
\* filter covers just the configured ranges and the pages that could not be
\* moved since it was reset (AddressRangeFilter.cc:133, migration.cc:139).
THEOREM FailedFiltered == Spec => []FilterExact
  <1>1. HInv => FilterExact
    BY HInvTypes
  <1> QED
    BY <1>1, HInvInvariant, PTL

-----------------------------------------------------------------------------
(* The chains of the hash table.                                           *)

\* The chains of a table: a link leads to a later item of the same bucket; every
\* item is first in its bucket or behind an earlier one; and no page has two items.
Linked(t) ==
  /\ \A n \in 1 .. t.len :
       /\ \/ t.items[n].next = 0
          \/ /\ t.items[n].next \in n + 1 .. t.len
             /\ Bucket(t, t.items[t.items[n].next].key) = Bucket(t, t.items[n].key)
       /\ \/ t.buckets[Bucket(t, t.items[n].key)] = n
          \/ \E m \in 1 .. n - 1 : t.items[m].next = n
  /\ \A b \in 0 .. Size - 1 :
       \/ t.buckets[b] = 0
       \/ t.buckets[b] \in 1 .. t.len /\ Bucket(t, t.items[t.buckets[b]].key) = b
  /\ \A m, n \in 1 .. t.len : t.items[m].key = t.items[n].key => m = n

\* Where a walk along a chain goes next.
After(t, x) == IF x = 0 THEN 0 ELSE t.items[x].next

\* The function by which Chain() walks.
Walks(f, t, b) ==
  f = [i \in 0 .. Size |-> IF i = 0 THEN t.buckets[b] ELSE After(t, f[i - 1])]

WalksTo(f, t, b, n) == f[0] = t.buckets[b] /\ \A i \in 1 .. n : f[i] = After(t, f[i - 1])

\* Chain() is defined for every table.
LEMMA WalkExists ==
  ASSUME NEW t, NEW b
  PROVE  \E f : Walks(f, t, b)
  <1> DEFINE S == {n \in Nat : \E f : WalksTo(f, t, b, n)}
  <1>1. 0 \in S
    <2>1. WalksTo([i \in 0 .. 0 |-> t.buckets[b]], t, b, 0)
      BY DEF WalksTo
    <2> QED
      BY <2>1
  <1>2. ASSUME NEW n \in Nat, n \in S PROVE n + 1 \in S
    <2>1. PICK f : WalksTo(f, t, b, n)
      BY <1>2
    <2>a. PICK z : z = After(t, f[n])
      OBVIOUS
    <2> DEFINE g == [i \in 0 .. n + 1 |-> IF i <= n THEN f[i] ELSE z]
    <2>2. /\ \A i \in 0 .. n : g[i] = f[i]
          /\ g[n + 1] = z
      OBVIOUS
    <2> HIDE DEF g
    <2>3. ASSUME NEW i \in 1 .. n + 1
          PROVE  g[i] = After(t, g[i - 1])
      <3>1. CASE i <= n
        <4>1. i \in 1 .. n /\ i \in 0 .. n /\ i - 1 \in 0 .. n
          BY <3>1
        <4>2. /\ g[i] = f[i] /\ g[i - 1] = f[i - 1]
              /\ f[i] = After(t, f[i - 1])
          BY <2>1, <2>2, <4>1 DEF WalksTo
        <4> QED
          BY <4>2
      <3>2. CASE i = n + 1
        <4>1. i - 1 = n /\ n \in 0 .. n
          BY <3>2
        <4>2. g[n] = f[n]
          BY <2>2, <4>1
        <4>3. g[i - 1] = g[n]
          BY <4>1
        <4> QED
          BY <2>a, <2>2, <3>2, <4>2, <4>3
      <3> QED
        BY <3>1, <3>2
    <2>4. g[0] = t.buckets[b]
      BY <2>1, <2>2 DEF WalksTo
    <2>5. WalksTo(g, t, b, n + 1)
      BY <2>3, <2>4 DEF WalksTo
    <2> QED
      BY <2>5
  <1> HIDE DEF S
  <1>3. Size \in S
    BY <1>1, <1>2, SetInduction, Sizes
  <1>4. PICK f : WalksTo(f, t, b, Size)
    BY <1>3 DEF S
  <1> DEFINE h == [i \in 0 .. Size |-> f[i]]
  <1>5. \A i \in 0 .. Size : h[i] = f[i]
    OBVIOUS
  <1>6. h = [i \in 0 .. Size |-> h[i]]
    OBVIOUS
  <1> HIDE DEF h
  <1>7. ASSUME NEW i \in 0 .. Size
        PROVE  h[i] = IF i = 0 THEN t.buckets[b] ELSE After(t, h[i - 1])
    <2>1. CASE i = 0
      BY <1>4, <1>5, <2>1 DEF WalksTo
    <2>2. CASE i # 0
      <3>1. i \in 1 .. Size /\ i - 1 \in 0 .. Size
        BY <2>2, Sizes
      <3>2. f[i] = After(t, f[i - 1])
        BY <1>4, <3>1 DEF WalksTo
      <3>3. h[i] = f[i] /\ h[i - 1] = f[i - 1]
        BY <1>5, <3>1
      <3> QED
        BY <2>2, <3>2, <3>3
    <2> QED
      BY <2>1, <2>2
  <1>8. Walks(h, t, b)
    BY <1>6, <1>7, Zenon DEF Walks
  <1> QED
    BY <1>8

\* The walk of Chain().
LEMMA ChainWalks ==
  ASSUME NEW t, NEW b
  PROVE  \E f : WalksTo(f, t, b, Size) /\ Chain(t, b) = {f[i] : i \in 0 .. Size} \ {0}
  <1> DEFINE f == CHOOSE f : Walks(f, t, b)
  <1>1. Walks(f, t, b)
    BY WalkExists, Zenon
  <1>2. Chain(t, b) = {f[i] : i \in 0 .. Size} \ {0}
    BY Zenon DEF Chain, Walks, After
  <1> HIDE DEF f
  <1>3. \A i \in 0 .. Size : f[i] = IF i = 0 THEN t.buckets[b] ELSE After(t, f[i - 1])
    BY <1>1, Zenon DEF Walks
  <1>4. 0 \in 0 .. Size /\ \A i \in 1 .. Size : i \in 0 .. Size /\ i # 0
    BY Sizes
  <1>5. WalksTo(f, t, b, Size)
    BY <1>3, <1>4, Zenon DEF WalksTo
  <1> QED
    BY <1>2, <1>5

-----------------------------------------------------------------------------
\* Buckets and columns are where the arrays have a place, whatever the hashes are.
LEMMA Hashed ==
  ASSUME NEW k \in Keys
  PROVE  /\ \A r \in Rows : Column(r, k) \in Columns
         /\ \A t : Bucket(t, k) \in 0 .. Size - 1
         /\ \A t, u : t.hash_mode = u.hash_mode => Bucket(t, k) = Bucket(u, k)
  <1>1. \A r \in Rows : HashOf[r][k] \in Nat
    BY SketchAssumption DEF Rows
  <1>2. ASSUME NEW x \in Nat PROVE x % Width \in 0 .. Width - 1 /\ x % Size \in 0 .. Size - 1
    BY Sizes
  <1>3. \A r \in Rows : Column(r, k) \in Columns
    BY <1>1, <1>2, Zenon DEF Column, Columns
  <1>4. Depth \in Rows
    BY Sizes DEF Rows
  <1>5. ASSUME NEW t PROVE Bucket(t, k) \in 0 .. Size - 1
    <2>1. PICK x : x = IF t.hash_mode THEN HashOf[Depth][k] ELSE Column(Depth, k)
      OBVIOUS
    <2>2. x \in Nat
      <3>1. HashOf[Depth][k] \in Nat
        BY <1>1, <1>4
      <3>2. Column(Depth, k) \in Columns
        BY <1>3, <1>4
      <3>3. Columns \subseteq Nat
        BY Sizes DEF Columns
      <3> QED
        BY <2>1, <3>1, <3>2, <3>3
    <2>3. Bucket(t, k) = x % Size
      BY <2>1 DEF Bucket
    <2> QED
      BY <1>2, <2>2, <2>3
  <1>6. \A t, u : t.hash_mode = u.hash_mode => Bucket(t, k) = Bucket(u, k)
    BY Zenon DEF Bucket
  <1> QED
    BY <1>3, <1>5, <1>6

\* The items of a bucket.
InBucket(t, b) == {n \in 1 .. t.len : Bucket(t, t.items[n].key) = b}

\* A chain holds just the items of its bucket.
LEMMA ChainIs ==
  ASSUME NEW t, Sketched(t), Linked(t), NEW b \in 0 .. Size - 1
  PROVE  Chain(t, b) = InBucket(t, b)
  <1>0. t.len \in 0 .. Size /\ t.len \in Nat /\ Size \in Nat
    BY Sizes DEF Sketched, Tables
  <1>1. PICK f : WalksTo(f, t, b, Size) /\ Chain(t, b) = {f[i] : i \in 0 .. Size} \ {0}
    BY ChainWalks
  <1>2. f[0] = t.buckets[b] /\ \A i \in 1 .. Size : f[i] = After(t, f[i - 1])
    BY <1>1 DEF WalksTo
  <1> DEFINE S == {i \in Nat : i <= Size => f[i] = 0 \/ f[i] \in InBucket(t, b)}
             T == {n \in Nat : \A x \in InBucket(t, b) : x <= n => \E i \in 0 .. Size : i < x /\ f[i] = x}
  <1>3. 0 \in S
    BY <1>2 DEF Linked, InBucket
  <1>4. ASSUME NEW i \in Nat, i \in S PROVE i + 1 \in S
    <2> SUFFICES ASSUME i + 1 <= Size PROVE f[i + 1] = 0 \/ f[i + 1] \in InBucket(t, b)
      OBVIOUS
    <2>1. i + 1 \in 1 .. Size /\ i <= Size /\ (i + 1) - 1 = i
      BY <1>0
    <2>2. PICK x : x = f[i]
      OBVIOUS
    <2>3. f[i + 1] = After(t, x) /\ (x = 0 \/ x \in InBucket(t, b))
      BY <1>2, <1>4, <2>1, <2>2
    <2>4. CASE x = 0
      BY <2>3, <2>4 DEF After
    <2>5. CASE x # 0
      <3>1. x \in 1 .. t.len /\ Bucket(t, t.items[x].key) = b
        BY <2>3, <2>5 DEF InBucket
      <3>2. PICK y : y = t.items[x].next
        OBVIOUS
      <3>3. y = 0 \/ (y \in x + 1 .. t.len /\ Bucket(t, t.items[y].key) = b)
        BY <3>1, <3>2 DEF Linked
      <3>4. f[i + 1] = y
        BY <2>3, <2>5, <3>2 DEF After
      <3>5. y \in x + 1 .. t.len => y \in 1 .. t.len
        BY <1>0, <3>1
      <3> QED
        BY <3>3, <3>4, <3>5 DEF InBucket
    <2> QED
      BY <2>4, <2>5
  <1>5. 0 \in T
    BY <1>0 DEF InBucket
  <1>6. ASSUME NEW n \in Nat, n \in T PROVE n + 1 \in T
    <2> SUFFICES ASSUME NEW x \in InBucket(t, b), x <= n + 1
                 PROVE  \E i \in 0 .. Size : i < x /\ f[i] = x
      OBVIOUS
    <2>0. x \in 1 .. t.len /\ Bucket(t, t.items[x].key) = b
      BY DEF InBucket
    <2>1. CASE t.buckets[b] = x
      <3>1. f[0] = x /\ 0 \in 0 .. Size /\ 0 < x
        BY <1>0, <1>2, <2>0, <2>1
      <3> QED
        BY <3>1
    <2>2. CASE t.buckets[b] # x
      <3>1. PICK m \in 1 .. x - 1 : t.items[m].next = x
        BY <2>0, <2>2 DEF Linked
      <3>2. m \in 1 .. t.len /\ m # 0 /\ m <= n /\ m < x
        BY <1>0, <2>0, <3>1
      <3>3. Bucket(t, t.items[m].key) = b
        <4>1. Bucket(t, t.items[x].key) = Bucket(t, t.items[m].key)
          BY <2>0, <3>1, <3>2 DEF Linked
        <4> QED
          BY <2>0, <4>1
      <3>4. m \in InBucket(t, b)
        BY <3>2, <3>3 DEF InBucket
      <3>5. PICK i \in 0 .. Size : i < m /\ f[i] = m
        BY <1>6, <3>2, <3>4
      <3>6. i + 1 \in 1 .. Size /\ i + 1 < x /\ i + 1 \in 0 .. Size /\ (i + 1) - 1 = i
        BY <1>0, <2>0, <3>2, <3>5
      <3>7. f[i + 1] = After(t, m)
        BY <1>2, <3>5, <3>6
      <3>8. f[i + 1] = x
        BY <3>1, <3>2, <3>7 DEF After
      <3> QED
        BY <3>6, <3>8
    <2> QED
      BY <2>1, <2>2
  <1> HIDE DEF S, T
  <1>7. \A i \in Nat : i \in S
    BY <1>3, <1>4, SetInduction
  <1>8. \A n \in Nat : n \in T
    BY <1>5, <1>6, SetInduction
  <1>9. ASSUME NEW x \in Chain(t, b) PROVE x \in InBucket(t, b)
    <2>1. PICK i \in 0 .. Size : x = f[i] /\ x # 0
      BY <1>1
    <2>2. i \in Nat /\ i <= Size
      BY <1>0
    <2> QED
      BY <1>7, <2>1, <2>2 DEF S
  <1>10. ASSUME NEW x \in InBucket(t, b) PROVE x \in Chain(t, b)
    <2>1. x \in 1 .. t.len /\ x \in Nat /\ x # 0
      BY <1>0 DEF InBucket
    <2>2. PICK i \in 0 .. Size : f[i] = x
      BY <1>8, <2>1 DEF T
    <2> QED
      BY <1>1, <2>1, <2>2
  <1> QED
    BY <1>9, <1>10

\* A chain that is not empty ends.
LEMMA ChainEnds ==
  ASSUME NEW t, Sketched(t), Linked(t), NEW b \in 0 .. Size - 1, InBucket(t, b) # {}
  PROVE  \E n \in InBucket(t, b) : t.items[n].next = 0
  <1> SUFFICES ASSUME \A n \in InBucket(t, b) : t.items[n].next # 0 PROVE FALSE
    OBVIOUS
  <1>0. t.len \in Nat
    BY Sizes DEF Sketched, Tables
  <1> DEFINE S == {j \in Nat : \E n \in InBucket(t, b) : n >= j}
  <1>1. 0 \in S
    BY <1>0 DEF InBucket
  <1>2. ASSUME NEW j \in Nat, j \in S PROVE j + 1 \in S
    <2>1. PICK n \in InBucket(t, b) : n >= j
      BY <1>2
    <2>2. n \in 1 .. t.len /\ Bucket(t, t.items[n].key) = b
      BY DEF InBucket
    <2>3. PICK y : y = t.items[n].next
      OBVIOUS
    <2>4. y \in n + 1 .. t.len /\ Bucket(t, t.items[y].key) = b
      BY <2>2, <2>3 DEF Linked
    <2>5. y \in 1 .. t.len /\ y >= j + 1
      BY <1>0, <2>1, <2>2, <2>4
    <2> QED
      BY <2>4, <2>5 DEF InBucket
  <1> HIDE DEF S
  <1>3. t.len + 1 \in S
    BY <1>0, <1>1, <1>2, SetInduction
  <1> QED
    BY <1>0, <1>3 DEF S, InBucket

\* The items that stay, the sketch and the mode are as they were.
KeysKept(t, u) ==
  /\ u.hash_mode = t.hash_mode /\ u.total = t.total /\ u.matrix = t.matrix
  /\ \A n \in 1 .. t.len : u.items[n].key = t.items[n].key

\* A page that has an item is counted again.
Again(t, u, k) ==
  /\ u.len = t.len
  /\ \E m \in 1 .. t.len :
       /\ t.items[m].key = k /\ u.items[m].count = CmsCount(t.items[m].count + 1)
       /\ \A n \in 1 .. t.len : n # m => u.items[n].count = t.items[n].count

\* A page that has none gets one.
Newly(t, u, k) ==
  /\ \A n \in 1 .. t.len : t.items[n].key # k /\ u.items[n].count = t.items[n].count
  /\ u.len = t.len + 1
  /\ u.items[t.len + 1].key = k
  /\ u.items[t.len + 1].count = CmsCount(IF t.hash_mode THEN 1 ELSE Threshold)

\* Links say nothing about counts.
LEMMA SameLinks ==
  ASSUME NEW t, NEW u, Sketched(t), Linked(t), u.len = t.len, u.buckets = t.buckets, u.hash_mode = t.hash_mode,
         \A n \in 1 .. t.len : u.items[n].key = t.items[n].key /\ u.items[n].next = t.items[n].next
  PROVE  Linked(u)
  <1>0. t.len \in Nat /\ \A n \in 1 .. t.len : t.items[n].key \in Keys
    BY Sizes DEF Sketched, Tables
  <1>1. ASSUME NEW n \in 1 .. t.len
        PROVE  Bucket(u, u.items[n].key) = Bucket(t, t.items[n].key)
    <2>1. PICK k \in Keys : k = t.items[n].key
      BY <1>0
    <2>2. Bucket(t, k) = Bucket(u, k)
      BY Hashed
    <2> QED
      BY <2>1, <2>2
  <1>2. ASSUME NEW n \in 1 .. u.len
        PROVE  /\ \/ u.items[n].next = 0
                  \/ /\ u.items[n].next \in n + 1 .. u.len
                     /\ Bucket(u, u.items[u.items[n].next].key) = Bucket(u, u.items[n].key)
               /\ \/ u.buckets[Bucket(u, u.items[n].key)] = n
                  \/ \E m \in 1 .. n - 1 : u.items[m].next = n
    <2>0. n \in 1 .. t.len
      OBVIOUS
    <2>1. PICK y : y = t.items[n].next
      OBVIOUS
    <2>2. u.items[n].next = y
      BY <2>1
    <2>3. y = 0 \/ (y \in n + 1 .. t.len /\ Bucket(t, t.items[y].key) = Bucket(t, t.items[n].key))
      BY <2>0, <2>1 DEF Linked
    <2>4. y \in n + 1 .. t.len => y \in 1 .. t.len
      BY <1>0
    <2>5. y = 0 \/ (y \in n + 1 .. u.len /\ Bucket(u, u.items[y].key) = Bucket(u, u.items[n].key))
      BY <1>1, <2>0, <2>3, <2>4
    <2>6. \/ t.buckets[Bucket(t, t.items[n].key)] = n
          \/ \E m \in 1 .. n - 1 : t.items[m].next = n
      BY <2>0 DEF Linked
    <2>7. \A m \in 1 .. n - 1 : m \in 1 .. t.len
      BY <1>0
    <2>8. \/ u.buckets[Bucket(u, u.items[n].key)] = n
          \/ \E m \in 1 .. n - 1 : u.items[m].next = n
      BY <1>1, <2>0, <2>6, <2>7
    <2> QED
      BY <2>2, <2>5, <2>8
  <1>3. ASSUME NEW b \in 0 .. Size - 1
        PROVE  \/ u.buckets[b] = 0
               \/ u.buckets[b] \in 1 .. u.len /\ Bucket(u, u.items[u.buckets[b]].key) = b
    <2>1. PICK x : x = t.buckets[b]
      OBVIOUS
    <2>2. x = 0 \/ (x \in 1 .. t.len /\ Bucket(t, t.items[x].key) = b)
      BY <2>1 DEF Linked
    <2> QED
      BY <1>1, <2>1, <2>2
  <1>4. \A m, n \in 1 .. u.len : u.items[m].key = u.items[n].key => m = n
    BY DEF Linked
  <1> QED
    BY <1>2, <1>3, <1>4 DEF Linked

\* A page met on its chain is counted again.
LEMMA CountedAgain ==
  ASSUME NEW t, Sketched(t), Linked(t), t.len < Size, NEW k \in Keys,
         NEW m \in 1 .. t.len, t.items[m].key = k,
         NEW u, u = [t EXCEPT !.items[m].count = CmsCount(@ + 1)]
  PROVE  KeysKept(t, u) /\ Linked(u) /\ Again(t, u, k)
  <1>0. t \in Tables /\ t.len \in Nat /\ t.items \in [1 .. Size -> Items] /\ Size \in Nat
    BY Sizes DEF Sketched, Tables
  <1>1. m \in 1 .. Size /\ \A n \in 1 .. t.len : n \in 1 .. Size
    BY <1>0
  <1>2. PICK item : item = t.items[m]
    OBVIOUS
  <1>3. item \in Items
    BY <1>0, <1>1, <1>2
  <1>4. PICK c : c = CmsCount(item.count + 1)
    OBVIOUS
  <1>5. PICK more : more = [item EXCEPT !.count = c]
    OBVIOUS
  <1>6. more.key = item.key /\ more.next = item.next /\ more.count = c
    BY <1>3, <1>5 DEF Items
  <1>7. PICK items : items = [t.items EXCEPT ![m] = more]
    OBVIOUS
  <1>8. u = [t EXCEPT !.items = items]
    BY <1>2, <1>4, <1>5, <1>7
  <1>9. /\ u.len = t.len /\ u.buckets = t.buckets /\ u.hash_mode = t.hash_mode /\ u.total = t.total
        /\ u.matrix = t.matrix /\ u.items = items
    BY <1>0, <1>8 DEF Tables
  <1>10. items[m] = more /\ \A n \in 1 .. t.len : n # m => items[n] = t.items[n]
    BY <1>0, <1>1, <1>7
  <1>11. \A n \in 1 .. t.len : u.items[n].key = t.items[n].key /\ u.items[n].next = t.items[n].next
    BY <1>2, <1>6, <1>9, <1>10
  <1>12. Linked(u)
    <2>1. PICK v : v = u
      OBVIOUS
    <2>2. v.len = t.len /\ v.buckets = t.buckets /\ v.hash_mode = t.hash_mode
      BY <1>9, <2>1
    <2>3. \A n \in 1 .. t.len : v.items[n].key = t.items[n].key /\ v.items[n].next = t.items[n].next
      BY <1>11, <2>1
    <2>4. Linked(v)
      BY <2>2, <2>3, SameLinks
    <2> QED
      BY <2>1, <2>4
  <1>13. /\ t.items[m].key = k /\ u.items[m].count = CmsCount(t.items[m].count + 1)
         /\ \A n \in 1 .. t.len : n # m => u.items[n].count = t.items[n].count
    BY <1>2, <1>4, <1>6, <1>9, <1>10
  <1>14. Again(t, u, k)
    BY <1>9, <1>13 DEF Again
  <1> QED
    BY <1>9, <1>11, <1>12, <1>14 DEF KeysKept

\* What a new item leaves and what it holds.
Extended(t, a, k) ==
  /\ a.hash_mode = t.hash_mode /\ a.total = t.total /\ a.matrix = t.matrix /\ a.buckets = t.buckets
  /\ a.len = t.len + 1
  /\ \A n \in 1 .. t.len : a.items[n] = t.items[n]
  /\ a.items[t.len + 1].key = k /\ a.items[t.len + 1].next = 0
  /\ a.items[t.len + 1].count = CmsCount(IF t.hash_mode THEN 1 ELSE Threshold)

\* achash_new_item() takes the next place.
LEMMA ItemExtends ==
  ASSUME NEW t, Sketched(t), t.len < Size, NEW k \in Keys
  PROVE  Extended(t, achash_new_item(t, k), k)
  <1>0. t \in Tables /\ t.len \in Nat /\ t.items \in [1 .. Size -> Items] /\ Size \in Nat
    BY Sizes DEF Sketched, Tables
  <1>1. PICK c : c = CmsCount(IF t.hash_mode THEN 1 ELSE Threshold)
    OBVIOUS
  <1>2. PICK item : item = [key |-> k, next |-> 0, count |-> c]
    OBVIOUS
  <1>3. PICK len : len = t.len + 1
    OBVIOUS
  <1>4. len \in 1 .. Size /\ \A n \in 1 .. t.len : n \in 1 .. Size /\ n # len
    BY <1>0, <1>3
  <1>5. PICK items : items = [t.items EXCEPT ![len] = item]
    OBVIOUS
  <1>6. items[len] = item /\ \A n \in 1 .. t.len : items[n] = t.items[n]
    BY <1>0, <1>4, <1>5
  <1>7. PICK u : u = [t EXCEPT !.len = len, !.items = items]
    OBVIOUS
  <1>8. /\ u.hash_mode = t.hash_mode /\ u.total = t.total /\ u.matrix = t.matrix /\ u.buckets = t.buckets
        /\ u.len = len /\ u.items = items
    BY <1>0, <1>7 DEF Tables
  <1>9. achash_new_item(t, k) = u
    BY <1>1, <1>2, <1>3, <1>5, <1>7 DEF achash_new_item
  <1>10. item.key = k /\ item.next = 0 /\ item.count = c
    BY <1>2
  <1>11. Extended(t, u, k)
    BY <1>1, <1>3, <1>6, <1>8, <1>10 DEF Extended
  <1> QED
    BY <1>9, <1>11

\* Where a new item of a bucket is hung in: behind the chain's last item, or first
\* in its empty bucket.
HungIn(t, u, b) ==
  /\ \A n \in 1 .. t.len :
       \/ u.items[n].next = t.items[n].next
       \/ t.items[n].next = 0 /\ u.items[n].next = t.len + 1 /\ Bucket(t, t.items[n].key) = b
  /\ \A c \in 0 .. Size - 1 :
       \/ u.buckets[c] = t.buckets[c]
       \/ c = b /\ t.buckets[b] = 0 /\ u.buckets[b] = t.len + 1
  /\ u.buckets[b] = t.len + 1 \/ \E m \in 1 .. t.len : u.items[m].next = t.len + 1

\* A chain with one item more.
LEMMA LinksGrow ==
  ASSUME NEW t, Sketched(t), Linked(t), NEW k \in Keys, NEW u,
         KeysKept(t, u), Newly(t, u, k), u.items[t.len + 1].next = 0, HungIn(t, u, Bucket(t, k))
  PROVE  Linked(u)
  <1>0. t.len \in Nat /\ \A n \in 1 .. t.len : t.items[n].key \in Keys
    BY Sizes DEF Sketched, Tables
  <1>1. PICK b, e : b = Bucket(t, k) /\ e = t.len + 1
    OBVIOUS
  <1>2. u.len = e /\ u.items[e].key = k /\ u.items[e].next = 0 /\ e \in 1 .. e /\ e \notin 1 .. t.len
    BY <1>0, <1>1 DEF Newly
  <1>3. \A n \in 1 .. t.len : u.items[n].key = t.items[n].key /\ t.items[n].key # k
    BY DEF KeysKept, Newly
  <1>4. \A n \in 1 .. e : n \in 1 .. t.len \/ n = e
    BY <1>0, <1>1
  <1>5. ASSUME NEW n \in 1 .. t.len
        PROVE  Bucket(u, u.items[n].key) = Bucket(t, t.items[n].key) /\ Bucket(t, t.items[n].key) \in 0 .. Size - 1
    <2>1. PICK l \in Keys : l = t.items[n].key
      BY <1>0
    <2>2. Bucket(t, l) = Bucket(u, l) /\ Bucket(t, l) \in 0 .. Size - 1
      BY Hashed DEF KeysKept
    <2>3. u.items[n].key = l
      BY <1>3, <2>1
    <2> QED
      BY <2>1, <2>2, <2>3
  <1>6. Bucket(u, u.items[e].key) = b /\ b \in 0 .. Size - 1
    <2>1. Bucket(t, k) = Bucket(u, k) /\ Bucket(t, k) \in 0 .. Size - 1
      BY Hashed DEF KeysKept
    <2> QED
      BY <1>1, <1>2, <2>1
  <1>7. /\ \A n \in 1 .. t.len :
             \/ u.items[n].next = t.items[n].next
             \/ t.items[n].next = 0 /\ u.items[n].next = e /\ Bucket(t, t.items[n].key) = b
        /\ \A c \in 0 .. Size - 1 :
             \/ u.buckets[c] = t.buckets[c]
             \/ c = b /\ t.buckets[b] = 0 /\ u.buckets[b] = e
        /\ u.buckets[b] = e \/ \E m \in 1 .. t.len : u.items[m].next = e
    BY <1>1 DEF HungIn
  <1>8. ASSUME NEW n \in 1 .. u.len
        PROVE  /\ \/ u.items[n].next = 0
                  \/ /\ u.items[n].next \in n + 1 .. u.len
                     /\ Bucket(u, u.items[u.items[n].next].key) = Bucket(u, u.items[n].key)
               /\ \/ u.buckets[Bucket(u, u.items[n].key)] = n
                  \/ \E m \in 1 .. n - 1 : u.items[m].next = n
    <2>1. CASE n = e
      <3>1. n - 1 = t.len
        BY <1>0, <1>1, <2>1
      <3> QED
        BY <1>2, <1>6, <1>7, <2>1, <3>1
    <2>2. CASE n # e
      <3>0. n \in 1 .. t.len
        BY <1>2, <1>4, <2>2
      <3>1. PICK y, z, c : y = t.items[n].next /\ z = u.items[n].next /\ c = Bucket(t, t.items[n].key)
        OBVIOUS
      <3>2. /\ y = 0 \/ (y \in n + 1 .. t.len /\ Bucket(t, t.items[y].key) = c)
            /\ z = y \/ (y = 0 /\ z = e /\ c = b)
            /\ Bucket(u, u.items[n].key) = c /\ c \in 0 .. Size - 1
        BY <1>5, <1>7, <3>0, <3>1 DEF Linked
      <3>3. z = 0 \/ (z \in n + 1 .. u.len /\ Bucket(u, u.items[z].key) = c)
        <4>1. CASE z = e /\ c = b
          <5>1. e \in n + 1 .. u.len
            BY <1>0, <1>1, <1>2, <3>0
          <5> QED
            BY <1>6, <4>1, <5>1
        <4>2. CASE z = y /\ y = 0
          BY <4>2
        <4>3. CASE z = y /\ y \in n + 1 .. t.len
          <5>1. y \in 1 .. t.len /\ y \in n + 1 .. u.len
            BY <1>0, <1>1, <1>2, <3>0, <4>3
          <5>2. Bucket(u, u.items[y].key) = Bucket(t, t.items[y].key)
            BY <1>5, <5>1
          <5>3. Bucket(t, t.items[y].key) = c
            BY <3>2, <5>1
          <5> QED
            BY <4>3, <5>1, <5>2, <5>3
        <4> QED
          BY <3>2, <4>1, <4>2, <4>3
      <3>4. \/ t.buckets[c] = n
            \/ \E m \in 1 .. n - 1 : t.items[m].next = n
        BY <3>0, <3>1 DEF Linked
      <3>5. \/ u.buckets[c] = n
            \/ \E m \in 1 .. n - 1 : u.items[m].next = n
        <4>1. n # 0 /\ \A m \in 1 .. n - 1 : m \in 1 .. t.len
          BY <1>0, <3>0
        <4>2. CASE t.buckets[c] = n
          BY <1>7, <3>2, <4>1, <4>2
        <4>3. CASE \E m \in 1 .. n - 1 : t.items[m].next = n
          BY <1>7, <4>1, <4>3
        <4> QED
          BY <3>4, <4>2, <4>3
      <3> QED
        BY <3>1, <3>2, <3>3, <3>5
    <2> QED
      BY <2>1, <2>2
  <1>9. ASSUME NEW c \in 0 .. Size - 1
        PROVE  \/ u.buckets[c] = 0
               \/ u.buckets[c] \in 1 .. u.len /\ Bucket(u, u.items[u.buckets[c]].key) = c
    <2>1. CASE u.buckets[c] = t.buckets[c]
      <3>1. PICK x : x = t.buckets[c]
        OBVIOUS
      <3>2. x = 0 \/ (x \in 1 .. t.len /\ Bucket(t, t.items[x].key) = c)
        BY <3>1 DEF Linked
      <3>3. x \in 1 .. t.len => x \in 1 .. u.len /\ Bucket(u, u.items[x].key) = Bucket(t, t.items[x].key)
        BY <1>0, <1>1, <1>2, <1>5
      <3> QED
        BY <2>1, <3>1, <3>2, <3>3
    <2>2. CASE c = b /\ u.buckets[b] = e
      BY <1>2, <1>6, <2>2
    <2> QED
      BY <1>7, <2>1, <2>2
  <1>10. \A m, n \in 1 .. u.len : u.items[m].key = u.items[n].key => m = n
    <2> SUFFICES ASSUME NEW m \in 1 .. u.len, NEW n \in 1 .. u.len, u.items[m].key = u.items[n].key
                 PROVE  m = n
      OBVIOUS
    <2>1. CASE m \in 1 .. t.len /\ n \in 1 .. t.len
      BY <1>3, <2>1 DEF Linked
    <2>2. CASE m = e \/ n = e
      BY <1>2, <1>3, <1>4, <2>2
    <2> QED
      BY <1>2, <1>4, <2>1, <2>2
  <1> QED
    BY <1>8, <1>9, <1>10 DEF Linked

\* What achash_update() does to the table.
LEMMA HashUpdated ==
  ASSUME NEW t, Sketched(t), Linked(t), t.len < Size, NEW k \in Keys
  PROVE  /\ KeysKept(t, achash_update(t, k)) /\ Linked(achash_update(t, k))
         /\ Again(t, achash_update(t, k), k) \/ Newly(t, achash_update(t, k), k)
  <1> DEFINE b == Bucket(t, k)
             chain == Chain(t, b)
             met == {n \in chain : SameKey(k, t.items[n].key)}
             tail == CHOOSE n \in chain : t.items[n].next = 0
             first == CHOOSE n \in met : TRUE
             added == achash_new_item(t, k)
             u == achash_update(t, k)
  <1>0. /\ t \in Tables /\ t.len \in Nat /\ t.items \in [1 .. Size -> Items] /\ t.buckets \in [0 .. Size - 1 -> 0 .. Size]
        /\ Size \in Nat
    BY Sizes DEF Sketched, Tables
  <1>1. u = IF met # {} THEN [t EXCEPT !.items[first].count = CmsCount(@ + 1)]
            ELSE IF chain = {} THEN [added EXCEPT !.buckets[b] = added.len]
            ELSE [added EXCEPT !.items[tail].next = added.len]
    BY Zenon DEF achash_update
  <1>2. Extended(t, added, k)
    BY ItemExtends
  <1>3. b \in 0 .. Size - 1
    BY Hashed
  <1>4. chain = InBucket(t, b)
    BY <1>3, ChainIs
  <1>5. met # {} => first \in 1 .. t.len /\ t.items[first].key = k
    <2>1. met # {} => first \in met
      OBVIOUS
    <2> QED
      BY <1>4, <2>1 DEF InBucket, SameKey
  <1>6. met = {} => \A n \in 1 .. t.len : t.items[n].key # k
    BY <1>4 DEF InBucket, SameKey
  <1>7. chain # {} => tail \in 1 .. t.len /\ t.items[tail].next = 0 /\ Bucket(t, t.items[tail].key) = b
    <2>1. chain # {} => \E n \in chain : t.items[n].next = 0
      BY <1>3, <1>4, ChainEnds
    <2>2. chain # {} => tail \in chain /\ t.items[tail].next = 0
      BY <2>1
    <2> QED
      BY <1>4, <2>2 DEF InBucket
  <1>8. chain = {} => t.buckets[b] = 0
    BY <1>3, <1>4 DEF InBucket, Linked
  <1>9. added \in Tables /\ added.items \in [1 .. Size -> Items] /\ added.buckets \in [0 .. Size - 1 -> 0 .. Size]
    BY NewItem DEF Sketched, Tables
  <1>10. PICK v, a, f, l, c : v = u /\ a = added /\ f = first /\ l = tail /\ c = b
    OBVIOUS
  <1> HIDE DEF first, tail, added, u, chain, met, b
  <1>11. CASE met # {}
    <2>1. v = [t EXCEPT !.items[f].count = CmsCount(@ + 1)]
      BY <1>1, <1>10, <1>11
    <2>2. KeysKept(t, v) /\ Linked(v) /\ Again(t, v, k)
      BY <1>5, <1>10, <1>11, <2>1, CountedAgain
    <2> QED
      BY <1>10, <2>2 DEF u
  <1>12. ASSUME met = {}, NEW w, w = v, w.hash_mode = a.hash_mode, w.total = a.total, w.matrix = a.matrix,
                w.len = a.len, \A n \in 1 .. t.len + 1 : w.items[n].key = a.items[n].key /\ w.items[n].count = a.items[n].count,
                w.items[t.len + 1].next = 0, HungIn(t, w, Bucket(t, k))
         PROVE  KeysKept(t, u) /\ Linked(u) /\ Newly(t, u, k)
    <2>1. Extended(t, a, k)
      BY <1>2, <1>10
    <2>2. t.len + 1 \in 1 .. t.len + 1 /\ \A n \in 1 .. t.len : n \in 1 .. t.len + 1
      BY <1>0
    <2>3. KeysKept(t, w)
      BY <1>12, <2>1, <2>2 DEF Extended, KeysKept
    <2>4. Newly(t, w, k)
      BY <1>6, <1>12, <2>1, <2>2 DEF Extended, Newly
    <2>5. Linked(w)
      BY <1>12, <2>3, <2>4, LinksGrow
    <2> QED
      BY <1>10, <1>12, <2>3, <2>4, <2>5
  <1>13. CASE met = {} /\ chain = {}
    <2>1. PICK buckets : buckets = [a.buckets EXCEPT ![c] = a.len]
      OBVIOUS
    <2>2. v = [a EXCEPT !.buckets = buckets]
      BY <1>1, <1>10, <1>13, <2>1
    <2>3. /\ v.hash_mode = a.hash_mode /\ v.total = a.total /\ v.matrix = a.matrix /\ v.len = a.len
          /\ v.items = a.items /\ v.buckets = buckets
      BY <1>9, <1>10, <2>2 DEF Tables
    <2>4. Extended(t, a, k)
      BY <1>2, <1>10
    <2>5. buckets[c] = t.len + 1 /\ \A d \in 0 .. Size - 1 : d # c => buckets[d] = t.buckets[d]
      BY <1>3, <1>9, <1>10, <2>1, <2>4 DEF Extended
    <2>6. HungIn(t, v, c)
      BY <1>8, <1>10, <1>13, <2>3, <2>4, <2>5 DEF HungIn, Extended
    <2>7. c = Bucket(t, k)
      BY <1>10 DEF b
    <2>8. v.items[t.len + 1].next = 0
      BY <2>3, <2>4 DEF Extended
    <2> QED
      BY <1>12, <1>13, <2>3, <2>6, <2>7, <2>8 DEF u
  <1>14. CASE met = {} /\ chain # {}
    <2>0. l \in 1 .. t.len /\ t.items[l].next = 0 /\ Bucket(t, t.items[l].key) = c
      BY <1>7, <1>10, <1>14
    <2>1. PICK items : items = [a.items EXCEPT ![l].next = a.len]
      OBVIOUS
    <2>2. v = [a EXCEPT !.items = items]
      BY <1>1, <1>10, <1>14, <2>1
    <2>3. /\ v.hash_mode = a.hash_mode /\ v.total = a.total /\ v.matrix = a.matrix /\ v.len = a.len
          /\ v.items = items /\ v.buckets = a.buckets
      BY <1>9, <1>10, <2>2 DEF Tables
    <2>4. Extended(t, a, k)
      BY <1>2, <1>10
    <2>5. PICK item : item = a.items[l]
      OBVIOUS
    <2>6. item \in Items /\ l \in 1 .. Size
      BY <1>0, <1>9, <1>10, <2>0, <2>5
    <2>7. PICK more : more = [item EXCEPT !.next = a.len]
      OBVIOUS
    <2>8. more.key = item.key /\ more.count = item.count /\ more.next = a.len
      BY <2>6, <2>7 DEF Items
    <2>9. items = [a.items EXCEPT ![l] = more]
      BY <2>1, <2>5, <2>7
    <2>10. items[l] = more /\ \A n \in 1 .. t.len + 1 : n # l => items[n] = a.items[n]
      <3>1. a.items \in [1 .. Size -> Items] /\ \A n \in 1 .. t.len + 1 : n \in 1 .. Size
        BY <1>0, <1>9, <1>10
      <3> QED
        BY <2>6, <2>9, <3>1
    <2>11. \A n \in 1 .. t.len + 1 : v.items[n].key = a.items[n].key /\ v.items[n].count = a.items[n].count
      BY <2>3, <2>5, <2>8, <2>10
    <2>12. l # t.len + 1 /\ t.len + 1 \in 1 .. t.len + 1 /\ \A n \in 1 .. t.len : n \in 1 .. t.len + 1
      BY <1>0, <2>0
    <2>13. v.items[t.len + 1].next = 0
      BY <2>3, <2>4, <2>10, <2>12 DEF Extended
    <2>14. HungIn(t, v, c)
      <3>1. v.items[l].next = t.len + 1
        BY <2>3, <2>4, <2>8, <2>10 DEF Extended
      <3>2. \A n \in 1 .. t.len : n # l => v.items[n].next = t.items[n].next
        BY <2>3, <2>4, <2>10, <2>12 DEF Extended
      <3>3. \A d \in 0 .. Size - 1 : v.buckets[d] = t.buckets[d]
        BY <2>3, <2>4 DEF Extended
      <3> QED
        BY <2>0, <3>1, <3>2, <3>3 DEF HungIn
    <2>15. c = Bucket(t, k)
      BY <1>10 DEF b
    <2> QED
      BY <1>12, <1>14, <2>3, <2>11, <2>13, <2>14, <2>15 DEF u
  <1> QED
    BY <1>11, <1>13, <1>14 DEF u

-----------------------------------------------------------------------------
(* What the sketch counts.                                                 *)

\* A count of 16 bits that does not wrap.
LEMMA CountFits ==
  ASSUME NEW n \in Nat, n <= 65535
  PROVE  CmsCount(n) = n
  <1>1. PICK m : m = 65536
    OBVIOUS
  <1>2. m \in Nat \ {0} /\ n < m
    BY <1>1
  <1>3. n % m = n
    BY <1>2
  <1> QED
    BY <1>1, <1>3 DEF CmsCount

\* A quotient grows with what is divided.
LEMMA QuotientGrows ==
  ASSUME NEW n \in Nat, NEW d \in Nat \ {0}
  PROVE  n \div d \in Nat /\ (n + 1) \div d \in Nat /\ n \div d <= (n + 1) \div d
  <1> DEFINE q == n \div d
             p == (n + 1) \div d
  <1>1. q \in Nat /\ p \in Nat
    OBVIOUS
  <1>2. d * q <= n /\ n + 1 < d * p + d
    BY SMT
  <1> HIDE DEF q, p
  <1>3. ASSUME q > p PROVE FALSE
    <2>1. PICK k \in Nat : q = p + 1 + k
      <3>1. q - (p + 1) \in Nat /\ q = p + 1 + (q - (p + 1))
        BY <1>1, <1>3
      <3> QED
        BY <3>1
    <2>2. d * (p + 1 + k) = d * p + d + d * k
      BY <1>1
    <2>3. d * k \in Nat /\ d * p \in Nat
      BY <1>1
    <2> QED
      BY <1>2, <2>1, <2>2, <2>3
  <1>4. q <= p
    BY <1>1, <1>3
  <1> QED
    BY <1>1, <1>4 DEF q, p

\* A set of numbers has a least one.
LEMMA LeastExists ==
  ASSUME NEW C \in SUBSET Nat, C # {}
  PROVE  \E n \in C : \A m \in C : n <= m
  <1> SUFFICES ASSUME \A n \in C : \E m \in C : m < n PROVE FALSE
    OBVIOUS
  <1> DEFINE S == {n \in Nat : \A m \in C : n <= m}
  <1>1. 0 \in S
    OBVIOUS
  <1>2. ASSUME NEW n \in Nat, n \in S PROVE n + 1 \in S
    <2>1. n \notin C
      BY <1>2
    <2> QED
      BY <1>2, <2>1
  <1> HIDE DEF S
  <1>3. \A n \in Nat : n \in S
    BY <1>1, <1>2, SetInduction
  <1>4. PICK c \in C : TRUE
    OBVIOUS
  <1>5. c + 1 \in S
    BY <1>3
  <1> QED
    BY <1>5 DEF S

\* An estimate is the least of a page's counters.
LEMMA EstimateIs ==
  ASSUME NEW m \in [Rows -> [Columns -> Counts]], NEW k \in Keys
  PROVE  /\ \E r \in Rows : Estimate(m, k) = m[r][Column(r, k)]
         /\ \A r \in Rows : Estimate(m, k) <= m[r][Column(r, k)]
  <1> DEFINE C == {m[r][Column(r, k)] : r \in Rows}
             e == CHOOSE n \in C : \A x \in C : n <= x
  <1>1. \A r \in Rows : m[r][Column(r, k)] \in Nat
    BY Hashed, CountsAreNumbers
  <1>2. 1 \in Rows
    BY Sizes DEF Rows
  <1>3. C \in SUBSET Nat /\ C # {}
    BY <1>1, <1>2
  <1>4. \E n \in C : \A x \in C : n <= x
    <2> HIDE DEF C
    <2> QED
      BY <1>3, LeastExists
  <1>5. e \in C /\ \A x \in C : e <= x
    BY <1>4
  <1>6. Estimate(m, k) = e
    BY Zenon DEF Estimate
  <1> HIDE DEF e
  <1> QED
    BY <1>5, <1>6

\* The sketch's error is a number, and only the total matters.
LEMMA ErrorTyped ==
  ASSUME NEW t, Sketched(t)
  PROVE  /\ cms_error(t) \in Nat
         /\ \A u : u.total = t.total => cms_error(u) = cms_error(t)
         /\ \A u : u.total = t.total + 1 => cms_error(u) \in Nat /\ cms_error(t) <= cms_error(u)
  <1>1. PICK d : d = Width \div 2
    OBVIOUS
  <1>2. d \in Nat \ {0}
    BY <1>1, Sizes
  <1>3. PICK n \in Nat : n = t.total
    BY DEF Sketched, Tables
  <1>4. cms_error(t) = n \div d
    BY <1>1, <1>3 DEF cms_error
  <1>5. n \div d \in Nat /\ (n + 1) \div d \in Nat /\ n \div d <= (n + 1) \div d
    BY <1>2, QuotientGrows
  <1>6. \A u : u.total = n => cms_error(u) = n \div d
    BY <1>1 DEF cms_error
  <1>7. \A u : u.total = n + 1 => cms_error(u) = (n + 1) \div d
    BY <1>1 DEF cms_error
  <1> QED
    BY <1>3, <1>4, <1>5, <1>6, <1>7

-----------------------------------------------------------------------------
\* A number that 16 bits hold.
Fits(n) == n <= 65535

\* In a row, no other page sampled shares the counter of a page.
AloneIn(s, r, k) == \A l \in Keys \ {k} : s[l] > 0 => Column(r, l) # Column(r, k)

\* The counters, with the samples of each page in the interval: never less than
\* these, exact where a page is alone, and no more than all samples.
Estimated(t, s) ==
  /\ \A k \in Keys, r \in Rows :
       /\ s[k] <= t.matrix[r][Column(r, k)]
       /\ AloneIn(s, r, k) => t.matrix[r][Column(r, k)] = s[k]
  /\ \A r \in Rows, c \in Columns : t.matrix[r][c] <= t.total

SampledOnce(s, k) == [s EXCEPT ![k] = @ + 1]

\* One sample more.
LEMMA SketchCounts ==
  ASSUME NEW t, Sketched(t), NEW s \in [Keys -> Nat], Estimated(t, s), NEW k \in Keys, t.total + 1 <= 65535
  PROVE  /\ Estimated(cms_update(t, k), SampledOnce(s, k))
         /\ cms_update(t, k).total = t.total + 1
         /\ \A r \in Rows, c \in Columns :
              /\ t.matrix[r][c] <= cms_update(t, k).matrix[r][c]
              /\ c = Column(r, k) => cms_update(t, k).matrix[r][c] = t.matrix[r][c] + 1
  <1>1. t \in Tables /\ t.total \in Nat /\ t.matrix \in [Rows -> [Columns -> Counts]]
    BY DEF Sketched, Tables
  <1> DEFINE counted == [r \in Rows |-> [c \in Columns |->
                           CmsCount(t.matrix[r][c] + IF c = Column(r, k) THEN 1 ELSE 0)]]
  <1>b. PICK m : m = counted
    <2> HIDE DEF counted
    <2> QED
      OBVIOUS
  <1>2. m = [r \in Rows |-> [c \in Columns |->
               CmsCount(t.matrix[r][c] + IF c = Column(r, k) THEN 1 ELSE 0)]]
    BY <1>b
  <1> HIDE DEF counted
  <1>3. ASSUME NEW r \in Rows, NEW c \in Columns
        PROVE  m[r][c] = t.matrix[r][c] + (IF c = Column(r, k) THEN 1 ELSE 0)
    <2>1. PICK x : x = t.matrix[r][c]
      OBVIOUS
    <2>2. x \in Nat /\ x <= t.total
      BY <1>1, <2>1, CountsAreNumbers DEF Estimated
    <2>3. PICK y : y = IF c = Column(r, k) THEN 1 ELSE 0
      OBVIOUS
    <2>4. x + y \in Nat /\ x + y <= 65535
      BY <1>1, <2>2, <2>3
    <2>5. m[r][c] = CmsCount(x + y)
      BY <1>2, <2>1, <2>3
    <2>6. m[r][c] = x + y
      BY <2>4, <2>5, CountFits
    <2> QED
      BY <2>1, <2>3, <2>6
  <1>a. PICK total : total = t.total + 1
    OBVIOUS
  <1>4. PICK u : u = [t EXCEPT !.total = total, !.matrix = m]
    OBVIOUS
  <1>5. u.total = t.total + 1 /\ u.matrix = m
    BY <1>1, <1>4, <1>a DEF Tables
  <1>6. cms_update(t, k) = u
    BY <1>2, <1>4, <1>a DEF cms_update
  <1>7. PICK w : w = SampledOnce(s, k)
    OBVIOUS
  <1>8. w \in [Keys -> Nat] /\ w[k] = s[k] + 1 /\ \A l \in Keys : l # k => w[l] = s[l]
    BY <1>7 DEF SampledOnce
  <1>9. ASSUME NEW r \in Rows, NEW c \in Columns
        PROVE  t.matrix[r][c] <= m[r][c] /\ m[r][c] <= u.total /\ (c = Column(r, k) => m[r][c] = t.matrix[r][c] + 1)
               /\ (c # Column(r, k) => m[r][c] = t.matrix[r][c])
    <2>1. t.matrix[r][c] \in Nat /\ t.matrix[r][c] <= t.total
      BY <1>1, CountsAreNumbers DEF Estimated
    <2> QED
      BY <1>1, <1>3, <1>5, <2>1
  <1>10. ASSUME NEW l \in Keys, NEW r \in Rows
         PROVE  w[l] <= m[r][Column(r, l)] /\ (AloneIn(w, r, l) => m[r][Column(r, l)] = w[l])
    <2>1. PICK c \in Columns : c = Column(r, l)
      BY Hashed
    <2>2. t.matrix[r][c] \in Nat /\ s[l] \in Nat /\ s[l] <= t.matrix[r][c]
      BY <1>1, <2>1, CountsAreNumbers DEF Estimated
    <2>3. AloneIn(s, r, l) => t.matrix[r][c] = s[l]
      BY <2>1 DEF Estimated
    <2>4. AloneIn(w, r, l) => AloneIn(s, r, l)
      <3>1. \A j \in Keys : s[j] > 0 => w[j] > 0
        BY <1>8
      <3> QED
        BY <3>1 DEF AloneIn
    <2>5. CASE l = k
      <3>1. m[r][c] = t.matrix[r][c] + 1 /\ w[l] = s[l] + 1
        BY <1>8, <1>9, <2>1, <2>5
      <3> QED
        BY <2>1, <2>2, <2>3, <2>4, <3>1
    <2>6. CASE l # k
      <3>1. w[l] = s[l] /\ t.matrix[r][c] <= m[r][c]
        BY <1>8, <1>9, <2>6
      <3>2. AloneIn(w, r, l) => m[r][c] = t.matrix[r][c]
        <4>1. s[k] \in Nat /\ w[k] > 0
          BY <1>8
        <4>2. AloneIn(w, r, l) => Column(r, k) # c
          BY <2>1, <2>6, <4>1 DEF AloneIn
        <4> QED
          BY <1>9, <4>2
      <3>3. m[r][c] \in Nat
        BY <1>3, <2>2
      <3> QED
        BY <2>1, <2>2, <2>3, <2>4, <3>1, <3>2, <3>3
    <2> QED
      BY <2>5, <2>6
  <1>11. Estimated(u, w)
    BY <1>5, <1>9, <1>10 DEF Estimated
  <1> QED
    BY <1>5, <1>6, <1>7, <1>9, <1>11

\* Items are of pages that were sampled.
Drawn(t, s) ==
  /\ s \in [Keys -> Nat] /\ \A k \in Keys : s[k] <= t.total
  /\ \A n \in 1 .. t.len : s[t.items[n].key] > 0

\* With hash_mode every page sampled has an item, which counts its samples.
Exact(t, s) ==
  /\ \A n \in 1 .. t.len : t.items[n].count = s[t.items[n].key]
  /\ \A k \in Keys : s[k] > 0 => \E n \in 1 .. t.len : t.items[n].key = k

\* Without, an item begins with the threshold and counts no more than any counter
\* of its page; a page sampled more often than the threshold and the sketch's error
\* has an item, which misses no more samples than that error.
Held(t, s) ==
  /\ \A n \in 1 .. t.len :
       /\ t.items[n].count >= Threshold
       /\ \A r \in Rows : t.items[n].count <= t.matrix[r][Column(r, t.items[n].key)]
  /\ \A k \in Keys : s[k] >= Threshold + cms_error(t) =>
       \E n \in 1 .. t.len : t.items[n].key = k /\ t.items[n].count >= s[k] - cms_error(t)

\* What the table says of the samples.
CountsRight(t, s) ==
  /\ Linked(t) /\ Drawn(t, s)
  /\ t.hash_mode => Exact(t, s)
  /\ ~t.hash_mode => Estimated(t, s) /\ Held(t, s)

\* A sample of a page.
LEMMA SampledTyped ==
  ASSUME NEW s \in [Keys -> Nat], NEW k \in Keys
  PROVE  /\ SampledOnce(s, k) \in [Keys -> Nat] /\ SampledOnce(s, k)[k] = s[k] + 1
         /\ \A l \in Keys : l # k => SampledOnce(s, k)[l] = s[l]
  BY DEF SampledOnce

\* Items stay items of pages sampled.
LEMMA DrawnOnce ==
  ASSUME NEW t, Sketched(t), NEW s, Drawn(t, s), NEW k \in Keys,
         NEW u, u.total = t.total + 1, NEW d, d = SampledOnce(s, k),
         \/ u.len = t.len
         \/ u.len = t.len + 1 /\ u.items[t.len + 1].key = k,
         \A n \in 1 .. t.len : u.items[n].key = t.items[n].key
  PROVE  Drawn(u, d)
  <1>0. t.len \in Nat /\ t.total \in Nat /\ \A n \in 1 .. t.len : t.items[n].key \in Keys
    BY Sizes DEF Sketched, Tables
  <1>1. d \in [Keys -> Nat] /\ d[k] = s[k] + 1 /\ \A l \in Keys : l # k => d[l] = s[l]
    BY SampledTyped DEF Drawn
  <1>2. s \in [Keys -> Nat] /\ \A l \in Keys : s[l] <= t.total
    BY DEF Drawn
  <1>3. \A l \in Keys : d[l] <= u.total /\ d[l] >= s[l]
    <2> SUFFICES ASSUME NEW l \in Keys PROVE d[l] <= u.total /\ d[l] >= s[l]
      OBVIOUS
    <2>1. s[l] \in Nat /\ s[l] <= t.total /\ (d[l] = s[l] \/ d[l] = s[l] + 1)
      BY <1>1, <1>2
    <2> QED
      BY <1>0, <2>1
  <1>4. ASSUME NEW n \in 1 .. u.len PROVE d[u.items[n].key] > 0
    <2>1. CASE n \in 1 .. t.len
      <3>1. PICK l \in Keys : l = t.items[n].key
        BY <1>0, <2>1
      <3>2. s[l] > 0 /\ u.items[n].key = l
        BY <2>1, <3>1 DEF Drawn
      <3>3. d[l] \in Nat /\ s[l] \in Nat /\ d[l] >= s[l]
        BY <1>1, <1>2, <1>3
      <3> QED
        BY <3>2, <3>3
    <2>2. CASE n \notin 1 .. t.len
      <3>1. u.items[n].key = k
        BY <1>0, <2>2
      <3>2. s[k] \in Nat
        BY <1>2
      <3> QED
        BY <1>1, <3>1, <3>2
    <2> QED
      BY <2>1, <2>2
  <1> QED
    BY <1>1, <1>3, <1>4 DEF Drawn

\* A sample with hash_mode.
LEMMA ExactOnce ==
  ASSUME NEW t, Sketched(t), Linked(t), NEW s, Drawn(t, s), Exact(t, s), t.hash_mode, t.total + 1 <= 65535,
         NEW k \in Keys, NEW u, \A n \in 1 .. t.len : u.items[n].key = t.items[n].key,
         Again(t, u, k) \/ Newly(t, u, k), NEW d, d = SampledOnce(s, k)
  PROVE  Exact(u, d)
  <1>0. t.len \in Nat /\ t.total \in Nat /\ \A n \in 1 .. t.len : t.items[n].key \in Keys
    BY Sizes DEF Sketched, Tables
  <1>1. d \in [Keys -> Nat] /\ d[k] = s[k] + 1 /\ \A l \in Keys : l # k => d[l] = s[l]
    BY SampledTyped DEF Drawn
  <1>2. s \in [Keys -> Nat] /\ \A l \in Keys : s[l] <= t.total
    BY DEF Drawn
  <1>3. CASE Again(t, u, k)
    <2>1. PICK m \in 1 .. t.len :
            /\ t.items[m].key = k /\ u.items[m].count = CmsCount(t.items[m].count + 1)
            /\ \A n \in 1 .. t.len : n # m => u.items[n].count = t.items[n].count
      BY <1>3 DEF Again
    <2>2. t.items[m].count = s[k] /\ s[k] \in Nat /\ s[k] + 1 <= 65535
      BY <1>0, <1>2, <2>1 DEF Exact
    <2>3. u.items[m].count = d[k]
      <3>1. CmsCount(s[k] + 1) = s[k] + 1
        BY <2>2, CountFits
      <3> QED
        BY <1>1, <2>1, <2>2, <3>1
    <2>4. u.len = t.len
      BY <1>3 DEF Again
    <2>5. ASSUME NEW n \in 1 .. u.len PROVE u.items[n].count = d[u.items[n].key]
      <3>0. n \in 1 .. t.len /\ u.items[n].key = t.items[n].key
        BY <2>4
      <3>1. CASE n = m
        BY <2>1, <2>3, <3>0, <3>1
      <3>2. CASE n # m
        <4>1. t.items[n].key # k
          BY <2>1, <3>0, <3>2 DEF Linked
        <4>2. t.items[n].key \in Keys
          BY <1>0, <3>0
        <4>3. d[t.items[n].key] = s[t.items[n].key]
          BY <1>1, <4>1, <4>2
        <4>4. u.items[n].count = s[t.items[n].key]
          BY <2>1, <3>0, <3>2 DEF Exact
        <4> QED
          BY <3>0, <4>3, <4>4
      <3> QED
        BY <3>1, <3>2
    <2>6. ASSUME NEW l \in Keys, d[l] > 0 PROVE \E n \in 1 .. u.len : u.items[n].key = l
      <3>1. \A n \in 1 .. t.len : u.items[n].key = t.items[n].key
        OBVIOUS
      <3>2. CASE l = k
        BY <2>1, <2>4, <3>1, <3>2
      <3>3. CASE l # k
        <4>1. s[l] > 0
          BY <1>1, <2>6, <3>3
        <4> QED
          BY <2>4, <3>1, <4>1 DEF Exact
      <3> QED
        BY <3>2, <3>3
    <2> QED
      BY <2>5, <2>6 DEF Exact
  <1>4. CASE Newly(t, u, k)
    <2>1. /\ \A n \in 1 .. t.len : t.items[n].key # k /\ u.items[n].count = t.items[n].count
          /\ u.len = t.len + 1 /\ u.items[t.len + 1].key = k /\ u.items[t.len + 1].count = CmsCount(1)
      BY <1>4 DEF Newly
    <2>2. s[k] = 0
      <3>1. s[k] \in Nat
        BY <1>2
      <3>2. ~(s[k] > 0)
        BY <2>1 DEF Exact
      <3> QED
        BY <3>1, <3>2
    <2>3. u.items[t.len + 1].count = d[k]
      <3>1. CmsCount(1) = 1
        BY CountFits
      <3> QED
        BY <1>1, <2>1, <2>2, <3>1
    <2>4. ASSUME NEW n \in 1 .. u.len PROVE u.items[n].count = d[u.items[n].key]
      <3>1. CASE n = t.len + 1
        BY <2>1, <2>3, <3>1
      <3>2. CASE n # t.len + 1
        <4>0. n \in 1 .. t.len
          BY <1>0, <2>1, <3>2
        <4>1. PICK l \in Keys : l = t.items[n].key
          BY <1>0, <4>0
        <4>2. u.items[n].key = l /\ l # k /\ u.items[n].count = s[l]
          BY <2>1, <4>0, <4>1 DEF Exact
        <4> QED
          BY <1>1, <4>2
      <3> QED
        BY <3>1, <3>2
    <2>5. ASSUME NEW l \in Keys, d[l] > 0 PROVE \E n \in 1 .. u.len : u.items[n].key = l
      <3>1. t.len + 1 \in 1 .. u.len /\ \A n \in 1 .. t.len : n \in 1 .. u.len
        BY <1>0, <2>1
      <3>2. CASE l = k
        BY <2>1, <3>1, <3>2
      <3>3. CASE l # k
        <4>1. s[l] > 0
          BY <1>1, <2>5, <3>3
        <4>2. PICK n \in 1 .. t.len : t.items[n].key = l
          BY <4>1 DEF Exact
        <4> QED
          BY <3>1, <4>2
      <3> QED
        BY <3>2, <3>3
    <2> QED
      BY <2>4, <2>5 DEF Exact
  <1> QED
    BY <1>3, <1>4

\* The sketch leaves items, buckets and mode alone.
LEMMA SketchKeeps ==
  ASSUME NEW t, Sketched(t), NEW k
  PROVE  LET c == cms_update(t, k) IN
         c.items = t.items /\ c.len = t.len /\ c.hash_mode = t.hash_mode /\ c.buckets = t.buckets
  <1>1. t \in Tables
    BY DEF Sketched
  <1> DEFINE counted == [r \in Rows |-> [c \in Columns |->
                           CmsCount(t.matrix[r][c] + IF c = Column(r, k) THEN 1 ELSE 0)]]
             more == t.total + 1
  <1>2. cms_update(t, k) = [t EXCEPT !.total = more, !.matrix = counted]
    BY DEF cms_update
  <1> HIDE DEF counted, more
  <1>3. PICK c : c = cms_update(t, k)
    OBVIOUS
  <1>4. c.items = t.items /\ c.len = t.len /\ c.hash_mode = t.hash_mode /\ c.buckets = t.buckets
    BY <1>1, <1>2, <1>3 DEF Tables
  <1> QED
    BY <1>3, <1>4

\* The counters are counts.
LEMMA MatrixTyped ==
  ASSUME NEW t, Sketched(t)
  PROVE  t.matrix \in [Rows -> [Columns -> Counts]]
  BY DEF Sketched, Tables

\* The sketch stays a table.
LEMMA SketchTyped ==
  ASSUME NEW t, Sketched(t), NEW k \in Keys, NEW c, c = cms_update(t, k)
  PROVE  /\ Sketched(c)
         /\ c.matrix \in [Rows -> [Columns -> Counts]] /\ t.matrix \in [Rows -> [Columns -> Counts]]
  <1>1. Sketched(cms_update(t, k))
    BY SketchCounted, Zenon
  <1>2. Sketched(c)
    BY <1>1
  <1> QED
    BY <1>2, MatrixTyped

\* What an item may say of its page, in a table with a sketch.
ItemHeld(t, n) ==
  /\ t.items[n].count >= Threshold
  /\ \A r \in Rows : t.items[n].count <= t.matrix[r][Column(r, t.items[n].key)]

\* A page's item misses no more samples than the error.
Misses(t, s, k) ==
  s[k] >= Threshold + cms_error(t) =>
    \E n \in 1 .. t.len : t.items[n].key = k /\ t.items[n].count >= s[k] - cms_error(t)

\* A sample without hash_mode: the sketch has counted it in c, and the page has
\* got or kept an item in u, if its estimate is above the threshold.
LEMMA HeldOnce ==
  ASSUME NEW t, Sketched(t), Linked(t), NEW s, Drawn(t, s), Estimated(t, s), Held(t, s), ~t.hash_mode,
         t.total + 1 <= 65535, NEW k \in Keys,
         NEW c, c = cms_update(t, k), NEW x, x = Estimate(c.matrix, k), NEW u, KeysKept(c, u),
         \/ u = c /\ x < Threshold + cms_error(c)
         \/ (Again(c, u, k) \/ Newly(c, u, k)) /\ x >= Threshold + cms_error(c),
         NEW d, d = SampledOnce(s, k)
  PROVE  Held(u, d)
  <1>0. t.len \in Nat /\ t.total \in Nat /\ \A n \in 1 .. t.len : t.items[n].key \in Keys
    BY Sizes DEF Sketched, Tables
  <1>1. d \in [Keys -> Nat] /\ d[k] = s[k] + 1 /\ \A l \in Keys : l # k => d[l] = s[l]
    BY SampledTyped DEF Drawn
  <1>2. s \in [Keys -> Nat]
    BY DEF Drawn
  <1>3. c.items = t.items /\ c.len = t.len /\ c.hash_mode = t.hash_mode
    BY SketchKeeps
  <1>4. /\ Estimated(c, d) /\ c.total = t.total + 1
        /\ \A r \in Rows, j \in Columns :
              /\ t.matrix[r][j] <= c.matrix[r][j]
              /\ j = Column(r, k) => c.matrix[r][j] = t.matrix[r][j] + 1
    BY <1>2, SketchCounts
  <1>5. Sketched(c) /\ c.matrix \in [Rows -> [Columns -> Counts]] /\ t.matrix \in [Rows -> [Columns -> Counts]]
    BY SketchTyped
  <1>6. /\ \E r \in Rows : x = c.matrix[r][Column(r, k)]
        /\ \A r \in Rows : x <= c.matrix[r][Column(r, k)]
    BY <1>5, EstimateIs
  <1>7. \A l \in Keys, r \in Rows : c.matrix[r][Column(r, l)] \in Nat /\ t.matrix[r][Column(r, l)] \in Nat
                                     /\ c.matrix[r][Column(r, l)] <= c.total
                                     /\ t.matrix[r][Column(r, l)] <= c.matrix[r][Column(r, l)]
    BY <1>4, <1>5, Hashed, CountsAreNumbers DEF Estimated
  <1>8. x \in Nat /\ x <= 65535 /\ d[k] <= x
    <2>1. PICK r \in Rows : x = c.matrix[r][Column(r, k)]
      BY <1>6
    <2>2. d[k] <= c.matrix[r][Column(r, k)]
      BY <1>4 DEF Estimated
    <2> QED
      BY <1>0, <1>4, <1>7, <2>1, <2>2
  <1>9. PICK e, f : e = cms_error(t) /\ f = cms_error(c)
    OBVIOUS
  <1>10. e \in Nat /\ f \in Nat /\ e <= f /\ cms_error(u) = f
    <2>1. u.total = c.total
      BY DEF KeysKept
    <2>2. cms_error(u) = cms_error(c)
      BY <1>5, <2>1, ErrorTyped
    <2>3. cms_error(t) \in Nat /\ cms_error(c) \in Nat /\ cms_error(t) <= cms_error(c)
      BY <1>4, ErrorTyped
    <2> QED
      BY <1>9, <2>2, <2>3
  <1>11. Threshold \in Nat \ {0}
    BY Sizes
  <1>12. /\ \A n \in 1 .. t.len : ItemHeld(t, n)
         /\ \A l \in Keys : Misses(t, s, l)
    BY DEF Held, ItemHeld, Misses
  <1>13. u.matrix = c.matrix /\ \A n \in 1 .. t.len : u.items[n].key = t.items[n].key
    BY <1>3 DEF KeysKept
  <1>14. ASSUME NEW n \in 1 .. t.len, u.items[n].count = t.items[n].count
         PROVE  ItemHeld(u, n)
    <2>1. PICK l \in Keys : l = t.items[n].key
      BY <1>0
    <2>2. u.items[n].key = l /\ t.items[n].count >= Threshold
          /\ \A r \in Rows : t.items[n].count <= t.matrix[r][Column(r, l)]
      BY <1>12, <1>13, <2>1 DEF ItemHeld
    <2>3. t.items[n].count \in Nat
      <3>1. n \in 1 .. Size /\ t.items \in [1 .. Size -> Items]
        BY Sizes DEF Sketched, Tables
      <3> QED
        BY <3>1, ItemCounts
    <2>4. \A r \in Rows : t.items[n].count <= c.matrix[r][Column(r, l)]
      BY <1>7, <2>2, <2>3
    <2> QED
      BY <1>13, <1>14, <2>2, <2>4 DEF ItemHeld
  <1>15. ASSUME NEW l \in Keys, l # k, u.len = t.len \/ u.len = t.len + 1,
                \A n \in 1 .. t.len : t.items[n].key # k => u.items[n].count = t.items[n].count
         PROVE  Misses(u, d, l)
    <2> SUFFICES ASSUME d[l] >= Threshold + f
                 PROVE  \E n \in 1 .. u.len : u.items[n].key = l /\ u.items[n].count >= d[l] - f
      BY <1>10 DEF Misses
    <2>1. d[l] = s[l] /\ s[l] \in Nat
      BY <1>1, <1>2, <1>15
    <2>2. s[l] >= Threshold + e
      BY <1>10, <1>11, <2>1
    <2>3. PICK n \in 1 .. t.len : t.items[n].key = l /\ t.items[n].count >= s[l] - e
      BY <1>9, <1>12, <2>2 DEF Misses
    <2>4. t.items[n].count \in Nat
      <3>1. n \in 1 .. Size /\ t.items \in [1 .. Size -> Items]
        BY Sizes DEF Sketched, Tables
      <3> QED
        BY <3>1, ItemCounts
    <2>5. u.items[n].key = l /\ u.items[n].count = t.items[n].count /\ n \in 1 .. u.len
      BY <1>0, <1>13, <1>15, <2>3
    <2>6. u.items[n].count >= d[l] - f
      BY <1>10, <2>1, <2>3, <2>4, <2>5
    <2> QED
      BY <2>5, <2>6
  <1>16. CASE u = c /\ x < Threshold + f
    <2>1. \A n \in 1 .. t.len : u.items[n].count = t.items[n].count
      BY <1>3, <1>16
    <2>2. u.len = t.len
      BY <1>3, <1>16
    <2>3. \A n \in 1 .. u.len : ItemHeld(u, n)
      BY <1>14, <2>1, <2>2
    <2>4. Misses(u, d, k)
      <3>1. d[k] \in Nat
        BY <1>1
      <3>2. ~(d[k] >= Threshold + f)
        BY <1>8, <1>10, <1>11, <1>16, <3>1
      <3> QED
        BY <1>10, <3>2 DEF Misses
    <2>5. \A l \in Keys : Misses(u, d, l)
      BY <1>15, <2>1, <2>2, <2>4
    <2> QED
      BY <2>3, <2>5 DEF Held, ItemHeld, Misses
  <1>17. CASE Again(c, u, k) /\ x >= Threshold + f
    <2>1. u.len = t.len
      BY <1>3, <1>17 DEF Again
    <2>2. PICK m \in 1 .. t.len :
            /\ t.items[m].key = k /\ u.items[m].count = CmsCount(t.items[m].count + 1)
            /\ \A n \in 1 .. t.len : n # m => u.items[n].count = t.items[n].count
      BY <1>3, <1>17 DEF Again
    <2>3. PICK y \in Nat : y = t.items[m].count
      <3>1. m \in 1 .. Size /\ t.items \in [1 .. Size -> Items]
        BY Sizes DEF Sketched, Tables
      <3> QED
        BY <3>1, ItemCounts
    <2>4. y >= Threshold /\ \A r \in Rows : y + 1 <= c.matrix[r][Column(r, k)]
      <3>1. y >= Threshold /\ \A r \in Rows : y <= t.matrix[r][Column(r, k)]
        BY <1>12, <2>2, <2>3 DEF ItemHeld
      <3>2. \A r \in Rows : c.matrix[r][Column(r, k)] = t.matrix[r][Column(r, k)] + 1
        BY <1>4, Hashed
      <3> QED
        BY <1>7, <2>3, <3>1, <3>2
    <2>5. u.items[m].count = y + 1
      <3>1. PICK r \in Rows : x = c.matrix[r][Column(r, k)]
        BY <1>6
      <3>2. y + 1 <= 65535
        BY <1>8, <2>4, <3>1
      <3>3. CmsCount(y + 1) = y + 1
        BY <3>2, CountFits
      <3> QED
        BY <2>2, <2>3, <3>3
    <2>6. ASSUME NEW n \in 1 .. u.len PROVE ItemHeld(u, n)
      <3>1. CASE n = m
        <4>1. u.items[n].key = k /\ u.items[n].count = y + 1
          BY <1>13, <2>1, <2>2, <2>5, <3>1
        <4>2. y + 1 >= Threshold
          BY <1>11, <2>4
        <4> QED
          BY <1>13, <2>4, <4>1, <4>2 DEF ItemHeld
      <3>2. CASE n # m
        BY <1>14, <2>1, <2>2, <3>2
      <3> QED
        BY <3>1, <3>2
    <2>7. Misses(u, d, k)
      <3> SUFFICES ASSUME d[k] >= Threshold + f
                   PROVE  \E n \in 1 .. u.len : u.items[n].key = k /\ u.items[n].count >= d[k] - f
        BY <1>10 DEF Misses
      <3>1. s[k] \in Nat /\ d[k] = s[k] + 1
        BY <1>1, <1>2
      <3>2. y + 1 >= d[k] - f
        <4>1. CASE s[k] >= Threshold + e
          <5>1. PICK n \in 1 .. t.len : t.items[n].key = k /\ t.items[n].count >= s[k] - e
            BY <1>9, <1>12, <4>1 DEF Misses
          <5>2. n = m
            BY <2>2, <5>1 DEF Linked
          <5> QED
            BY <1>10, <2>3, <3>1, <5>1, <5>2
        <4>2. CASE ~(s[k] >= Threshold + e)
          BY <1>10, <1>11, <2>4, <3>1, <4>2
        <4> QED
          BY <4>1, <4>2
      <3>3. u.items[m].key = k /\ m \in 1 .. u.len
        BY <1>13, <2>1, <2>2
      <3> QED
        BY <2>5, <3>2, <3>3
    <2>8. \A l \in Keys : Misses(u, d, l)
      <3>1. \A n \in 1 .. t.len : t.items[n].key # k => u.items[n].count = t.items[n].count
        BY <2>2
      <3> QED
        BY <1>15, <2>1, <2>7, <3>1
    <2> QED
      BY <2>6, <2>8 DEF Held, ItemHeld, Misses
  <1>18. CASE Newly(c, u, k) /\ x >= Threshold + f
    <2>1. PICK m : m = t.len + 1
      OBVIOUS
    <2>2. /\ \A n \in 1 .. t.len : t.items[n].key # k /\ u.items[n].count = t.items[n].count
          /\ u.len = m /\ u.items[m].key = k /\ u.items[m].count = CmsCount(Threshold)
      BY <1>3, <1>18, <2>1 DEF Newly
    <2>3. u.items[m].count = Threshold
      <3>1. Threshold <= 65535
        BY <1>8, <1>10, <1>11, <1>18
      <3>2. CmsCount(Threshold) = Threshold
        BY <1>11, <3>1, CountFits
      <3> QED
        BY <2>2, <3>2
    <2>4. \A r \in Rows : Threshold <= c.matrix[r][Column(r, k)]
      BY <1>6, <1>7, <1>8, <1>10, <1>11, <1>18
    <2>5. ASSUME NEW n \in 1 .. u.len PROVE ItemHeld(u, n)
      <3>1. CASE n = m
        BY <1>11, <1>13, <2>2, <2>3, <2>4, <3>1 DEF ItemHeld
      <3>2. CASE n # m
        <4>1. n \in 1 .. t.len
          BY <1>0, <2>1, <2>2, <3>2
        <4> QED
          BY <1>14, <2>2, <4>1
      <3> QED
        BY <3>1, <3>2
    <2>6. Misses(u, d, k)
      <3> SUFFICES ASSUME d[k] >= Threshold + f
                   PROVE  \E n \in 1 .. u.len : u.items[n].key = k /\ u.items[n].count >= d[k] - f
        BY <1>10 DEF Misses
      <3>1. s[k] \in Nat /\ d[k] = s[k] + 1
        BY <1>1, <1>2
      <3>2. ~(s[k] >= Threshold + e)
        BY <1>9, <1>12, <2>2 DEF Misses
      <3>3. Threshold >= d[k] - f
        BY <1>10, <1>11, <3>1, <3>2
      <3>4. m \in 1 .. u.len
        BY <1>0, <2>1, <2>2
      <3> QED
        BY <2>2, <2>3, <3>3, <3>4
    <2>7. \A l \in Keys : Misses(u, d, l)
      BY <1>15, <2>1, <2>2, <2>6
    <2> QED
      BY <2>5, <2>7 DEF Held, ItemHeld, Misses
  <1> QED
    BY <1>9, <1>16, <1>17, <1>18

\* A sample is counted in the total.
LEMMA TotalCounted ==
  ASSUME NEW t, Sketched(t), Linked(t), t.len < Size, NEW k \in Keys
  PROVE  cmsk_update(t, k).total = t.total + 1
  <1>1. PICK a, c : a = [t EXCEPT !.total = @ + 1] /\ c = cms_update(t, k)
    OBVIOUS
  <1>2. t \in Tables
    BY DEF Sketched
  <1>3. /\ a.total = t.total + 1 /\ a.items = t.items /\ a.len = t.len /\ a.hash_mode = t.hash_mode
        /\ a.buckets = t.buckets
    BY <1>1, <1>2 DEF Tables
  <1>4. Sketched(a)
    BY <1>1, SketchCounted, Zenon
  <1>5. Sketched(c) /\ c.items = t.items /\ c.len = t.len /\ c.hash_mode = t.hash_mode /\ c.buckets = t.buckets
    BY <1>1, SketchTyped, SketchKeeps
  <1>6. c.total = t.total + 1
    <2> DEFINE counted == [r \in Rows |-> [j \in Columns |->
                             CmsCount(t.matrix[r][j] + IF j = Column(r, k) THEN 1 ELSE 0)]]
               more == t.total + 1
    <2>1. c = [t EXCEPT !.total = more, !.matrix = counted]
      BY <1>1 DEF cms_update
    <2> HIDE DEF counted, more
    <2>2. c.total = more
      BY <1>2, <2>1 DEF Tables
    <2> QED
      BY <2>2 DEF more
  <1>7. Linked(a) /\ Linked(c)
    <2>1. \A n \in 1 .. t.len : a.items[n].key = t.items[n].key /\ a.items[n].next = t.items[n].next
      BY <1>3
    <2>2. \A n \in 1 .. t.len : c.items[n].key = t.items[n].key /\ c.items[n].next = t.items[n].next
      BY <1>5
    <2>3. Linked(a)
      <3> HIDE <1>1
      <3> QED
        BY <1>3, <2>1, SameLinks
    <2>4. Linked(c)
      BY <1>5, <2>2, SameLinks
    <2> QED
      BY <2>3, <2>4
  <1>8. achash_update(a, k).total = a.total /\ achash_update(c, k).total = c.total
    BY <1>3, <1>4, <1>5, <1>7, HashUpdated DEF KeysKept
  <1>9. cmsk_update(t, k) \in {achash_update(a, k), achash_update(c, k), c}
    BY <1>1 DEF cmsk_update
  <1> QED
    BY <1>3, <1>6, <1>8, <1>9

Totalled(t) == [t EXCEPT !.total = @ + 1]

\* With hash_mode a sample is counted in the total alone, and in an item.
LEMMA TotalledTyped ==
  ASSUME NEW t, Sketched(t), NEW a, a = Totalled(t)
  PROVE  /\ a.total = t.total + 1 /\ a.items = t.items /\ a.len = t.len /\ a.hash_mode = t.hash_mode
         /\ a.buckets = t.buckets /\ Sketched(a)
  <1>1. t \in Tables /\ t.total \in Nat
    BY DEF Sketched, Tables
  <1>2. PICK total : total = t.total + 1
    OBVIOUS
  <1>3. a = [t EXCEPT !.total = total]
    BY <1>2 DEF Totalled
  <1>4. /\ a.total = total /\ a.items = t.items /\ a.len = t.len /\ a.hash_mode = t.hash_mode
        /\ a.buckets = t.buckets /\ a \in Tables
    BY <1>1, <1>2, <1>3 DEF Tables
  <1>5. Sketched(a)
    BY <1>4 DEF Sketched
  <1> QED
    BY <1>2, <1>4, <1>5

\* A sample keeps the counts right, as long as they fit.
LEMMA RightOnce ==
  ASSUME NEW t, Sketched(t), t.len < Size, NEW s, CountsRight(t, s), NEW k \in Keys,
         Fits(t.total + 1), NEW v, v = cmsk_update(t, k), NEW d, d = SampledOnce(s, k)
  PROVE  CountsRight(v, d)
  <1>0. t \in Tables /\ t.len \in Nat
    BY Sizes DEF Sketched, Tables
  <1>1. Linked(t) /\ Drawn(t, s)
    BY DEF CountsRight
  <1>2. t.total + 1 <= 65535
    BY DEF Fits
  <1>3. ASSUME NEW a, a.items = t.items, a.len = t.len, a.hash_mode = t.hash_mode, a.buckets = t.buckets,
               Sketched(a), NEW u, u = achash_update(a, k)
        PROVE  /\ KeysKept(a, u) /\ Linked(a) /\ Linked(u) /\ (Again(a, u, k) \/ Newly(a, u, k))
               /\ u.hash_mode = t.hash_mode /\ u.total = a.total
               /\ u.len = t.len \/ (u.len = t.len + 1 /\ u.items[t.len + 1].key = k)
               /\ \A n \in 1 .. t.len : u.items[n].key = t.items[n].key
    <2>1. \A n \in 1 .. t.len : a.items[n].key = t.items[n].key /\ a.items[n].next = t.items[n].next
      BY <1>3
    <2>2. Linked(a)
      BY <1>1, <1>3, <2>1, SameLinks
    <2>3. KeysKept(a, u) /\ Linked(u) /\ (Again(a, u, k) \/ Newly(a, u, k))
      BY <1>3, <2>2, HashUpdated
    <2>4. u.len = t.len \/ (u.len = t.len + 1 /\ u.items[t.len + 1].key = k)
      BY <1>3, <2>3 DEF Again, Newly
    <2> QED
      BY <1>3, <2>2, <2>3, <2>4 DEF KeysKept
  <1>4. CASE t.hash_mode
    <2>1. PICK a : a = Totalled(t)
      BY Zenon
    <2>2. /\ a.total = t.total + 1 /\ a.items = t.items /\ a.len = t.len /\ a.hash_mode = t.hash_mode
          /\ a.buckets = t.buckets /\ Sketched(a)
      BY <2>1, TotalledTyped
    <2>3. Sketched(a)
      BY <2>2
    <2>4. v = achash_update(a, k)
      BY <1>4, <2>1 DEF cmsk_update, Totalled
    <2>5. /\ KeysKept(a, v) /\ Linked(v) /\ (Again(a, v, k) \/ Newly(a, v, k))
          /\ v.hash_mode = t.hash_mode /\ v.total = a.total
          /\ v.len = t.len \/ (v.len = t.len + 1 /\ v.items[t.len + 1].key = k)
          /\ \A n \in 1 .. t.len : v.items[n].key = t.items[n].key
      BY <1>3, <2>2, <2>3, <2>4
    <2>6. Drawn(v, d)
      <3>1. v.total = t.total + 1
        BY <2>2, <2>5
      <3> QED
        BY <1>1, <2>5, <3>1, DrawnOnce
    <2>8. Exact(v, d)
      <3>1. Again(t, v, k) \/ Newly(t, v, k)
        BY <2>2, <2>5 DEF Again, Newly
      <3>2. Exact(t, s)
        BY <1>4 DEF CountsRight
      <3> QED
        BY <1>1, <1>2, <1>4, <2>5, <3>1, <3>2, ExactOnce
    <2> QED
      BY <1>4, <2>5, <2>6, <2>8 DEF CountsRight
  <1>5. CASE ~t.hash_mode
    <2>1. PICK c : c = cms_update(t, k)
      OBVIOUS
    <2>2. PICK x : x = Estimate(c.matrix, k)
      OBVIOUS
    <2>3. Sketched(c) /\ c.items = t.items /\ c.len = t.len /\ c.hash_mode = t.hash_mode /\ c.buckets = t.buckets
      BY <2>1, SketchTyped, SketchKeeps
    <2>4. Estimated(t, s) /\ Held(t, s) /\ s \in [Keys -> Nat]
      BY <1>5 DEF CountsRight, Drawn
    <2>5. Estimated(c, d) /\ c.total = t.total + 1
      BY <1>2, <2>1, <2>4, SketchCounts
    <2>6. v = IF x >= Threshold + cms_error(c) THEN achash_update(c, k) ELSE c
      BY <1>5, <2>1, <2>2 DEF cmsk_update
    <2>7. CASE x >= Threshold + cms_error(c)
      <3>1. v = achash_update(c, k)
        BY <2>6, <2>7
      <3>2. /\ KeysKept(c, v) /\ Linked(v) /\ (Again(c, v, k) \/ Newly(c, v, k))
            /\ v.hash_mode = t.hash_mode /\ v.total = c.total
            /\ v.len = t.len \/ (v.len = t.len + 1 /\ v.items[t.len + 1].key = k)
            /\ \A n \in 1 .. t.len : v.items[n].key = t.items[n].key
        BY <1>3, <2>3, <3>1
      <3>3. Drawn(v, d)
        <4>1. v.total = t.total + 1
          BY <2>5, <3>2
        <4> QED
          BY <1>1, <3>2, <4>1, DrawnOnce
      <3>4. Held(v, d)
        BY <1>1, <1>2, <1>5, <2>1, <2>2, <2>4, <2>7, <3>2, HeldOnce
      <3>5. Estimated(v, d)
        BY <2>5, <3>2 DEF Estimated, KeysKept
      <3> QED
        BY <1>5, <3>2, <3>3, <3>4, <3>5 DEF CountsRight
    <2>8. CASE ~(x >= Threshold + cms_error(c))
      <3>1. v = c
        BY <2>6, <2>8
      <3>2. KeysKept(c, c)
        BY DEF KeysKept
      <3>3. x < Threshold + cms_error(c)
        <4>1. x \in Nat
          <5>1. c.matrix \in [Rows -> [Columns -> Counts]]
            BY <2>3, MatrixTyped
          <5>2. PICK r \in Rows : x = c.matrix[r][Column(r, k)]
            BY <2>2, <5>1, EstimateIs
          <5> QED
            BY <5>1, <5>2, Hashed, CountsAreNumbers
        <4>2. cms_error(c) \in Nat
          BY <2>3, ErrorTyped
        <4> QED
          BY <2>8, <4>1, <4>2, Sizes
      <3>4. Held(c, d)
        BY <1>1, <1>2, <1>5, <2>1, <2>2, <2>4, <3>2, <3>3, HeldOnce
      <3>5. \A n \in 1 .. t.len : c.items[n].key = t.items[n].key /\ c.items[n].next = t.items[n].next
        BY <2>3
      <3>6. Linked(c)
        BY <1>1, <2>3, <3>5, SameLinks
      <3>7. Drawn(c, d)
        BY <1>1, <2>3, <2>5, <3>5, DrawnOnce
      <3> QED
        BY <1>5, <2>3, <2>5, <3>1, <3>4, <3>6, <3>7 DEF CountsRight
    <2> QED
      BY <2>7, <2>8
  <1> QED
    BY <1>4, <1>5

-----------------------------------------------------------------------------
(* What is reported of the samples.                                        *)

ReportsOf(t, k) == {n \in 1 .. t.len : t.items[n].key = k}

\* What a sorted table says of the samples.
Reports(t, s) ==
  \A k \in Keys :
    /\ s[k] >= Threshold + 2 * cms_error(t) => ReportsOf(t, k) # {}
    /\ Cardinality(ReportsOf(t, k)) <= 1
    /\ \A n \in ReportsOf(t, k) :
         /\ s[k] > 0
         /\ t.hash_mode => t.items[n].count = s[k]
         /\ (\E r \in Rows : AloneIn(s, r, k)) => t.items[n].count <= s[k]

\* An item speaks of its page.
Speaks(t, s, n, k) ==
  /\ t.items[n].count \in Nat \ {0} /\ s[k] > 0
  /\ t.hash_mode => t.items[n].count = s[k]
  /\ (\E r \in Rows : AloneIn(s, r, k)) => t.items[n].count <= s[k]

\* What an item of a table tells.
LEMMA ItemSpeaks ==
  ASSUME NEW t, Sketched(t), NEW s, CountsRight(t, s), NEW n \in 1 .. t.len, NEW k \in Keys, t.items[n].key = k
  PROVE  Speaks(t, s, n, k)
  <1>0. n \in 1 .. Size /\ t.items \in [1 .. Size -> Items]
    BY Sizes DEF Sketched, Tables
  <1>1. t.items[n].count \in Nat
    BY <1>0, ItemCounts
  <1>2. s[k] > 0 /\ s[k] \in Nat
    BY DEF CountsRight, Drawn
  <1>3. CASE t.hash_mode
    <2>1. t.items[n].count = s[k]
      BY <1>3 DEF CountsRight, Exact
    <2> QED
      BY <1>1, <1>2, <2>1 DEF Speaks
  <1>4. CASE ~t.hash_mode
    <2>1. t.items[n].count >= Threshold /\ \A r \in Rows : t.items[n].count <= t.matrix[r][Column(r, k)]
      BY <1>4 DEF CountsRight, Held
    <2>2. \A r \in Rows : AloneIn(s, r, k) => t.matrix[r][Column(r, k)] = s[k]
      BY <1>4 DEF CountsRight, Estimated
    <2>3. (\E r \in Rows : AloneIn(s, r, k)) => t.items[n].count <= s[k]
      BY <2>1, <2>2
    <2>4. t.items[n].count # 0
      BY <1>1, <2>1, Sizes
    <2> QED
      BY <1>1, <1>2, <1>4, <2>3, <2>4 DEF Speaks
  <1> QED
    BY <1>3, <1>4

\* A page sampled often has an item above the cut.
LEMMA OftenSampled ==
  ASSUME NEW t, Sketched(t), NEW s, CountsRight(t, s), NEW k \in Keys,
         s[k] >= Threshold + 2 * cms_error(t)
  PROVE  \E n \in 1 .. t.len : t.items[n].key = k /\ t.items[n].count >= Cut(t)
  <1>0. cms_error(t) \in Nat /\ Threshold \in Nat \ {0} /\ s[k] \in Nat
    BY ErrorTyped, Sizes DEF CountsRight, Drawn
  <1>1. CASE t.hash_mode
    <2>1. s[k] > 0 /\ s[k] >= Threshold
      BY <1>0
    <2>2. PICK n \in 1 .. t.len : t.items[n].key = k
      BY <1>1, <2>1 DEF CountsRight, Exact
    <2>3. t.items[n].count = s[k]
      BY <1>1, <2>2 DEF CountsRight, Exact
    <2>4. Cut(t) = Threshold
      BY <1>0, <1>1 DEF Cut
    <2> QED
      BY <2>1, <2>2, <2>3, <2>4
  <1>2. CASE ~t.hash_mode
    <2>1. PICK e \in Nat : e = cms_error(t)
      BY <1>0
    <2>2. s[k] >= Threshold + e
      BY <1>0, <2>1
    <2>3. PICK n \in 1 .. t.len : t.items[n].key = k /\ t.items[n].count >= s[k] - e
      BY <1>2, <2>1, <2>2 DEF CountsRight, Held
    <2>4. t.items[n].count \in Nat
      <3>1. n \in 1 .. Size /\ t.items \in [1 .. Size -> Items]
        BY Sizes DEF Sketched, Tables
      <3> QED
        BY <3>1, ItemCounts
    <2>5. Cut(t) = Threshold + e
      BY <1>2, <2>1 DEF Cut
    <2>6. t.items[n].count >= Threshold + e
      BY <1>0, <2>1, <2>3, <2>4
    <2> QED
      BY <2>3, <2>5, <2>6
  <1> QED
    BY <1>1, <1>2

-----------------------------------------------------------------------------
\* What sorting makes of items: the permutation.
Permutes(q, from, to) ==
  /\ q \in [1 .. Size -> 1 .. Size]
  /\ \A m, n \in 1 .. Size : q[m] = q[n] => m = n
  /\ \A i \in 1 .. Size : \E n \in 1 .. Size : q[n] = i
  /\ \A n \in 1 .. Size : to[n].key = from[q[n]].key /\ to[n].count = from[q[n]].count

\* A map of places whose image is as large as the places is a permutation.
LEMMA Permutation ==
  ASSUME NEW q \in [1 .. Size -> 1 .. Size], Cardinality({q[n] : n \in 1 .. Size}) = Size
  PROVE  /\ \A m, n \in 1 .. Size : q[m] = q[n] => m = n
         /\ \A i \in 1 .. Size : \E n \in 1 .. Size : q[n] = i
  <1>1. PICK S : S = 1 .. Size
    OBVIOUS
  <1>2. IsFiniteSet(S) /\ Cardinality(S) = Size
    BY <1>1, FS_Interval, Sizes
  <1>3. PICK R : R = {q[n] : n \in 1 .. Size}
    OBVIOUS
  <1>4. R \in SUBSET S /\ Cardinality(R) = Size
    BY <1>1, <1>3
  <1>5. R = S
    BY <1>2, <1>4, FS_Subset
  <1>6. q \in [S -> S] /\ \A i \in S : \E n \in S : q[n] = i
    BY <1>1, <1>3, <1>5
  <1>7. q \in Surjection(S, S)
    BY <1>6 DEF Surjection
  <1>8. q \in Injection(S, S)
    BY <1>2, <1>7, FS_Surjection
  <1>9. \A m, n \in S : q[m] = q[n] => m = n
    BY <1>6, <1>8 DEF Injection, IsInjective
  <1> QED
    BY <1>1, <1>6, <1>9

\* Sorting permutes the items and puts those that count more first.
LEMMA SortedPermutes ==
  ASSUME NEW t, Sketched(t), NEW items \in Sorted(t.items)
  PROVE  \E q : Permutes(q, t.items, items)
  <1>0. t.items \in [1 .. Size -> Items]
    BY DEF Sketched, Tables
  <1>1. PICK q \in [1 .. Size -> 1 .. Size] :
          /\ Cardinality({q[n] : n \in 1 .. Size}) = Size
          /\ items = [n \in 1 .. Size |-> [t.items[q[n]] EXCEPT !.next = 0]]
    BY DEF Sorted
  <1>2. ASSUME NEW n \in 1 .. Size
        PROVE  items[n].count = t.items[q[n]].count /\ items[n].key = t.items[q[n]].key
    <2>1. PICK item : item = t.items[q[n]]
      OBVIOUS
    <2>2. item \in Items
      BY <1>0, <2>1
    <2>3. items[n] = [item EXCEPT !.next = 0]
      BY <1>1, <2>1
    <2>4. items[n].count = item.count /\ items[n].key = item.key
      BY <2>2, <2>3 DEF Items
    <2> QED
      BY <2>1, <2>4
  <1>3. Permutes(q, t.items, items)
    BY <1>1, <1>2, Permutation DEF Permutes
  <1> QED
    BY <1>3

\* How many numbers there are up to n.
LEMMA UpTo ==
  ASSUME NEW n \in Nat
  PROVE  IsFiniteSet(1 .. n) /\ Cardinality(1 .. n) = n
  BY FS_Interval

\* Without items left over, what counts is sorted to the front.
LEMMA CountingFirst ==
  ASSUME NEW len \in 0 .. Size, NEW from \in [1 .. Size -> Items], NEW to \in [1 .. Size -> Items],
         \A i \in 1 .. Size : i > len => from[i].count = 0,
         NEW q, Permutes(q, from, to), Falling(to), NEW n \in 1 .. Size, to[n].count > 0
  PROVE  n <= len
  <1> SUFFICES ASSUME n > len PROVE FALSE
    BY Sizes
  <1>0. len \in Nat /\ Size \in Nat
    BY Sizes
  <1>1. ASSUME NEW m \in 1 .. n PROVE q[m] \in 1 .. len
    <2>0. m \in 1 .. Size
      BY <1>0
    <2>1. to[m].count \in Nat /\ to[n].count \in Nat
      BY <2>0, ItemCounts
    <2>2. to[m].count > 0
      BY <2>0, <2>1 DEF Falling
    <2>3. from[q[m]].count > 0 /\ q[m] \in 1 .. Size
      BY <2>0, <2>2 DEF Permutes
    <2> QED
      BY <1>0, <2>3
  <1> DEFINE f == [m \in 1 .. n |-> q[m]]
  <1>2. f \in [1 .. n -> 1 .. len] /\ \A m \in 1 .. n : f[m] = q[m]
    BY <1>1
  <1> HIDE DEF f
  <1>3. PICK S, T : S = 1 .. n /\ T = 1 .. len
    OBVIOUS
  <1>4. IsFiniteSet(S) /\ IsFiniteSet(T) /\ Cardinality(T) < Cardinality(S)
    <2>1. IsFiniteSet(1 .. n) /\ Cardinality(1 .. n) = n
      BY <1>0, UpTo
    <2>2. IsFiniteSet(1 .. len) /\ Cardinality(1 .. len) = len
      BY <1>0, UpTo
    <2>3. len < n
      BY <1>0
    <2> QED
      BY <1>3, <2>1, <2>2, <2>3
  <1>5. f \in [S -> T]
    BY <1>2, <1>3
  <1>6. \E x, y \in S : x # y /\ f[x] = f[y]
    BY <1>4, <1>5, FS_PigeonHole
  <1>7. PICK x \in S, y \in S : x # y /\ f[x] = f[y]
    BY <1>6
  <1>8. x \in 1 .. Size /\ y \in 1 .. Size /\ q[x] = q[y]
    BY <1>0, <1>2, <1>3, <1>7
  <1> QED
    BY <1>7, <1>8 DEF Permutes

\* The binary search leaves out no item above the count.
LEMMA SearchesAll ==
  ASSUME NEW items \in [1 .. Size -> Items], Falling(items), NEW end \in 0 .. Size - 1, NEW c \in Nat,
         NEW n \in 1 .. end, items[n].count > c
  PROVE  n <= achash_bsearch(items, end, c)
  <1> DEFINE above == {m \in 1 .. end : items[m].count > c}
  <1>1. achash_bsearch(items, end, c) = Cardinality(above)
    BY DEF achash_bsearch
  <1>2. end \in Nat /\ Size \in Nat /\ n \in Nat
    BY Sizes
  <1>3. ASSUME NEW m \in 1 .. n PROVE m \in above
    <2>1. m \in 1 .. end /\ m \in 1 .. Size /\ n \in 1 .. Size
      BY <1>2
    <2>2. items[m].count \in Nat /\ items[n].count \in Nat
      BY <2>1, ItemCounts
    <2>3. items[m].count > c
      BY <2>1, <2>2 DEF Falling
    <2> QED
      BY <2>1, <2>3
  <1>4. PICK A, B, C : A = above /\ B = 1 .. n /\ C = 1 .. end
    OBVIOUS
  <1>5. B \in SUBSET A /\ A \in SUBSET C
    BY <1>3, <1>4
  <1>6. IsFiniteSet(C) /\ Cardinality(B) = n
    BY <1>2, <1>4, FS_Interval
  <1>7. IsFiniteSet(A)
    BY <1>5, <1>6, FS_Subset
  <1>8. Cardinality(B) <= Cardinality(A)
    BY <1>5, <1>7, FS_Subset
  <1> QED
    BY <1>1, <1>4, <1>6, <1>8

\* A set of which no two elements differ has one at most.
LEMMA OneAtMost ==
  ASSUME NEW S, \A x, y \in S : x = y
  PROVE  Cardinality(S) <= 1
  <1>1. CASE S = {}
    BY <1>1, FS_EmptySet
  <1>2. CASE S # {}
    <2>1. PICK x \in S : TRUE
      BY <1>2
    <2>2. S = {x}
      BY <2>1
    <2>3. Cardinality({x}) = 1
      BY FS_Singleton
    <2> QED
      BY <2>2, <2>3
  <1> QED
    BY <1>1, <1>2

\* A count is no more than the number.
LEMMA CountAtMost ==
  ASSUME NEW n \in Nat
  PROVE  CmsCount(n) \in Nat /\ CmsCount(n) <= n
  <1>1. PICK m : m = 65536
    OBVIOUS
  <1>2. m \in Nat \ {0}
    BY <1>1
  <1>3. n % m \in Nat /\ n % m <= n
    BY <1>2
  <1> QED
    BY <1>1, <1>3 DEF CmsCount

\* No items are left over from earlier intervals.
NoneLeft(t) == \A i \in 1 .. Size : i > t.len => t.items[i].count = 0

\* What the cut of a sorted table keeps: only what counts, and all that count as
\* much as the cut.
LEMMA CutKeeps ==
  ASSUME NEW t, Sketched(t), NoneLeft(t), t.len # 0, NEW items \in [1 .. Size -> Items], Falling(items),
         NEW q, Permutes(q, t.items, items),
         NEW len, len = IF items[t.len].count >= Cut(t) THEN t.len
                        ELSE achash_bsearch(items, t.len - 1, CmsCount(Cut(t) - 1))
  PROVE  /\ len \in 0 .. t.len
         /\ \A n \in 1 .. len : items[n].count > 0
         /\ \A n \in 1 .. Size : items[n].count >= Cut(t) => n \in 1 .. len
  <1>0. t.len \in 1 .. Size /\ t.len \in Nat /\ Size \in Nat /\ t.items \in [1 .. Size -> Items]
    BY Sizes DEF Sketched, Tables
  <1>1. Cut(t) \in Nat \ {0}
    BY CutPositive
  <1>2. PICK c, end, last : c = CmsCount(Cut(t) - 1) /\ end = t.len - 1 /\ last = t.len
    OBVIOUS
  <1>3. c \in Nat /\ c < Cut(t)
    <2>1. PICK x \in Nat : x = Cut(t) - 1
      BY <1>1
    <2>2. CmsCount(x) \in Nat /\ CmsCount(x) <= x
      BY CountAtMost
    <2> QED
      BY <1>1, <1>2, <2>1, <2>2
  <1>4. end \in 0 .. Size - 1 /\ last \in 1 .. Size /\ items[last].count \in Nat
    BY <1>0, <1>2, ItemCounts
  <1>5. ASSUME NEW n \in 1 .. Size, items[n].count >= Cut(t)
        PROVE  n <= t.len /\ items[n].count > c
    <2>0. items[n].count \in Nat
      BY ItemCounts
    <2>1. items[n].count \in Nat /\ items[n].count > 0
      BY <1>1, <1>5, <2>0
    <2>2. t.len \in 0 .. Size /\ \A i \in 1 .. Size : i > t.len => t.items[i].count = 0
      BY <1>0 DEF NoneLeft
    <2>3. n <= t.len
      BY <1>0, <2>1, <2>2, CountingFirst
    <2> QED
      BY <1>1, <1>3, <1>5, <2>1, <2>3
  <1>6. CASE items[last].count >= Cut(t)
    <2>1. len = t.len
      BY <1>2, <1>6
    <2>2. ASSUME NEW n \in 1 .. len PROVE items[n].count > 0
      <3>1. n \in 1 .. Size /\ n <= last
        BY <1>0, <1>2, <2>1
      <3>2. items[n].count \in Nat
        BY <3>1, ItemCounts
      <3>3. items[n].count >= items[last].count
        BY <1>4, <3>1, <3>2 DEF Falling
      <3> QED
        BY <1>1, <1>4, <1>6, <3>2, <3>3
    <2>3. \A n \in 1 .. Size : items[n].count >= Cut(t) => n \in 1 .. len
      BY <1>0, <1>5, <2>1
    <2> QED
      BY <1>0, <2>1, <2>2, <2>3
  <1>7. CASE ~(items[last].count >= Cut(t))
    <2>1. len = achash_bsearch(items, end, c)
      BY <1>2, <1>7
    <2>2. len \in 0 .. end /\ \A n \in 1 .. len : items[n].count > c
      BY <1>3, <1>4, <2>1, SearchesFirst
    <2>3. \A n \in 1 .. len : items[n].count > 0
      <3> SUFFICES ASSUME NEW n \in 1 .. len PROVE items[n].count > 0
        OBVIOUS
      <3>1. items[n].count > c /\ items[n].count \in Nat
        BY <1>0, <1>2, <1>4, <2>2, ItemCounts
      <3> QED
        BY <1>3, <3>1
    <2>4. ASSUME NEW n \in 1 .. Size, items[n].count >= Cut(t) PROVE n \in 1 .. len
      <3>1. n <= t.len /\ items[n].count > c /\ n # last
        BY <1>5, <1>7, <2>4
      <3>2. n \in 1 .. end
        BY <1>0, <1>2, <3>1
      <3>3. n <= len
        BY <1>3, <1>4, <2>1, <3>1, <3>2, SearchesAll
      <3>4. len \in Nat
        BY <1>4, <2>2
      <3> QED
        BY <3>3, <3>4
    <2>5. len \in 0 .. t.len
      BY <1>0, <1>2, <2>2
    <2> QED
      BY <2>3, <2>4, <2>5
  <1> QED
    BY <1>6, <1>7

\* cmsk_sort() reports what was sampled often, and nothing else.
LEMMA TableReports ==
  ASSUME NEW t, Sketched(t), NEW s, CountsRight(t, s), NoneLeft(t), NEW u \in cmsk_sort(t)
  PROVE  Reports(u, s)
  <1>0. t \in Tables /\ t.len \in 0 .. Size /\ t.len \in Nat
    BY Sizes DEF Sketched, Tables
  <1>1. CASE t.len = 0
    <2>1. u = t
      BY <1>1 DEF cmsk_sort
    <2>2. \A k \in Keys : ReportsOf(u, k) = {}
      BY <1>1, <2>1 DEF ReportsOf
    <2>3. \A k \in Keys : ~(s[k] >= Threshold + 2 * cms_error(t))
      BY <1>1, OftenSampled
    <2>4. Cardinality({}) = 0
      BY FS_EmptySet
    <2> QED
      BY <2>1, <2>2, <2>3, <2>4 DEF Reports
  <1>2. CASE t.len # 0
    <2>1. PICK items \in Sorted(t.items) :
            u = [t EXCEPT !.items = items,
                          !.len = IF items[t.len].count >= Cut(t) THEN t.len
                                  ELSE achash_bsearch(items, t.len - 1, CmsCount(Cut(t) - 1))]
      BY <1>2 DEF cmsk_sort
    <2>2. items \in [1 .. Size -> Items] /\ Falling(items)
      BY SortedItems
    <2>3. PICK q : Permutes(q, t.items, items)
      BY SortedPermutes
    <2>4. PICK len : len = IF items[t.len].count >= Cut(t) THEN t.len
                           ELSE achash_bsearch(items, t.len - 1, CmsCount(Cut(t) - 1))
      OBVIOUS
    <2>5. u = [t EXCEPT !.items = items, !.len = len]
      BY <2>1, <2>4
    <2>6. u.len = len /\ u.items = items /\ u.total = t.total /\ u.hash_mode = t.hash_mode
      BY <1>0, <2>5 DEF Tables
    <2>7. /\ len \in 0 .. t.len
          /\ \A n \in 1 .. len : items[n].count > 0
          /\ \A n \in 1 .. Size : items[n].count >= Cut(t) => n \in 1 .. len
      BY <1>2, <2>2, <2>3, <2>4, CutKeeps
    <2>8. cms_error(u) = cms_error(t)
      BY <2>6, ErrorTyped
    <2>9. ASSUME NEW n \in 1 .. len
          PROVE  n \in 1 .. Size /\ q[n] \in 1 .. t.len /\ items[n].key = t.items[q[n]].key
                 /\ items[n].count = t.items[q[n]].count
      <3>1. n \in 1 .. Size /\ Size \in Nat
        BY <1>0, <2>7, Sizes
      <3>2. q[n] \in 1 .. Size /\ items[n].key = t.items[q[n]].key /\ items[n].count = t.items[q[n]].count
        BY <2>3, <3>1 DEF Permutes
      <3>3. ~(q[n] > t.len)
        <4>1. items[n].count > 0
          BY <2>7
        <4> QED
          BY <3>2, <4>1 DEF NoneLeft
      <3> QED
        BY <1>0, <3>1, <3>2, <3>3
    <2>10. ASSUME NEW k \in Keys, s[k] >= Threshold + 2 * cms_error(u)
           PROVE  ReportsOf(u, k) # {}
      <3>1. PICK i \in 1 .. t.len : t.items[i].key = k /\ t.items[i].count >= Cut(t)
        BY <2>8, <2>10, OftenSampled
      <3>2. i \in 1 .. Size
        BY <1>0, Sizes
      <3>3. PICK n \in 1 .. Size : q[n] = i
        BY <2>3, <3>2 DEF Permutes
      <3>4. items[n].key = k /\ items[n].count >= Cut(t)
        BY <2>3, <3>1, <3>3 DEF Permutes
      <3>5. n \in 1 .. len
        BY <2>7, <3>4
      <3> QED
        BY <2>6, <3>4, <3>5 DEF ReportsOf
    <2>11. ASSUME NEW k \in Keys PROVE Cardinality(ReportsOf(u, k)) <= 1
      <3>1. ASSUME NEW x \in ReportsOf(u, k), NEW y \in ReportsOf(u, k) PROVE x = y
        <4>1. x \in 1 .. len /\ y \in 1 .. len /\ items[x].key = items[y].key
          BY <2>6 DEF ReportsOf
        <4>2. q[x] \in 1 .. t.len /\ q[y] \in 1 .. t.len /\ t.items[q[x]].key = t.items[q[y]].key
          BY <2>9, <4>1
        <4>3. q[x] = q[y]
          BY <4>2 DEF CountsRight, Linked
        <4>4. x \in 1 .. Size /\ y \in 1 .. Size
          BY <2>9, <4>1
        <4> QED
          BY <2>3, <4>3, <4>4 DEF Permutes
      <3> QED
        BY <3>1, OneAtMost
    <2>12. ASSUME NEW k \in Keys, NEW n \in ReportsOf(u, k)
           PROVE  /\ s[k] > 0
                  /\ u.hash_mode => u.items[n].count = s[k]
                  /\ (\E r \in Rows : AloneIn(s, r, k)) => u.items[n].count <= s[k]
      <3>1. n \in 1 .. len /\ items[n].key = k
        BY <2>6 DEF ReportsOf
      <3>2. PICK i \in 1 .. t.len : i = q[n] /\ t.items[i].key = k /\ items[n].count = t.items[i].count
        BY <2>9, <3>1
      <3>3. Speaks(t, s, i, k)
        BY <3>2, ItemSpeaks
      <3> QED
        BY <2>6, <3>2, <3>3 DEF Speaks
    <2> QED
      BY <2>10, <2>11, <2>12 DEF Reports
  <1> QED
    BY <1>1, <1>2

\* An interval begins with nothing counted.
LEMMA AgedRight ==
  ASSUME NEW t, Sketched(t), NEW u, u = cmsk_age(t), NEW s, s = [k \in Keys |-> 0]
  PROVE  CountsRight(u, s)
  <1>1. /\ u.len = 0 /\ u.total = 0 /\ u.hash_mode = t.hash_mode
        /\ u.buckets = [b \in 0 .. Size - 1 |-> 0]
        /\ u.matrix = [r \in Rows |-> [c \in Columns |-> 0]]
    <2>1. PICK v : v = cmsk_init(t.hash_mode)
      OBVIOUS
    <2>2. /\ v.len = 0 /\ v.total = 0 /\ v.hash_mode = t.hash_mode
          /\ v.buckets = [b \in 0 .. Size - 1 |-> 0]
          /\ v.matrix = [r \in Rows |-> [c \in Columns |-> 0]]
      BY <2>1 DEF cmsk_init
    <2>3. v \in Tables
      BY <2>1, TableInit DEF Sketched, Tables
    <2>4. u = [v EXCEPT !.items = t.items]
      BY <2>1 DEF cmsk_age
    <2>5. /\ u.len = v.len /\ u.total = v.total /\ u.hash_mode = v.hash_mode /\ u.buckets = v.buckets
          /\ u.matrix = v.matrix
      BY <2>3, <2>4 DEF Tables
    <2> QED
      BY <2>2, <2>5
  <1>2. s \in [Keys -> Nat] /\ \A k \in Keys : s[k] = 0
    OBVIOUS
  <1>3. 1 .. u.len = {}
    BY <1>1
  <1>4. Linked(u)
    BY <1>1, <1>3, Sizes DEF Linked
  <1>5. Drawn(u, s)
    BY <1>1, <1>2, <1>3 DEF Drawn
  <1>6. Exact(u, s)
    BY <1>2, <1>3 DEF Exact
  <1>7. Estimated(u, s)
    <2>1. \A r \in Rows, c \in Columns : u.matrix[r][c] = 0
      BY <1>1
    <2>2. \A k \in Keys, r \in Rows : u.matrix[r][Column(r, k)] = 0
      BY <2>1, Hashed
    <2>3. \A k \in Keys, r \in Rows : s[k] <= u.matrix[r][Column(r, k)] /\ u.matrix[r][Column(r, k)] = s[k]
      BY <1>2, <2>2
    <2>4. \A r \in Rows, c \in Columns : u.matrix[r][c] <= u.total
      BY <1>1, <2>1
    <2> QED
      BY <2>3, <2>4 DEF Estimated
  <1>8. Held(u, s)
    <2>1. Sketched(u)
      BY TableAged
    <2>2. cms_error(u) \in Nat
      BY <2>1, ErrorTyped
    <2>3. \A k \in Keys : ~(s[k] >= Threshold + cms_error(u))
      BY <1>2, <2>2, Sizes
    <2> QED
      BY <1>3, <2>3 DEF Held
  <1> QED
    BY <1>4, <1>5, <1>6, <1>7, <1>8 DEF CountsRight

-----------------------------------------------------------------------------
(* The samples of an interval and what is made of them.                    *)

\* While samples are read the counts are right; once the table is sorted, and
\* nothing was left over, so is what it reports.
SampleInv ==
  /\ pc \in {"unit", "read", "drain", "count"} => CountsRight(sk, sampled)
  /\ pc \in {"group", "locate", "move"} /\ leftover = {} => Reports(sk, sampled)

\* No more samples in an interval than the counters of 16 bits hold.
SamplesFit == sk.total \in Counts

\* Nothing is sampled outside of the read loops.
LEMMA SampleKept ==
  ASSUME SampleInv, UNCHANGED <<sk, sampled, leftover>>,
         \/ pc' = pc
         \/ pc' \in {"interval", "done", "crashed"}
         \/ pc \in {"unit", "read", "drain", "count"} /\ pc' \in {"unit", "read", "drain", "count"}
         \/ pc \in {"group", "locate", "move"} /\ pc' \in {"group", "locate", "move"}
  PROVE  SampleInv'
  BY DEF SampleInv

\* A record that is read.
LEMMA SampleRead ==
  ASSUME HInv, SampleInv, pc \in {"read", "drain"}, pc' \in {"read", "drain"}, NEW c, ReadRecord(c),
         leftover' = leftover, SamplesFit'
  PROVE  SampleInv'
  <1>1. PICK r : r = Head(ring[c])
    OBVIOUS
  <1>2. CountsRight(sk, sampled) /\ ~full
    BY DEF SampleInv, ReadRecord
  <1>3. CASE r \in Keys
    <2>1. sk' = cmsk_update(sk, r) /\ sampled' = SampledOnce(sampled, r)
      BY <1>1, <1>3 DEF ReadRecord, SampledOnce
    <2>2. Sketched(sk) /\ sk.len < Size
      BY <1>2 DEF HInv, Sampling
    <2>3. sk'.total = sk.total + 1
      BY <1>2, <1>3, <2>1, <2>2, TotalCounted DEF CountsRight
    <2>4. Fits(sk.total + 1)
      <3>1. \A x \in Counts : x <= 65535
        BY SMT DEF Counts
      <3>2. sk'.total \in Counts
        BY DEF SamplesFit
      <3>3. \A x \in Counts : Fits(x)
        BY <3>1 DEF Fits
      <3> QED
        BY <2>3, <3>2, <3>3
    <2>5. CountsRight(sk', sampled')
      BY <1>2, <1>3, <2>1, <2>2, <2>4, RightOnce
    <2> QED
      BY <2>5 DEF SampleInv
  <1>4. CASE r \notin Keys
    <2>1. UNCHANGED <<sk, sampled>>
      BY <1>1, <1>4 DEF ReadRecord
    <2> QED
      BY <1>2, <2>1 DEF SampleInv
  <1> QED
    BY <1>3, <1>4

\* The table is sorted.
LEMMA SampleCount ==
  ASSUME HInv, SampleInv, Count
  PROVE  SampleInv'
  <1>1. /\ Sketched(sk) /\ CountsRight(sk, sampled) /\ sk' \in cmsk_sort(sk) /\ leftover' = Leftover(sk)
        /\ sampled' = sampled /\ pc' = "group"
    BY DEF HInv, Sampling, SampleInv, Count
  <1>2. ASSUME leftover' = {} PROVE Reports(sk', sampled')
    <2>1. {sk.items[n] : n \in sk.len + 1 .. Size} \ {NoItem} = {}
      BY <1>1, <1>2 DEF Leftover
    <2>2. \A n \in sk.len + 1 .. Size : sk.items[n].count = 0
      BY <2>1 DEF NoItem
    <2>3. sk.len \in Nat /\ Size \in Nat
      BY <1>1, Sizes DEF Sketched, Tables
    <2>4. NoneLeft(sk)
      BY <2>2, <2>3 DEF NoneLeft
    <2> QED
      BY <1>1, <2>4, TableReports
  <1> QED
    BY <1>1, <1>2 DEF SampleInv

\* Every step keeps what is said of the samples.
LEMMA SampleNext ==
  ASSUME HInv, SampleInv, [Next]_vars, SamplesFit'
  PROVE  SampleInv'
  <1> USE DEF pmuVars, moveVars, pastVars
  <1>1. CASE UNCHANGED vars
    BY <1>1, SampleKept DEF vars
  <1>2. CASE BeginInterval
    <2>1. Sketched(sk) /\ sk' = cmsk_age(sk) /\ sampled' = [k \in Keys |-> 0] /\ pc' = "unit"
      BY <1>2 DEF BeginInterval, HInv, Sampling
    <2>2. CountsRight(sk', sampled')
      BY <2>1, AgedRight
    <2> QED
      BY <2>1, <2>2 DEF SampleInv
  <1>3. CASE Finish \/ BeginUnit \/ UnitOver \/ DrainNext \/ Interrupt
    BY <1>3, SampleKept DEF Finish, BeginUnit, UnitOver, DrainNext, Interrupt
  <1>4. CASE \E c \in Cpus : Record(c)
    BY <1>4, SampleKept DEF Record
  <1>5. CASE DrainRecord
    BY <1>5, SampleRead DEF DrainRecord
  <1>6. CASE \E c \in Cpus : ReadSelected(c)
    <2>1. PICK c \in Cpus : ReadSelected(c)
      BY <1>6
    <2>2. pc = "read" /\ pc' \in {"read", "drain"} /\ ReadRecord(c) /\ leftover' = leftover
      BY <2>1 DEF ReadSelected
    <2> QED
      BY <2>2, SampleRead
  <1>7. CASE Count
    BY <1>7, SampleCount
  <1>8. CASE Group \/ Locate \/ Move \/ MoveFails \/ Drift
    <2>1. UNCHANGED <<sk, sampled, leftover>>
      BY <1>8 DEF Group, Locate, Move, MoveFails, Drift
    <2>2. pc \in {"group", "locate", "move"} /\ pc' \in {"group", "locate", "move", "interval", "crashed"}
      BY <1>8 DEF Group, Locate, Move, MoveFails, Drift, NextGroup
    <2> QED
      BY <2>1, <2>2, SampleKept
  <1> QED
    BY <1>1, <1>2, <1>3, <1>4, <1>5, <1>6, <1>7, <1>8 DEF Next

\* It implies what the runs check.
LEMMA SampleInvReports ==
  ASSUME SampleInv
  PROVE  HotPagesReported
  <1> SUFFICES ASSUME pc = "group", leftover = {}, NEW k \in Keys
               PROVE  LET seen  == {l \in Keys \ {k} : sampled[l] > 0}
                          alone == \E r \in Rows : \A l \in seen : Column(r, l) # Column(r, k) IN
                      /\ sampled[k] >= Threshold + 2 * cms_error(sk) => Reported(k) # {}
                      /\ Cardinality(Reported(k)) <= 1
                      /\ \A n \in Reported(k) :
                           /\ sampled[k] > 0
                           /\ sk.hash_mode => sk.items[n].count = sampled[k]
                           /\ alone => sk.items[n].count <= sampled[k]
    BY Zenon DEF HotPagesReported
  <1> DEFINE seen  == {l \in Keys \ {k} : sampled[l] > 0}
             alone == \E r \in Rows : \A l \in seen : Column(r, l) # Column(r, k)
  <1>1. Reports(sk, sampled)
    BY DEF SampleInv
  <1>2. Reported(k) = ReportsOf(sk, k)
    BY DEF Reported, ReportsOf
  <1>3. alone => \E r \in Rows : AloneIn(sampled, r, k)
    BY DEF AloneIn
  <1> QED
    BY <1>1, <1>2, <1>3 DEF Reports

\* As long as the counters of 16 bits hold the samples of an interval, and no
\* items are left over from earlier ones, every page sampled as often as the
\* threshold and twice the error is reported, no page twice or without a sample,
\* with an exact count with hash_mode, and otherwise none too high unless the page
\* shares all its counters (cmsk.cc:178, cmsk.cc:259).
THEOREM HotPagesReportedHolds == Spec /\ []SamplesFit => []HotPagesReported
  <1>1. Init => SampleInv
    BY DEF Init, SampleInv
  <1>2. HInv /\ SampleInv /\ SamplesFit' /\ [Next]_vars => SampleInv'
    BY SampleNext
  <1>3. SampleInv => HotPagesReported
    BY SampleInvReports
  <1> QED
    BY <1>1, <1>2, <1>3, HInvInvariant, PTL DEF Spec

=============================================================================
