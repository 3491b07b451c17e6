---------------------------- MODULE IdleWalkProofs ----------------------------
(***************************************************************************)
(* In IdleWalk, what a walk keeps has its type and no item of a report is  *)
(* written behind the end of the kernel's buffer or the reader's; the      *)
(* parser of a report stands where the module left the cursor; what is     *)
(* cleared is reported but for one page of each full buffer; and the pages *)
(* of a size are counted in order, none of them twice.                     *)
(***************************************************************************)
EXTENDS IdleWalk, FiniteSetTheorems, WellFoundedInduction, TLAPS

-----------------------------------------------------------------------------
(* Sums over the numbers 1..n, and proofs by induction over them: the      *)
(* induction theorems of the library take the formula as an operator, here *)
(* it is the set of the numbers that satisfy it.                           *)

\* v[1] + ... + v[n]
SumTo(v, n) ==
  LET sum[i \in 0..n] == IF i = 0 THEN 0 ELSE sum[i - 1] + v[i]
  IN  sum[n]

\* f runs through the sums of v up to n.
RunsThrough(f, v, n) ==
  /\ f[0] = 0
  /\ \A i \in 1..n : f[i] = f[i - 1] + v[i]

LessOnNat == {pair \in Nat \X Nat : pair[1] < pair[2]}

\* Every set of natural numbers has a least element.
LEMMA LessWellFounded == IsWellFoundedOn(LessOnNat, Nat)
  BY NatLessThanWellFounded, Zenon DEF OpToRel, LessOnNat

\* A set that holds 0 and the successor of each of its numbers holds them all.
LEMMA SetInduction ==
  ASSUME NEW S, 0 \in S, \A n \in Nat : n \in S => n + 1 \in S
  PROVE  \A n \in Nat : n \in S
  <1> DEFINE T == Nat \ S
  <1>1. \A x, y \in Nat : y < x => <<y, x>> \in LessOnNat
    BY DEF LessOnNat
  <1> SUFFICES ASSUME T # {} PROVE FALSE
    OBVIOUS
  <1>2. \E x \in T : \A y \in T : <<y, x>> \notin LessOnNat
    <2>1. T \subseteq Nat
      OBVIOUS
    <2> HIDE DEF T
    <2> QED
      BY LessWellFounded, WFMin, <2>1, Zenon
  <1>3. PICK x \in T : \A y \in T : <<y, x>> \notin LessOnNat
    BY <1>2
  <1>4. x \in Nat /\ x # 0 /\ x \notin S
    OBVIOUS
  <1>5. x - 1 \in Nat /\ x - 1 < x
    BY <1>4
  <1>6. x - 1 \in S
    BY <1>1, <1>3, <1>4, <1>5
  <1> QED
    BY <1>4, <1>5, <1>6

\* The function that a recursive definition of a sum describes exists.
LEMMA SumExists ==
  ASSUME NEW v, NEW n \in Nat
  PROVE  \E f : f = [i \in 0..n |-> IF i = 0 THEN 0 ELSE f[i - 1] + v[i]]
  <1> DEFINE Is(f, k) == f = [i \in 0..k |-> IF i = 0 THEN 0 ELSE f[i - 1] + v[i]]
             S == {k \in Nat : \E f : Is(f, k)}
  <1>1. 0 \in S
    <2>1. Is([i \in 0..0 |-> 0], 0)
      OBVIOUS
    <2> QED
      BY <2>1
  <1>2. ASSUME NEW k \in Nat, k \in S PROVE k + 1 \in S
    <2>1. PICK f : Is(f, k)
      BY <1>2
    <2> DEFINE g == [i \in 0..(k + 1) |-> IF i <= k THEN f[i] ELSE f[k] + v[k + 1]]
    <2>2. \A i \in 0..k : f[i] = IF i = 0 THEN 0 ELSE f[i - 1] + v[i]
      BY <2>1
    <2>3. \A i \in 0..(k + 1) : g[i] = IF i = 0 THEN 0 ELSE g[i - 1] + v[i]
      <3> SUFFICES ASSUME NEW i \in 0..(k + 1)
                   PROVE  g[i] = IF i = 0 THEN 0 ELSE g[i - 1] + v[i]
        OBVIOUS
      <3>1. CASE i <= k
        BY <2>2, <3>1
      <3>2. CASE i = k + 1
        BY <3>2
      <3> QED
        BY <3>1, <3>2
    <2>4. g = [i \in 0..(k + 1) |-> g[i]]
      OBVIOUS
    <2> HIDE DEF g
    <2>5. Is(g, k + 1)
      BY <2>3, <2>4
    <2> QED
      BY <2>5
  <1> HIDE DEF S
  <1>3. n \in S
    BY <1>1, <1>2, SetInduction
  <1> QED
    BY <1>3 DEF S

\* SumTo() is the last element of a function that runs through the sums.
LEMMA SumRuns ==
  ASSUME NEW v, NEW n \in Nat
  PROVE  \E f : RunsThrough(f, v, n) /\ SumTo(v, n) = f[n]
  <1> DEFINE Is(f) == f = [i \in 0..n |-> IF i = 0 THEN 0 ELSE f[i - 1] + v[i]]
             f0 == CHOOSE f : Is(f)
  <1>1. Is(f0)
    <2>1. \E f : Is(f)
      BY SumExists
    <2> QED
      BY <2>1, Zenon
  <1>2. SumTo(v, n) = f0[n]
    BY Zenon DEF SumTo
  <1> HIDE DEF f0
  <1>3. RunsThrough(f0, v, n)
    BY <1>1 DEF RunsThrough
  <1> QED
    BY <1>2, <1>3

\* Only one function runs through the sums.
LEMMA RunsUnique ==
  ASSUME NEW v, NEW n \in Nat, NEW f, NEW g, RunsThrough(f, v, n), RunsThrough(g, v, n)
  PROVE  f[n] = g[n]
  <1> DEFINE S == {k \in Nat : k <= n => f[k] = g[k]}
  <1>1. 0 \in S
    BY DEF RunsThrough
  <1>2. ASSUME NEW k \in Nat, k \in S PROVE k + 1 \in S
    <2> SUFFICES ASSUME k + 1 <= n PROVE f[k + 1] = g[k + 1]
      OBVIOUS
    <2>1. k + 1 \in 1..n /\ (k + 1) - 1 = k /\ f[k] = g[k]
      BY <1>2
    <2> QED
      BY <2>1 DEF RunsThrough
  <1> HIDE DEF S
  <1>3. n \in S
    BY <1>1, <1>2, SetInduction
  <1> QED
    BY <1>3 DEF S

\* Any function that runs through the sums ends with SumTo().
LEMMA RunsToSum ==
  ASSUME NEW v, NEW n \in Nat, NEW f, RunsThrough(f, v, n)
  PROVE  f[n] = SumTo(v, n)
  <1>1. PICK g : RunsThrough(g, v, n) /\ SumTo(v, n) = g[n]
    BY SumRuns
  <1>2. f[n] = g[n]
    BY <1>1, RunsUnique
  <1> QED
    BY <1>1, <1>2

\* A sum depends on what is added up only.
LEMMA SumSame ==
  ASSUME NEW v, NEW u, NEW n \in Nat, \A i \in 1..n : v[i] = u[i]
  PROVE  SumTo(v, n) = SumTo(u, n)
  <1>1. PICK f : RunsThrough(f, v, n) /\ SumTo(v, n) = f[n]
    BY SumRuns
  <1>2. RunsThrough(f, u, n)
    BY <1>1 DEF RunsThrough
  <1> QED
    BY <1>1, <1>2, RunsToSum

\* The sum of nothing, and the sum of one more.
LEMMA SumSteps ==
  ASSUME NEW v
  PROVE  /\ SumTo(v, 0) = 0
         /\ \A n \in Nat : SumTo(v, n + 1) = SumTo(v, n) + v[n + 1]
  <1>1. SumTo(v, 0) = 0
    <2>1. PICK f : RunsThrough(f, v, 0) /\ SumTo(v, 0) = f[0]
      BY SumRuns
    <2> QED
      BY <2>1 DEF RunsThrough
  <1>2. ASSUME NEW n \in Nat PROVE SumTo(v, n + 1) = SumTo(v, n) + v[n + 1]
    <2>1. n + 1 \in Nat /\ n + 1 \in 1..(n + 1) /\ (n + 1) - 1 = n
      OBVIOUS
    <2>2. PICK f : RunsThrough(f, v, n + 1) /\ SumTo(v, n + 1) = f[n + 1]
      BY <2>1, SumRuns
    <2>3. RunsThrough(f, v, n)
      BY <2>2 DEF RunsThrough
    <2>4. f[n] = SumTo(v, n)
      BY <2>3, RunsToSum
    <2> QED
      BY <2>1, <2>2, <2>4 DEF RunsThrough
  <1> QED
    BY <1>1, <1>2

-----------------------------------------------------------------------------
\* struct ept_idle_ctrl and the cursors of the loops around it.
ControlBlocks ==
  [kpie : Seq(Items), pie_read : Nat, pie_read_max : Int, buf_size : Nat, bytes_copied : Nat,
   next_hva : Nat, gpa_to_hva : Int, restart_gpa : Nat, last_va : Int, full : BOOLEAN,
   out : Seq(Items)]

Cursors == [start : Int, end : Nat, va_end : Nat, cur : Int, stop : Int, pte_end : Int]

-----------------------------------------------------------------------------
(* Sizes and rounding.                                                     *)

\* Every page of the report is at least a page of 4 KB and at most a PUD (pagetype_size).
LEMMA PageSizes ==
  ASSUME NEW type
  PROVE  pagetype_size(type) \in Nat \ {0} /\ pagetype_size(type) <= PudPages
  <1>1. PmdPages <= PudPages
    BY StreamAssumption
  <1> QED
    BY <1>1, StreamAssumption DEF pagetype_size

\* A remainder.
LEMMA Remainders ==
  ASSUME NEW a \in Int, NEW n \in Nat \ {0}
  PROVE  a % n \in Int /\ 0 <= a % n /\ a % n < n /\ (a \in Nat => a % n <= a)
  OBVIOUS

\* Rounding moves an address by less than the size (round_down, round_up of ept_idle.c).
LEMMA Rounds ==
  ASSUME NEW a \in Nat, NEW n \in Nat \ {0}
  PROVE  /\ RoundDown(a, n) \in Nat /\ RoundDown(a, n) <= a /\ a < RoundDown(a, n) + n
         /\ RoundUp(a, n) \in Nat /\ a <= RoundUp(a, n)
  <1> DEFINE up == a + n - 1
  <1>0. up \in Nat /\ up >= a /\ a + n - 1 = up
    OBVIOUS
  <1> HIDE DEF up
  <1>1. a % n \in Int /\ 0 <= a % n /\ a % n < n /\ a % n <= a
    BY Remainders
  <1>2. up % n \in Int /\ 0 <= up % n /\ up % n < n /\ up % n <= up
    BY <1>0, Remainders
  <1>3. RoundDown(a, n) = a - (a % n) /\ RoundUp(a, n) = up - (up % n)
    BY <1>0, Zenon DEF RoundDown, RoundUp
  <1>4. up = a + n - 1
    BY <1>0
  <1> HIDE DEF RoundDown, RoundUp
  <1> DEFINE r == a % n
             u == up % n
  <1>5. /\ r \in Int /\ 0 <= r /\ r < n /\ r <= a /\ RoundDown(a, n) = a - r
        /\ u \in Int /\ 0 <= u /\ u < n /\ u <= up /\ RoundUp(a, n) = up - u
    BY <1>1, <1>2, <1>3
  <1> HIDE DEF r, u
  <1> QED
    BY <1>4, <1>5

\* A set of addresses has a least one (find_vma, ept_idle_find_gpa).
LEMMA LowestIsOne ==
  ASSUME NEW S, S \subseteq Nat, S # {}
  PROVE  LowestOf(S) \in S /\ \A y \in S : LowestOf(S) <= y
  <1>1. \A x, y \in S : y < x => <<y, x>> \in LessOnNat
    BY DEF LessOnNat
  <1>2. \E x \in S : \A y \in S : <<y, x>> \notin LessOnNat
    BY LessWellFounded, WFMin, Zenon
  <1>3. \E x \in S : \A y \in S : x <= y
    <2>1. PICK x \in S : \A y \in S : <<y, x>> \notin LessOnNat
      BY <1>2
    <2>2. \A y \in S : ~(y < x) /\ x \in Nat /\ y \in Nat
      BY <2>1, <1>1
    <2>3. \A y \in S : x <= y
      BY <2>2
    <2> QED
      BY <2>3
  <1> QED
    BY <1>3, Zenon DEF LowestOf

\* A PUD and a PMD end behind each of their pages (ept_page_range, mm_idle_pmd_large).
LEMMA Ends ==
  ASSUME NEW a \in Nat, NEW b \in Int
  PROVE  /\ PudEnd(a, b) # b => PudEnd(a, b) \in Nat /\ PudEnd(a, b) > a
         /\ PmdEnd(a, b) # b => PmdEnd(a, b) \in Nat /\ PmdEnd(a, b) > a
  <1>1. ASSUME NEW n \in Nat \ {0} PROVE ((a \div n) + 1) * n \in Nat /\ ((a \div n) + 1) * n > a
    <2>1. a \div n \in Nat /\ a % n < n /\ a = n * (a \div n) + (a % n)
      OBVIOUS
    <2> DEFINE q == a \div n
               r == a % n
    <2>2. q \in Nat /\ r < n /\ a = n * q + r /\ r \in Int
      BY <2>1
    <2> HIDE DEF q, r
    <2>3. (q + 1) * n = n * q + n
      BY <2>2
    <2>4. n * q \in Nat
      BY <2>2
    <2>5. (q + 1) * n \in Nat /\ (q + 1) * n > a
      BY <2>2, <2>3, <2>4
    <2> QED
      BY <2>5 DEF q
  <1>2. PmdPages \in Nat \ {0} /\ PudPages \in Nat \ {0}
    BY StreamAssumption
  <1> DEFINE pe == (PudOf(a) + 1) * PudPages
             me == (PmdOf(a) + 1) * PmdPages
  <1>3. pe \in Nat /\ pe > a /\ me \in Nat /\ me > a
    BY <1>1, <1>2 DEF PudOf, PmdOf
  <1>4. PudEnd(a, b) = Least(pe, b) /\ PmdEnd(a, b) = Least(me, b)
    BY Zenon DEF PudEnd, PmdEnd
  <1> HIDE DEF pe, me
  <1> QED
    BY <1>3, <1>4 DEF Least

-----------------------------------------------------------------------------
(* The bytes of a report.                                                  *)

BytesIn(items) == [i \in 1 .. Len(items) |-> Bytes(items[i])]

\* The bytes of a report are the sum of those of its items.
LEMMA BytesAreSum ==
  ASSUME NEW T, NEW items \in Seq(T)
  PROVE  BytesOf(items) = SumTo(BytesIn(items), Len(items))
  <1> DEFINE n == Len(items)
             v == BytesIn(items)
             Is(f) == f = [i \in 0..n |-> IF i = 0 THEN 0 ELSE f[i - 1] + Bytes(items[i])]
             Of(f) == f = [i \in 0..n |-> IF i = 0 THEN 0 ELSE f[i - 1] + v[i]]
             f0 == CHOOSE f : Is(f)
  <1>1. n \in Nat
    OBVIOUS
  <1>2. \A i \in 1..n : v[i] = Bytes(items[i])
    BY DEF BytesIn
  <1> HIDE DEF v, n
  <1>3. \A f : Of(f) => Is(f)
    <2> SUFFICES ASSUME NEW f PROVE Of(f) => Is(f)
      OBVIOUS
    <2>1. [i \in 0..n |-> IF i = 0 THEN 0 ELSE f[i - 1] + v[i]]
            = [i \in 0..n |-> IF i = 0 THEN 0 ELSE f[i - 1] + Bytes(items[i])]
      BY <1>1, <1>2
    <2> QED
      BY <2>1, Zenon
  <1>4. \E f : Of(f)
    BY <1>1, SumExists
  <1>5. Is(f0)
    BY <1>3, <1>4, Zenon
  <1>6. BytesOf(items) = f0[n]
    BY Zenon DEF BytesOf, n
  <1> HIDE DEF f0
  <1>7. RunsThrough(f0, v, n)
    BY <1>1, <1>2, <1>5 DEF RunsThrough
  <1> QED
    BY <1>1, <1>6, <1>7, RunsToSum DEF n, v

\* An item takes at least one byte.
LEMMA BytesType ==
  ASSUME NEW item
  PROVE  Bytes(item) \in Nat \ {0}
  BY StreamAssumption DEF Bytes

\* Nothing takes no bytes.
LEMMA NoBytes == BytesOf(<<>>) = 0
  <1>1. <<>> \in Seq(Items) /\ Len(<<>>) = 0
    OBVIOUS
  <1>2. BytesOf(<<>>) = SumTo(BytesIn(<<>>), 0)
    BY <1>1, BytesAreSum
  <1> QED
    BY <1>2, SumSteps

\* One more item adds its bytes (eic_report_addr, eic_add_page).
LEMMA BytesAppend ==
  ASSUME NEW items \in Seq(Items), NEW item \in Items
  PROVE  BytesOf(Append(items, item)) = BytesOf(items) + Bytes(item)
  <1> DEFINE n == Len(items)
             more == Append(items, item)
  <1>1. /\ n \in Nat /\ more \in Seq(Items) /\ Len(more) = n + 1 /\ more[n + 1] = item
        /\ \A i \in 1..n : more[i] = items[i]
    OBVIOUS
  <1> HIDE DEF more
  <1>2. BytesOf(items) = SumTo(BytesIn(items), n)
    BY BytesAreSum
  <1>3. BytesOf(more) = SumTo(BytesIn(more), n + 1)
    BY <1>1, BytesAreSum
  <1> HIDE DEF n
  <1>4. SumTo(BytesIn(more), n + 1) = SumTo(BytesIn(more), n) + BytesIn(more)[n + 1]
    BY <1>1, SumSteps
  <1>5. \A i \in 1..n : BytesIn(more)[i] = BytesIn(items)[i]
    BY <1>1 DEF BytesIn, n
  <1>6. SumTo(BytesIn(more), n) = SumTo(BytesIn(items), n)
    BY <1>1, <1>5, SumSame
  <1>7. BytesIn(more)[n + 1] = Bytes(item)
    BY <1>1 DEF BytesIn
  <1> QED
    BY <1>2, <1>3, <1>4, <1>6, <1>7 DEF more

\* The bytes of a report are a number; only an empty one has none.
LEMMA BytesNumber ==
  ASSUME NEW items \in Seq(Items)
  PROVE  /\ BytesOf(items) \in Nat
         /\ BytesOf(items) = 0 => items = <<>>
  <1>1. BytesOf(items) = SumTo(BytesIn(items), Len(items)) /\ Len(items) \in Nat
    BY BytesAreSum
  <1> DEFINE n == Len(items)
             v == BytesIn(items)
             S == {k \in Nat : k <= n => SumTo(v, k) \in Nat /\ SumTo(v, k) >= k}
  <1>2. \A i \in 1 .. n : v[i] \in Nat \ {0}
    BY BytesType DEF BytesIn
  <1> HIDE DEF v
  <1>3. 0 \in S
    BY SumSteps
  <1>4. ASSUME NEW k \in Nat, k \in S PROVE k + 1 \in S
    <2> SUFFICES ASSUME k + 1 <= n PROVE SumTo(v, k + 1) \in Nat /\ SumTo(v, k + 1) >= k + 1
      OBVIOUS
    <2>1. SumTo(v, k) \in Nat /\ SumTo(v, k) >= k /\ v[k + 1] \in Nat \ {0}
      BY <1>1, <1>2, <1>4
    <2>2. SumTo(v, k + 1) = SumTo(v, k) + v[k + 1]
      BY SumSteps
    <2> QED
      BY <2>1, <2>2
  <1> HIDE DEF S
  <1>5. n \in S
    BY <1>1, <1>3, <1>4, SetInduction
  <1>6. SumTo(v, n) \in Nat /\ SumTo(v, n) >= n
    BY <1>1, <1>5 DEF S
  <1>7. n = 0 => items = <<>>
    OBVIOUS
  <1> QED
    BY <1>1, <1>6, <1>7 DEF v

\* Two reports one behind the other (ept_idle_copy_user).
LEMMA BytesConcat ==
  ASSUME NEW first \in Seq(Items), NEW second \in Seq(Items)
  PROVE  BytesOf(first \o second) = BytesOf(first) + BytesOf(second)
  <1> DEFINE m == Len(second)
             part(k) == SubSeq(second, 1, k)
             S == {k \in Nat : k <= m => BytesOf(first \o part(k)) = BytesOf(first) + BytesOf(part(k))}
  <1>1. m \in Nat /\ \A k \in 0..m : part(k) \in Seq(Items) /\ Len(part(k)) = k
    OBVIOUS
  <1>2. 0 \in S
    <2>1. part(0) = <<>> /\ first \o part(0) = first
      OBVIOUS
    <2>2. BytesOf(first) \in Int
      BY BytesNumber
    <2> HIDE DEF part
    <2>3. BytesOf(part(0)) = 0
      BY <2>1, NoBytes
    <2>4. BytesOf(first \o part(0)) = BytesOf(first)
      BY <2>1, Zenon
    <2>5. BytesOf(first) = BytesOf(first) + BytesOf(part(0))
      BY <2>2, <2>3
    <2>6. BytesOf(first \o part(0)) = BytesOf(first) + BytesOf(part(0))
      BY <2>4, <2>5, Zenon
    <2> QED
      BY <2>6 DEF part
  <1>3. ASSUME NEW k \in Nat, k \in S PROVE k + 1 \in S
    <2> SUFFICES ASSUME k + 1 <= m
                 PROVE  BytesOf(first \o part(k + 1)) = BytesOf(first) + BytesOf(part(k + 1))
      OBVIOUS
    <2> DEFINE item == second[k + 1]
    <2>1. item \in Items /\ part(k) \in Seq(Items) /\ first \o part(k) \in Seq(Items)
      OBVIOUS
    <2>2. part(k + 1) = Append(part(k), item)
      OBVIOUS
    <2>3. first \o part(k + 1) = Append(first \o part(k), item)
      <3>1. first \o Append(part(k), item) = Append(first \o part(k), item)
        BY <2>1
      <3> QED
        BY <2>2, <3>1
    <2>4. BytesOf(first \o part(k)) = BytesOf(first) + BytesOf(part(k))
      BY <1>3
    <2> HIDE DEF part, item
    <2>5. BytesOf(first \o part(k + 1)) = BytesOf(first \o part(k)) + Bytes(item)
      BY <2>1, <2>3, BytesAppend
    <2>6. BytesOf(part(k + 1)) = BytesOf(part(k)) + Bytes(item)
      BY <2>1, <2>2, BytesAppend
    <2>7. BytesOf(first) \in Int /\ BytesOf(part(k)) \in Int
      BY <2>1, BytesNumber
    <2> QED
      BY <2>4, <2>5, <2>6, <2>7, BytesType
  <1>4. part(m) = second
    OBVIOUS
  <1> HIDE DEF S, part
  <1>5. m \in S
    BY <1>1, <1>2, <1>3, SetInduction
  <1> QED
    BY <1>1, <1>4, <1>5 DEF S

\* A run that grows in place keeps its byte (eic_add_page).
LEMMA BytesReplace ==
  ASSUME NEW items \in Seq(Items), NEW n \in 1 .. Len(items), NEW item \in Items,
         Bytes(item) = Bytes(items[n])
  PROVE  /\ [items EXCEPT ![n] = item] \in Seq(Items)
         /\ BytesOf([items EXCEPT ![n] = item]) = BytesOf(items)
  <1> DEFINE other == [items EXCEPT ![n] = item]
  <1>1. other \in Seq(Items) /\ Len(other) = Len(items) /\ Len(items) \in Nat
    OBVIOUS
  <1>2. \A i \in 1 .. Len(items) : Bytes(other[i]) = Bytes(items[i])
    OBVIOUS
  <1> HIDE DEF other
  <1>3. \A i \in 1 .. Len(items) : BytesIn(other)[i] = BytesIn(items)[i]
    BY <1>1, <1>2 DEF BytesIn
  <1>4. SumTo(BytesIn(other), Len(items)) = SumTo(BytesIn(items), Len(items))
    BY <1>1, <1>3, SumSame
  <1>5. BytesOf(other) = SumTo(BytesIn(other), Len(items)) /\ BytesOf(items) = SumTo(BytesIn(items), Len(items))
    BY <1>1, BytesAreSum
  <1> QED
    BY <1>1, <1>4, <1>5 DEF other

-----------------------------------------------------------------------------
(* The kernel's buffer.                                                    *)

\* What one step of eic_add_page() makes of a control block e: a control block f
\* that counts its bytes, fits into the same room and has copied nothing.
Fills(e, f) ==
  /\ f \in ControlBlocks
  /\ f.pie_read_max = e.pie_read_max /\ f.buf_size = e.buf_size /\ f.out = e.out
  /\ f.bytes_copied = e.bytes_copied /\ f.gpa_to_hva = e.gpa_to_hva
  /\ f.pie_read = BytesOf(f.kpie)
  /\ f.pie_read <= e.pie_read_max

\* An address in front of the next item (eic_report_addr).
LEMMA ReportAddr ==
  ASSUME NEW e \in ControlBlocks, NEW at \in Nat, e.pie_read = BytesOf(e.kpie)
  PROVE  /\ eic_report_addr(e, at) \in ControlBlocks
         /\ eic_report_addr(e, at) = [e EXCEPT !.kpie = Append(e.kpie, SetHva(at)),
                                               !.pie_read = e.pie_read + AddrBytes + 1]
         /\ BytesOf(Append(e.kpie, SetHva(at))) = e.pie_read + AddrBytes + 1
  <1>1. SetHva(at) \in Items /\ Bytes(SetHva(at)) = AddrBytes + 1
    BY DEF SetHva, Items, Bytes
  <1>2. e.kpie \in Seq(Items) /\ e.pie_read \in Nat /\ AddrBytes \in Nat
    BY StreamAssumption DEF ControlBlocks
  <1>3. BytesOf(Append(e.kpie, SetHva(at))) = e.pie_read + AddrBytes + 1
    BY <1>1, <1>2, BytesAppend
  <1>4. Append(e.kpie, SetHva(at)) \in Seq(Items)
    BY <1>1, <1>2
  <1>5. eic_report_addr(e, at) = [e EXCEPT !.kpie = Append(e.kpie, SetHva(at)),
                                           !.pie_read = e.pie_read + AddrBytes + 1]
    BY DEF eic_report_addr, ControlBlocks
  <1> DEFINE items == Append(e.kpie, SetHva(at))
             bytes == e.pie_read + AddrBytes + 1
  <1>6. items \in Seq(Items) /\ bytes \in Nat
    BY <1>2, <1>4
  <1> HIDE DEF items, bytes
  <1>7. [e EXCEPT !.kpie = items, !.pie_read = bytes] \in ControlBlocks
    BY <1>6 DEF ControlBlocks
  <1> QED
    BY <1>3, <1>5, <1>7 DEF items, bytes

\* The first page of a new item.
LEMMA NewItemFills ==
  ASSUME NEW e \in ControlBlocks, NEW next \in Nat, NEW type \in PageTypes,
         next + e.gpa_to_hva \in Nat,
         e.pie_read = BytesOf(e.kpie), e.pie_read + 1 <= e.pie_read_max
  PROVE  Fills(e, NewItem(e, next, type))
  <1>1. Run(type, 1) \in Items /\ Bytes(Run(type, 1)) = 1
    BY StreamAssumption DEF Run, Items, Bytes, PageTypes, PteTypes, PmdTypes
  <1>2. e.kpie \in Seq(Items) /\ e.pie_read \in Nat /\ e.pie_read_max \in Int
    BY DEF ControlBlocks
  <1>3. BytesOf(Append(e.kpie, Run(type, 1))) = e.pie_read + 1
    BY <1>1, <1>2, BytesAppend
  <1>4. Append(e.kpie, Run(type, 1)) \in Seq(Items)
    BY <1>1, <1>2
  <1>5. NewItem(e, next, type)
          = [e EXCEPT !.next_hva = next + e.gpa_to_hva, !.restart_gpa = next,
                      !.kpie = Append(e.kpie, Run(type, 1)), !.pie_read = e.pie_read + 1]
    BY DEF NewItem, Advance, ControlBlocks
  <1> DEFINE items == Append(e.kpie, Run(type, 1))
             bytes == e.pie_read + 1
             hva == next + e.gpa_to_hva
             f == [e EXCEPT !.next_hva = hva, !.restart_gpa = next, !.kpie = items, !.pie_read = bytes]
  <1>6. items \in Seq(Items) /\ bytes \in Nat /\ bytes <= e.pie_read_max /\ hva \in Nat
        /\ bytes = BytesOf(items)
    BY <1>2, <1>3, <1>4
  <1>7. NewItem(e, next, type) = f
    BY <1>5, Zenon
  <1> HIDE DEF items, bytes, hva
  <1>8. f \in ControlBlocks /\ f.kpie = items /\ f.pie_read = bytes
    BY <1>6 DEF ControlBlocks
  <1>9. /\ f.pie_read_max = e.pie_read_max /\ f.buf_size = e.buf_size /\ f.out = e.out
        /\ f.bytes_copied = e.bytes_copied /\ f.gpa_to_hva = e.gpa_to_hva
    BY DEF ControlBlocks
  <1> HIDE DEF f
  <1> QED
    BY <1>6, <1>7, <1>8, <1>9, Zenon DEF Fills

\* A page that does not follow the one before: an address and a run, if they fit.
LEMMA AddApartFills ==
  ASSUME NEW e \in ControlBlocks, NEW addr \in Nat, NEW next \in Nat, NEW type \in PageTypes,
         e.gpa_to_hva = 0 \/ addr + e.gpa_to_hva >= PudPages,
         e.gpa_to_hva = 0 \/ next + e.gpa_to_hva >= PudPages,
         e.pie_read = BytesOf(e.kpie), e.pie_read <= e.pie_read_max
  PROVE  Fills(e, AddApart(e, addr, next, type))
  <1> DEFINE size == pagetype_size(type)
             down == RoundDown(addr, size)
             at == down + e.gpa_to_hva
             reported == eic_report_addr(e, at)
  <1>1. /\ e.gpa_to_hva \in Int /\ e.pie_read \in Nat /\ e.pie_read_max \in Int /\ AddrBytes \in Nat
        /\ e.kpie \in Seq(Items) /\ PudPages \in Nat
    BY StreamAssumption DEF ControlBlocks
  <1>2. size \in Nat \ {0} /\ size <= PudPages
    BY PageSizes
  <1> HIDE DEF size
  <1>3. down \in Nat /\ down <= addr /\ addr < down + size
    BY <1>2, Rounds
  <1> HIDE DEF down
  <1>4. at \in Nat
    BY <1>1, <1>2, <1>3
  <1>5. next + e.gpa_to_hva \in Nat
    BY <1>1
  <1> HIDE DEF at
  <1>6. /\ reported = [e EXCEPT !.kpie = Append(e.kpie, SetHva(at)),
                                !.pie_read = e.pie_read + AddrBytes + 1]
        /\ reported \in ControlBlocks
        /\ BytesOf(Append(e.kpie, SetHva(at))) = e.pie_read + AddrBytes + 1
    BY <1>4, ReportAddr
  <1> HIDE DEF reported
  <1>7. CASE type \in HoleTypes
    <2>1. AddApart(e, addr, next, type) = [e EXCEPT !.restart_gpa = next]
      BY <1>7 DEF AddApart
    <2> QED
      BY <2>1 DEF Fills, ControlBlocks
  <1>8. CASE type \notin HoleTypes /\ e.pie_read + AddrBytes + 2 >= e.pie_read_max
    <2>1. AddApart(e, addr, next, type) = [e EXCEPT !.full = TRUE, !.restart_gpa = addr]
      BY <1>8 DEF AddApart, KbufFull
    <2> QED
      BY <2>1 DEF Fills, ControlBlocks
  <1>9. CASE type \notin HoleTypes /\ ~(e.pie_read + AddrBytes + 2 >= e.pie_read_max)
    <2>1. AddApart(e, addr, next, type) = NewItem(reported, next, type)
      BY <1>9 DEF AddApart, reported, at, down, size
    <2>2. /\ reported.gpa_to_hva = e.gpa_to_hva /\ reported.pie_read_max = e.pie_read_max
          /\ reported.buf_size = e.buf_size /\ reported.out = e.out
          /\ reported.bytes_copied = e.bytes_copied
          /\ reported.pie_read = e.pie_read + AddrBytes + 1
          /\ reported.kpie = Append(e.kpie, SetHva(at))
      BY <1>6 DEF ControlBlocks
    <2>3. /\ next + reported.gpa_to_hva \in Nat /\ reported.pie_read = BytesOf(reported.kpie)
          /\ reported.pie_read + 1 <= reported.pie_read_max
      BY <1>1, <1>5, <1>6, <1>9, <2>2
    <2>4. Fills(reported, NewItem(reported, next, type))
      BY <1>6, <2>3, NewItemFills
    <2> QED
      BY <2>1, <2>2, <2>4 DEF Fills
  <1> QED
    BY <1>7, <1>8, <1>9

\* The last item of a report.
LEMMA LastItem ==
  ASSUME NEW items \in Seq(Items), items # <<>>
  PROVE  Len(items) \in 1 .. Len(items) /\ items[Len(items)] \in Items
  OBVIOUS

\* A page that follows the one before: its run grows or a new one begins, if it fits.
LEMMA AddNextFills ==
  ASSUME NEW e \in ControlBlocks, NEW addr \in Nat, NEW next \in Nat, NEW type \in PageTypes,
         next + e.gpa_to_hva \in Nat, e.pie_read # 0,
         e.pie_read = BytesOf(e.kpie), e.pie_read <= e.pie_read_max
  PROVE  Fills(e, AddNext(e, addr, next, type))
  <1> DEFINE n == Len(e.kpie)
             last == e.kpie[n]
             longer == Run(type, last.arg + 1)
  <1>1. e.kpie \in Seq(Items) /\ e.pie_read \in Nat /\ e.pie_read_max \in Int
    BY DEF ControlBlocks
  <1>2. n \in 1 .. Len(e.kpie) /\ last \in Items
    <2>1. e.kpie # <<>>
      BY NoBytes
    <2> QED
      BY <1>1, <2>1, LastItem
  <1>3. CASE last.type = type /\ last.arg < MaxRun
    <2>1. type # "SET_HVA" /\ last.arg \in 1 .. MaxRun
      BY <1>2, <1>3 DEF Items, PageTypes, PteTypes, PmdTypes
    <2>2. longer \in Items /\ longer.type = type
      BY <1>3, <2>1, StreamAssumption DEF Run, Items
    <2> HIDE DEF longer
    <2>3. Bytes(longer) = Bytes(last)
      BY <1>3, <2>2 DEF Bytes
    <2> DEFINE items == [e.kpie EXCEPT ![n] = longer]
    <2>4. BytesOf(items) = BytesOf(e.kpie)
      BY <1>1, <1>2, <2>2, <2>3, BytesReplace
    <2>5. items \in Seq(Items)
      BY <1>1, <1>2, <2>2, <2>3, BytesReplace
    <2>6. AddNext(e, addr, next, type)
            = [e EXCEPT !.next_hva = next + e.gpa_to_hva, !.restart_gpa = next, !.kpie = items]
      BY <1>3 DEF AddNext, Advance, ControlBlocks, longer
    <2> HIDE DEF items
    <2> QED
      BY <1>1, <2>4, <2>5, <2>6 DEF Fills, ControlBlocks
  <1>4. CASE ~(last.type = type /\ last.arg < MaxRun) /\ e.pie_read >= e.pie_read_max
    <2>1. AddNext(e, addr, next, type) = [e EXCEPT !.full = TRUE, !.restart_gpa = addr]
      BY <1>4 DEF AddNext, KbufFull
    <2> QED
      BY <2>1 DEF Fills, ControlBlocks
  <1>5. CASE ~(last.type = type /\ last.arg < MaxRun) /\ ~(e.pie_read >= e.pie_read_max)
    <2>1. AddNext(e, addr, next, type) = NewItem(e, next, type)
      BY <1>5 DEF AddNext
    <2>2. e.pie_read + 1 <= e.pie_read_max
      BY <1>1, <1>5
    <2> QED
      BY <2>1, <2>2, NewItemFills
  <1> QED
    BY <1>3, <1>4, <1>5

\* eic_add_page() never packs more than pie_read_max bytes.
LEMMA AddPageFills ==
  ASSUME NEW e \in ControlBlocks, NEW addr \in Nat, NEW next \in Nat, NEW type \in PageTypes,
         e.gpa_to_hva = 0 \/ addr + e.gpa_to_hva >= PudPages,
         e.gpa_to_hva = 0 \/ next + e.gpa_to_hva >= PudPages,
         e.pie_read = BytesOf(e.kpie), e.pie_read <= e.pie_read_max
  PROVE  Fills(e, eic_add_page(e, addr, next, type))
  <1> DEFINE upto == RoundUp(next, pagetype_size(type))
  <1>1. upto \in Nat /\ next <= upto
    BY PageSizes, Rounds
  <1>2. eic_add_page(e, addr, next, type)
          = IF e.pie_read = 0 \/ addr + e.gpa_to_hva # e.next_hva
              THEN AddApart(e, addr, upto, type) ELSE AddNext(e, addr, upto, type)
    BY DEF eic_add_page
  <1> HIDE DEF upto
  <1>3. (e.gpa_to_hva = 0 \/ upto + e.gpa_to_hva >= PudPages) /\ upto + e.gpa_to_hva \in Nat
    <2>1. e.gpa_to_hva \in Int /\ PudPages \in Nat
      BY StreamAssumption DEF ControlBlocks
    <2> QED
      BY <1>1, <2>1
  <1>4. CASE e.pie_read = 0 \/ addr + e.gpa_to_hva # e.next_hva
    BY <1>1, <1>2, <1>3, <1>4, AddApartFills
  <1>5. CASE ~(e.pie_read = 0 \/ addr + e.gpa_to_hva # e.next_hva)
    BY <1>1, <1>2, <1>3, <1>5, AddNextFills
  <1> QED
    BY <1>4, <1>5

\* A buffer that was just set up is empty and keeps room for the last SET_HVA
\* (init_ept_idle_ctrl_buffer).
LEMMA BufferInit ==
  ASSUME NEW e \in ControlBlocks,
         e.bytes_copied = BytesOf(e.out), e.bytes_copied <= e.buf_size
  PROVE  LET f == init_ept_idle_ctrl_buffer(e) IN
         /\ f \in ControlBlocks
         /\ f.pie_read = 0 /\ f.kpie = <<>> /\ f.pie_read = BytesOf(f.kpie)
         /\ f.out = e.out /\ f.bytes_copied = e.bytes_copied /\ f.buf_size = e.buf_size
         /\ f.gpa_to_hva = e.gpa_to_hva /\ f.restart_gpa = e.restart_gpa
         /\ f.next_hva = e.next_hva /\ f.full = e.full
         /\ f.pie_read_max + AddrBytes + 1 <= KBufSize
         /\ f.pie_read_max + AddrBytes + 1 + f.bytes_copied <= f.buf_size
         /\ ~NoRoom(f) => f.pie_read <= f.pie_read_max
  <1> DEFINE max == Least(KBufSize, e.buf_size - e.bytes_copied) - (AddrBytes + 1)
             f == [e EXCEPT !.kpie = <<>>, !.pie_read = 0, !.pie_read_max = max]
  <1>1. init_ept_idle_ctrl_buffer(e) = f
    BY DEF init_ept_idle_ctrl_buffer
  <1>2. e.buf_size \in Nat /\ e.bytes_copied \in Nat /\ AddrBytes \in Nat /\ KBufSize \in Nat
    BY StreamAssumption DEF ControlBlocks
  <1>3. /\ max \in Int /\ max + AddrBytes + 1 <= KBufSize
        /\ max + AddrBytes + 1 + e.bytes_copied <= e.buf_size
    BY <1>2 DEF Least
  <1> HIDE DEF max
  <1>4. <<>> \in Seq(Items)
    OBVIOUS
  <1>5. /\ f \in ControlBlocks /\ f.pie_read = 0 /\ f.kpie = <<>> /\ f.pie_read_max = max
        /\ f.out = e.out /\ f.bytes_copied = e.bytes_copied /\ f.buf_size = e.buf_size
        /\ f.gpa_to_hva = e.gpa_to_hva /\ f.restart_gpa = e.restart_gpa
        /\ f.next_hva = e.next_hva /\ f.full = e.full
    BY <1>3, <1>4 DEF ControlBlocks
  <1> HIDE DEF f
  <1>6. f.pie_read = BytesOf(f.kpie)
    BY <1>5, NoBytes
  <1>7. ~NoRoom(f) => f.pie_read <= f.pie_read_max
    BY <1>2, <1>3, <1>5 DEF NoRoom
  <1>8. /\ f.pie_read_max + AddrBytes + 1 <= KBufSize
        /\ f.pie_read_max + AddrBytes + 1 + f.bytes_copied <= f.buf_size
    BY <1>3, <1>5
  <1> QED
    BY <1>1, <1>5, <1>6, <1>7, <1>8, Zenon

\* The buffers of a control block that is being filled.
Fit(e) ==
  /\ e \in ControlBlocks
  /\ e.pie_read = BytesOf(e.kpie) /\ e.bytes_copied = BytesOf(e.out)
  /\ e.pie_read <= e.pie_read_max
  /\ e.pie_read_max + AddrBytes + 1 <= KBufSize
  /\ e.pie_read_max + AddrBytes + 1 + e.bytes_copied <= e.buf_size

\* The last SET_HVA takes the room that was kept for it (ept_idle_copy_user).
LEMMA TailFits ==
  ASSUME NEW e, Fit(e), NEW start \in Int, NEW at \in Nat
  PROVE  LET f == WithTailHole(e, start, at) IN
         /\ f \in ControlBlocks
         /\ f.pie_read = BytesOf(f.kpie) /\ f.out = e.out /\ f.bytes_copied = e.bytes_copied
         /\ f.buf_size = e.buf_size /\ f.gpa_to_hva = e.gpa_to_hva /\ f.restart_gpa = e.restart_gpa
         /\ f.pie_read <= KBufSize /\ f.pie_read + f.bytes_copied <= f.buf_size
  <1> DEFINE s == IF e.pie_read = 0 /\ start < at THEN at ELSE start
             f == WithTailHole(e, start, at)
             reported == eic_report_addr(e, s)
  <1>1. e \in ControlBlocks /\ e.pie_read = BytesOf(e.kpie)
    BY DEF Fit
  <1>2. /\ e.pie_read \in Nat /\ e.pie_read_max \in Int /\ e.buf_size \in Nat
        /\ e.bytes_copied \in Nat /\ AddrBytes \in Nat /\ KBufSize \in Nat
    BY <1>1, StreamAssumption DEF ControlBlocks
  <1>3. /\ e.pie_read + AddrBytes + 1 <= KBufSize
        /\ e.pie_read + AddrBytes + 1 + e.bytes_copied <= e.buf_size
        /\ e.pie_read <= KBufSize /\ e.pie_read + e.bytes_copied <= e.buf_size
    BY <1>2 DEF Fit
  <1>4. CASE s >= at /\ s > e.next_hva
    <2>1. s \in Nat
      BY <1>4
    <2>2. f = [reported EXCEPT !.next_hva = s]
      BY <1>4 DEF WithTailHole
    <2> HIDE DEF s
    <2>3. /\ reported \in ControlBlocks
          /\ reported = [e EXCEPT !.kpie = Append(e.kpie, SetHva(s)), !.pie_read = e.pie_read + AddrBytes + 1]
          /\ BytesOf(Append(e.kpie, SetHva(s))) = e.pie_read + AddrBytes + 1
      BY <1>1, <2>1, ReportAddr
    <2> HIDE DEF reported, f
    <2>4. /\ reported.kpie = Append(e.kpie, SetHva(s)) /\ reported.pie_read = e.pie_read + AddrBytes + 1
          /\ reported.out = e.out /\ reported.bytes_copied = e.bytes_copied
          /\ reported.buf_size = e.buf_size /\ reported.gpa_to_hva = e.gpa_to_hva
          /\ reported.restart_gpa = e.restart_gpa
      BY <1>1, <2>3 DEF ControlBlocks
    <2>5. /\ f \in ControlBlocks /\ f.kpie = reported.kpie /\ f.pie_read = reported.pie_read
          /\ f.out = reported.out /\ f.bytes_copied = reported.bytes_copied
          /\ f.buf_size = reported.buf_size /\ f.gpa_to_hva = reported.gpa_to_hva
          /\ f.restart_gpa = reported.restart_gpa
      BY <2>1, <2>2, <2>3 DEF ControlBlocks
    <2>6. f.pie_read = BytesOf(f.kpie)
      BY <2>3, <2>4, <2>5, Zenon
    <2>7. f.pie_read <= KBufSize /\ f.pie_read + f.bytes_copied <= f.buf_size
      BY <1>2, <1>3, <2>4, <2>5
    <2> QED
      BY <2>4, <2>5, <2>6, <2>7, Zenon DEF f
  <1>5. CASE ~(s >= at /\ s > e.next_hva)
    <2>1. f = e
      BY <1>5 DEF WithTailHole
    <2> QED
      BY <1>1, <1>3, <2>1
  <1> QED
    BY <1>4, <1>5

\* A copy takes what was packed into the reader's buffer and leaves an empty one,
\* unless it is the last.
LEMMA CopyFits ==
  ASSUME NEW e, Fit(e), NEW start \in Int, NEW at \in Nat
  PROVE  LET r == ept_idle_copy_user(e, start, at) IN
         /\ r.stop \in BOOLEAN /\ r.eic \in ControlBlocks
         /\ r.eic.gpa_to_hva = e.gpa_to_hva
         /\ r.eic.pie_read = BytesOf(r.eic.kpie) /\ r.eic.bytes_copied = BytesOf(r.eic.out)
         /\ r.eic.pie_read <= KBufSize /\ r.eic.bytes_copied <= r.eic.buf_size
         /\ ~r.stop => Fit(r.eic)
         /\ e.pie_read = 0 => r.stop
  <1> DEFINE tailed == WithTailHole(e, start, at)
             copied == CopyOut(tailed)
             again  == init_ept_idle_ctrl_buffer(copied)
             r == ept_idle_copy_user(e, start, at)
  <1>1. e \in ControlBlocks /\ e.pie_read = BytesOf(e.kpie) /\ e.bytes_copied = BytesOf(e.out)
    BY DEF Fit
  <1>2. /\ e.pie_read \in Nat /\ e.pie_read_max \in Int /\ e.buf_size \in Nat
        /\ e.bytes_copied \in Nat /\ AddrBytes \in Nat /\ KBufSize \in Nat
    BY <1>1, StreamAssumption DEF ControlBlocks
  <1>3. e.pie_read <= KBufSize /\ e.bytes_copied <= e.buf_size
    BY <1>2 DEF Fit
  <1>4. /\ tailed \in ControlBlocks
        /\ tailed.pie_read = BytesOf(tailed.kpie) /\ tailed.out = e.out
        /\ tailed.bytes_copied = e.bytes_copied /\ tailed.buf_size = e.buf_size
        /\ tailed.gpa_to_hva = e.gpa_to_hva
        /\ tailed.pie_read <= KBufSize /\ tailed.pie_read + tailed.bytes_copied <= tailed.buf_size
    BY TailFits, Zenon
  <1>5. r = IF tailed.pie_read = 0 THEN [eic |-> e, stop |-> TRUE]
            ELSE IF e.pie_read = 0 \/ copied.bytes_copied >= copied.buf_size
              THEN [eic |-> copied, stop |-> TRUE]
            ELSE [eic |-> again, stop |-> NoRoom(again)]
    BY Zenon DEF ept_idle_copy_user
  <1> HIDE DEF tailed, r
  <1>6. /\ tailed.pie_read \in Nat /\ tailed.bytes_copied \in Nat /\ tailed.buf_size \in Nat
        /\ tailed.kpie \in Seq(Items) /\ tailed.out \in Seq(Items)
    BY <1>4 DEF ControlBlocks
  <1> DEFINE items == tailed.out \o tailed.kpie
             bytes == tailed.bytes_copied + tailed.pie_read
  <1>7. BytesOf(items) = bytes /\ items \in Seq(Items) /\ bytes \in Nat
    <2>1. BytesOf(items) = BytesOf(tailed.out) + BytesOf(tailed.kpie)
      BY <1>6, BytesConcat
    <2>2. BytesOf(tailed.out) = tailed.bytes_copied
      BY <1>1, <1>4
    <2>3. items \in Seq(Items) /\ bytes \in Nat
      BY <1>6
    <2> QED
      BY <1>4, <2>1, <2>2, <2>3
  <1>8. copied = [tailed EXCEPT !.out = items, !.bytes_copied = bytes]
    BY DEF CopyOut
  <1> HIDE DEF items, bytes, copied
  <1>9. /\ copied \in ControlBlocks /\ copied.out = items /\ copied.bytes_copied = bytes
        /\ copied.kpie = tailed.kpie /\ copied.pie_read = tailed.pie_read
        /\ copied.buf_size = tailed.buf_size /\ copied.gpa_to_hva = tailed.gpa_to_hva
    BY <1>4, <1>7, <1>8 DEF ControlBlocks
  <1>10. copied.bytes_copied = BytesOf(copied.out) /\ copied.bytes_copied <= copied.buf_size
    <2>1. bytes <= tailed.buf_size
      BY <1>4, <1>6 DEF bytes
    <2> QED
      BY <1>7, <1>9, <2>1
  <1>11. /\ again \in ControlBlocks
         /\ again.pie_read = 0 /\ again.pie_read = BytesOf(again.kpie)
         /\ again.out = copied.out /\ again.bytes_copied = copied.bytes_copied
         /\ again.buf_size = copied.buf_size /\ again.gpa_to_hva = copied.gpa_to_hva
         /\ again.pie_read_max + AddrBytes + 1 <= KBufSize
         /\ again.pie_read_max + AddrBytes + 1 + again.bytes_copied <= again.buf_size
         /\ ~NoRoom(again) => again.pie_read <= again.pie_read_max
    BY <1>9, <1>10, BufferInit, Zenon
  <1> HIDE DEF again
  <1>12. CASE tailed.pie_read = 0
    <2>1. r.eic = e /\ r.stop = TRUE
      BY <1>5, <1>12
    <2> QED
      BY <1>1, <1>3, <2>1 DEF r
  <1>13. CASE tailed.pie_read # 0 /\ (e.pie_read = 0 \/ copied.bytes_copied >= copied.buf_size)
    <2>1. r.eic = copied /\ r.stop = TRUE
      BY <1>5, <1>13
    <2> QED
      BY <1>4, <1>9, <1>10, <2>1 DEF r
  <1>14. CASE tailed.pie_read # 0 /\ ~(e.pie_read = 0 \/ copied.bytes_copied >= copied.buf_size)
    <2>1. r.eic = again /\ r.stop = NoRoom(again)
      BY <1>5, <1>14
    <2>2. ~r.stop => Fit(r.eic)
      BY <1>10, <1>11, <2>1, Zenon DEF Fit
    <2>3. /\ r.stop \in BOOLEAN /\ r.eic \in ControlBlocks /\ r.eic.gpa_to_hva = e.gpa_to_hva
          /\ r.eic.pie_read = BytesOf(r.eic.kpie) /\ r.eic.bytes_copied = BytesOf(r.eic.out)
      BY <1>4, <1>9, <1>10, <1>11, <2>1 DEF NoRoom
    <2>4. r.eic.pie_read <= KBufSize /\ r.eic.bytes_copied <= r.eic.buf_size
      BY <1>2, <1>10, <1>11, <2>1
    <2> QED
      BY <1>14, <2>2, <2>3, <2>4 DEF r
  <1> QED
    BY <1>12, <1>13, <1>14

-----------------------------------------------------------------------------
(* The inductive invariant.                                                *)

\* An address of the page table that is walked: above every page that could be
\* rounded down to an address below 0.
Mapped(x, e) == x \in Nat /\ (e.gpa_to_hva = 0 \/ x + e.gpa_to_hva >= PudPages)

AtVma     == {"loop", "range", "pages", "ptes", "copy", "parse"}
InTheKernel == {"range", "pages", "ptes", "copy"}

\* The types of what the reads of one walk keep.
TypeInv ==
  /\ layout \in Layouts /\ vmas \in Seq(VmaType)
  /\ pte \in [DOMAIN pte -> PteStates] /\ pmd \in [DOMAIN pmd -> PmdStates]
  /\ pc \in {"start", "vma", "done"} \cup AtVma
  /\ vmai \in 1 .. Len(layout.vmas) + 1 /\ (pc \in AtVma => vmai <= Len(layout.vmas))
  /\ va \in Nat /\ end \in Nat /\ next_va \in Nat /\ pos \in Nat /\ parsed \in Nat
  /\ eic \in ControlBlocks /\ w \in Cursors
  /\ ~Kvm => eic.gpa_to_hva = 0 /\ (pc = "range" => w.start \in Nat)
  /\ pc \in {"pages", "ptes"} => Mapped(w.cur, eic) /\ Mapped(w.stop, eic)
  /\ pc = "ptes" => Mapped(w.pte_end, eic)

\* The kernel's buffer and the reader's hold what they count, with room for one
\* more SET_HVA while pages are added.
Room ==
  /\ eic.pie_read = BytesOf(eic.kpie) /\ eic.bytes_copied = BytesOf(eic.out)
  /\ eic.pie_read <= KBufSize /\ eic.bytes_copied <= eic.buf_size
  /\ pc \in InTheKernel => Fit(eic)

Inv == TypeInv /\ Room

\* What an input may be.
LEMMA LayoutTypes ==
  ASSUME layout \in Layouts
  PROVE  /\ layout.vmas \in Seq(VmaType) /\ layout.later \in Seq(VmaType)
         /\ layout.slots \subseteq SlotType /\ \A s \in layout.slots : s.start >= PudPages
         /\ layout.va_start \in Nat /\ layout.va_end \in Nat
         /\ layout.min_read \in Nat /\ layout.min_read <= ReadBufSize
         /\ layout.pmd \in [DOMAIN layout.pmd -> PmdStates]
         /\ layout.pte \in [DOMAIN layout.pte -> PteStates]
  <1>1. layout.min_read \in UserBufMin .. ReadBufSize
    BY LayoutsAssumption
  <1>2. UserBufMin \in Nat
    BY StreamAssumption DEF UserBufMin
  <1>3. layout.min_read \in Nat /\ layout.min_read <= ReadBufSize
    BY <1>1, <1>2, WalkAssumption
  <1> QED
    BY <1>3, LayoutsAssumption

\* The walk starts with empty buffers.
LEMMA InitInv == Init => Inv
  <1> SUFFICES ASSUME Init PROVE Inv
    OBVIOUS
  <1>1. /\ layout \in Layouts
        /\ vmas = layout.vmas /\ pmd = layout.pmd /\ pte = layout.pte
        /\ pc = "start" /\ vmai = 1 /\ va = 0 /\ end = 0 /\ next_va = 0 /\ parsed = 0 /\ pos = 0
        /\ eic = setup_ept_idle_ctrl(0)
        /\ w = [start |-> 0, end |-> 0, va_end |-> 0, cur |-> 0, stop |-> 0, pte_end |-> 0]
    BY Zenon DEF Init
  <1>2. <<>> \in Seq(Items) /\ BytesOf(<<>>) = 0
    BY NoBytes
  <1>3. eic = [kpie |-> <<>>, pie_read |-> 0, pie_read_max |-> 0, buf_size |-> 0,
               bytes_copied |-> 0, next_hva |-> 0, gpa_to_hva |-> 0, restart_gpa |-> 0,
               last_va |-> 0, full |-> FALSE, out |-> <<>>]
    BY <1>1 DEF setup_ept_idle_ctrl
  <1>4. eic \in ControlBlocks
    BY <1>2, <1>3 DEF ControlBlocks
  <1>5. w \in Cursors
    BY <1>1 DEF Cursors
  <1>6. vmas \in Seq(VmaType) /\ pte \in [DOMAIN pte -> PteStates] /\ pmd \in [DOMAIN pmd -> PmdStates]
    BY <1>1, LayoutTypes
  <1>7. pc = "start" /\ vmai \in 1 .. Len(layout.vmas) + 1 /\ 0 \in Nat
    BY <1>1, LayoutTypes
  <1>8. TypeInv
    BY <1>1, <1>3, <1>4, <1>5, <1>6, <1>7 DEF TypeInv, AtVma
  <1>9. eic.kpie = <<>> /\ eic.out = <<>> /\ eic.pie_read = 0 /\ eic.bytes_copied = 0 /\ eic.buf_size = 0
    BY <1>3
  <1>10. Room
    BY <1>2, <1>7, <1>9, StreamAssumption DEF Room, InTheKernel
  <1> QED
    BY <1>8, <1>10 DEF Inv

-----------------------------------------------------------------------------
(* The user side keeps the invariant.                                      *)

\* A step that changes neither control block nor page table.
LEMMA UserFrame ==
  ASSUME Inv, UNCHANGED <<layout, vmas, pmd, pte, eic, w>>, pc' \in {"vma", "loop", "parse", "done"},
         vmai' \in 1 .. Len(layout.vmas) + 1,
         pc' \in {"loop", "parse"} => vmai' <= Len(layout.vmas),
         va' \in Nat, end' \in Nat, next_va' \in Nat, pos' \in Nat, parsed' \in Nat
  PROVE  Inv'
  <1>1. Kvm' <=> Kvm
    BY DEF Kvm
  <1>2. TypeInv'
    BY <1>1 DEF Inv, TypeInv, AtVma
  <1>3. Room'
    BY DEF Inv, Room, InTheKernel
  <1> QED
    BY <1>2, <1>3 DEF Inv

\* The parser moves on to a natural address (parse_idlepages).
LEMMA ParseItemType ==
  ASSUME NEW p, p.va \in Nat, NEW item \in Items, NEW to
  PROVE  ParseItem(p, item, to).va = p.va \/ ParseItem(p, item, to).va \in Nat
  <1> DEFINE q == ParseItem(p, item, to)
  <1>1. CASE item.type = "SET_HVA"
    <2>1. item.arg \in Nat
      BY <1>1 DEF Items, PageTypes, PteTypes, PmdTypes
    <2> QED
      BY <1>1, <2>1 DEF ParseItem
  <1>2. CASE item.type # "SET_HVA"
    <2>1. item.arg \in Nat /\ pagetype_size(item.type) \in Nat
      BY <1>2, PageSizes, StreamAssumption DEF Items
    <2>2. p.va + pagetype_size(item.type) * item.arg \in Nat
      BY <2>1
    <2> QED
      BY <1>2, <2>2 DEF ParseItem
  <1> QED
    BY <1>1, <1>2

\* The size of a read, and what the kernel makes of its buffer.
LEMMA ReadSizes ==
  ASSUME Inv, pc = "loop", va < end
  PROVE  ReadSize \in Nat /\ ReadSize <= ReadBufSize
  <1> DEFINE more == end - va + PagesPerByte - 1
             n == more \div PagesPerByte
  <1>1. va \in Nat /\ end \in Nat /\ layout \in Layouts
    BY DEF Inv, TypeInv
  <1>2. PagesPerByte \in Nat \ {0} /\ ReadBufSize \in Nat
    BY WalkAssumption
  <1>3. more \in Nat
    BY <1>1, <1>2
  <1> HIDE DEF more
  <1>4. n \in Nat
    BY <1>2, <1>3
  <1>5. layout.min_read \in Nat /\ layout.min_read <= ReadBufSize
    BY <1>1, LayoutTypes
  <1>6. ReadSize = Least(Most(n, layout.min_read), ReadBufSize)
    BY Zenon DEF ReadSize, n, more
  <1> HIDE DEF n
  <1> QED
    BY <1>2, <1>4, <1>5, <1>6 DEF Least, Most

\* A read starts with the buffers it was given (ept_idle_read, mm_idle_read).
LEMMA ReadStartKeeps ==
  ASSUME Inv, ReadStart
  PROVE  Inv'
  <1> DEFINE size == ReadSize
             e0 == setup_ept_idle_ctrl(size)
             e1 == init_ept_idle_ctrl_buffer(e0)
  <1>1. /\ pc = "loop" /\ va < end /\ UNCHANGED <<layout, vmas, pud, pmd, pte, vmai, va, end, next_va>>
        /\ eic' = e1 /\ pc' = (IF NoRoom(e1) THEN "parse" ELSE "range")
        /\ pos' = Most(va, pos) /\ parsed' = 0
        /\ w' = [w EXCEPT !.start = pos', !.end = pos' + size * PagesPerByte]
    BY Zenon DEF ReadStart, tableVars
  <1>2. size \in Nat
    BY <1>1, ReadSizes
  <1> HIDE DEF size
  <1>3. <<>> \in Seq(Items) /\ BytesOf(<<>>) = 0
    BY NoBytes
  <1>4. /\ e0 \in ControlBlocks /\ e0.bytes_copied = 0 /\ e0.out = <<>> /\ e0.buf_size = size
        /\ e0.gpa_to_hva = 0
    BY <1>2, <1>3 DEF setup_ept_idle_ctrl, ControlBlocks
  <1> HIDE DEF e0
  <1>5. e0.bytes_copied = BytesOf(e0.out) /\ e0.bytes_copied <= e0.buf_size
    BY <1>2, <1>3, <1>4
  <1>6. /\ e1 \in ControlBlocks /\ e1.pie_read = 0 /\ e1.pie_read = BytesOf(e1.kpie)
        /\ e1.out = e0.out /\ e1.bytes_copied = e0.bytes_copied /\ e1.buf_size = e0.buf_size
        /\ e1.gpa_to_hva = e0.gpa_to_hva
        /\ e1.pie_read_max + AddrBytes + 1 <= KBufSize
        /\ e1.pie_read_max + AddrBytes + 1 + e1.bytes_copied <= e1.buf_size
        /\ ~NoRoom(e1) => e1.pie_read <= e1.pie_read_max
    BY <1>4, <1>5, BufferInit, Zenon
  <1> HIDE DEF e1
  <1>7. /\ layout \in Layouts /\ vmas \in Seq(VmaType)
        /\ pte \in [DOMAIN pte -> PteStates] /\ pmd \in [DOMAIN pmd -> PmdStates]
        /\ vmai \in 1 .. Len(layout.vmas) + 1 /\ vmai <= Len(layout.vmas)
        /\ va \in Nat /\ end \in Nat /\ next_va \in Nat /\ pos \in Nat /\ w \in Cursors
    BY <1>1 DEF Inv, TypeInv, AtVma
  <1> DEFINE from == Most(va, pos)
             upto == from + size * PagesPerByte
  <1>8. from \in Nat /\ upto \in Nat /\ pos' = from
    <2>1. from \in Nat
      BY <1>7 DEF Most
    <2> HIDE DEF from
    <2>2. size * PagesPerByte \in Nat
      BY <1>2, WalkAssumption
    <2>3. upto \in Nat
      BY <2>1, <2>2
    <2> QED
      BY <1>1, <2>1, <2>3 DEF from
  <1>9. w' \in Cursors /\ w'.start \in Nat
    <2>1. w' = [w EXCEPT !.start = from, !.end = upto]
      BY <1>1, Zenon
    <2> HIDE DEF from, upto
    <2>2. w \in Cursors /\ from \in Nat /\ from \in Int /\ upto \in Nat
      BY <1>7, <1>8
    <2>3. [w EXCEPT !.start = from, !.end = upto] \in Cursors
      BY <2>2 DEF Cursors
    <2>4. [w EXCEPT !.start = from, !.end = upto].start = from
      BY <2>2 DEF Cursors
    <2> QED
      BY <2>1, <2>2, <2>3, <2>4
  <1> HIDE DEF from, upto
  <1>10. pc' \in {"parse", "range"} /\ (pc' = "range" => ~NoRoom(e1))
    BY <1>1
  <1>11. TypeInv'
    BY <1>1, <1>4, <1>6, <1>7, <1>8, <1>9, <1>10 DEF TypeInv, AtVma
  <1>12. Room'
    <2>1. e1.pie_read <= KBufSize /\ e1.bytes_copied <= e1.buf_size
      BY <1>2, <1>4, <1>6, StreamAssumption
    <2>2. e1.bytes_copied = BytesOf(e1.out)
      BY <1>5, <1>6
    <2>3. pc' \in InTheKernel => Fit(e1)
      BY <1>6, <1>10, <2>2 DEF Fit, InTheKernel
    <2> QED
      BY <1>1, <1>6, <2>1, <2>2, <2>3 DEF Room
  <1> QED
    BY <1>11, <1>12 DEF Inv

\* Every step of the user side keeps the invariant (walk, walk_vma, parse_idlepages).
LEMMA UserNextKeeps ==
  ASSUME Inv, UserNext
  PROVE  Inv'
  <1>0. /\ layout \in Layouts /\ vmai \in 1 .. Len(layout.vmas) + 1
        /\ (pc \in AtVma => vmai <= Len(layout.vmas)) /\ Len(layout.vmas) \in Nat
        /\ va \in Nat /\ end \in Nat /\ next_va \in Nat /\ pos \in Nat /\ parsed \in Nat
        /\ layout.vmas \in Seq(VmaType) /\ layout.va_start \in Nat /\ layout.va_end \in Nat
        /\ eic.out \in Seq(Items)
    <2>1. /\ layout \in Layouts /\ vmai \in 1 .. Len(layout.vmas) + 1
          /\ (pc \in AtVma => vmai <= Len(layout.vmas)) /\ eic \in ControlBlocks
          /\ va \in Nat /\ end \in Nat /\ next_va \in Nat /\ pos \in Nat /\ parsed \in Nat
      BY DEF Inv, TypeInv
    <2>2. layout.vmas \in Seq(VmaType) /\ layout.va_start \in Nat /\ layout.va_end \in Nat
      BY <2>1, LayoutTypes
    <2>3. eic.out \in Seq(Items)
      BY <2>1 DEF ControlBlocks
    <2> QED
      BY <2>1, <2>2, <2>3
  <1>1. CASE Walk
    <2>1. /\ pc' \in {"done", "vma"}
          /\ UNCHANGED <<layout, vmas, pmd, pte, eic, w, vmai, va, end, next_va, pos, parsed>>
      BY <1>1 DEF Walk, tableVars
    <2> QED
      BY <1>0, <2>1, UserFrame
  <1>2. CASE WalkVma
    <2> DEFINE v == layout.vmas[vmai]
    <2>1. UNCHANGED <<layout, vmas, pmd, pte, eic, w, next_va, parsed>>
      BY <1>2 DEF WalkVma, tableVars
    <2>2. CASE pc' = "done" /\ UNCHANGED <<vmai, va, end, pos>>
      BY <1>0, <2>1, <2>2, UserFrame
    <2>3. CASE vmai <= Len(layout.vmas) /\ vmai' = vmai + 1 /\ pc' = "vma" /\ UNCHANGED <<va, end, pos>>
      BY <1>0, <2>1, <2>3, UserFrame
    <2>4. CASE /\ vmai <= Len(layout.vmas) /\ va' = Most(Most(v.start, next_va), layout.va_start)
               /\ end' = Least(v.end, layout.va_end) /\ pos' = va' /\ pc' = "loop" /\ UNCHANGED vmai
      <3>1. v \in VmaType
        BY <1>0, <2>4
      <3>2. v.start \in Nat /\ v.end \in Nat
        BY <3>1 DEF VmaType
      <3>3. va' \in Nat /\ end' \in Nat /\ pos' \in Nat
        BY <1>0, <2>4, <3>2 DEF Most, Least
      <3> QED
        BY <1>0, <2>1, <2>4, <3>3, UserFrame
    <2> QED
      BY <1>2, <2>2, <2>3, <2>4 DEF WalkVma
  <1>3. CASE VmaDone
    <2>1. /\ pc = "loop" /\ next_va' = va /\ vmai' = vmai + 1 /\ pc' = "vma"
          /\ UNCHANGED <<layout, vmas, pmd, pte, eic, w, va, end, pos, parsed>>
      BY <1>3 DEF VmaDone, tableVars
    <2>2. vmai <= Len(layout.vmas)
      BY <1>0, <2>1 DEF AtVma
    <2>3. vmai' \in 1 .. Len(layout.vmas) + 1
      BY <1>0, <2>1, <2>2
    <2> QED
      BY <1>0, <2>1, <2>3, UserFrame
  <1>4. CASE ReadFails
    <2>1. /\ pc' = "done" /\ pos' = Most(va, pos)
          /\ UNCHANGED <<layout, vmas, pmd, pte, eic, w, vmai, va, end, next_va, parsed>>
      BY <1>4 DEF ReadFails, tableVars
    <2>2. pos' \in Nat
      BY <1>0, <2>1 DEF Most
    <2> QED
      BY <1>0, <2>1, <2>2, UserFrame
  <1>5. CASE ReadStart
    BY <1>5, ReadStartKeeps
  <1>6. CASE Parse
    <2> DEFINE p0 == [va |-> va, refs |-> refs, late |-> {}]
               item == eic.out[parsed + 1]
               p == ParseItem(p0, item, end)
    <2>1. /\ pc = "parse" /\ parsed < Len(eic.out) /\ va' = p.va
          /\ parsed' = (IF p.late = {} THEN parsed + 1 ELSE Len(eic.out))
          /\ UNCHANGED <<layout, vmas, pmd, pte, eic, w, pc, vmai, end, next_va, pos>>
      BY <1>6, Zenon DEF Parse, tableVars
    <2>2. item \in Items /\ p0.va = va
      BY <1>0, <2>1
    <2> HIDE DEF p0, item
    <2>3. p.va \in Nat
      BY <1>0, <2>2, ParseItemType
    <2> HIDE DEF p
    <2>4. va' \in Nat /\ parsed' \in Nat /\ pc' = "parse" /\ vmai <= Len(layout.vmas)
      BY <1>0, <2>1, <2>3 DEF AtVma
    <2> QED
      BY <1>0, <2>1, <2>4, UserFrame
  <1>7. CASE ReadDone
    <2>1. /\ pc = "parse" /\ pc' = "loop"
          /\ UNCHANGED <<layout, vmas, pmd, pte, eic, w, vmai, va, end, next_va, pos, parsed>>
      BY <1>7 DEF ReadDone, tableVars, userVars
    <2>2. vmai <= Len(layout.vmas)
      BY <1>0, <2>1 DEF AtVma
    <2> QED
      BY <1>0, <2>1, <2>2, UserFrame
  <1> QED
    BY <1>1, <1>2, <1>3, <1>4, <1>5, <1>6, <1>7 DEF UserNext

-----------------------------------------------------------------------------
(* The kernel side keeps the invariant.                                    *)

\* What the kernel's steps find.
LEMMA InKernel ==
  ASSUME Inv, pc \in InTheKernel
  PROVE  /\ layout \in Layouts /\ vmas \in Seq(VmaType)
         /\ pte \in [DOMAIN pte -> PteStates] /\ pmd \in [DOMAIN pmd -> PmdStates]
         /\ vmai \in 1 .. Len(layout.vmas) + 1 /\ vmai <= Len(layout.vmas)
         /\ va \in Nat /\ end \in Nat /\ next_va \in Nat /\ pos \in Nat /\ parsed \in Nat
         /\ eic \in ControlBlocks /\ eic.gpa_to_hva \in Int /\ eic.restart_gpa \in Nat
         /\ Fit(eic) /\ (~Kvm => eic.gpa_to_hva = 0)
         /\ w \in Cursors /\ w.start \in Int /\ w.end \in Nat /\ w.va_end \in Nat
         /\ w.cur \in Int /\ w.stop \in Int /\ w.pte_end \in Int
  <1>1. pc \in AtVma
    BY DEF InTheKernel, AtVma
  <1>2. TypeInv /\ Fit(eic)
    BY DEF Inv, Room
  <1>3. eic \in ControlBlocks /\ w \in Cursors
    BY <1>2 DEF TypeInv
  <1>4. eic.gpa_to_hva \in Int /\ eic.restart_gpa \in Nat
    BY <1>3 DEF ControlBlocks
  <1>5. /\ w.start \in Int /\ w.end \in Nat /\ w.va_end \in Nat
        /\ w.cur \in Int /\ w.stop \in Int /\ w.pte_end \in Int
    BY <1>3 DEF Cursors
  <1> QED
    BY <1>1, <1>2, <1>3, <1>4, <1>5 DEF TypeInv

\* A step that stays in the kernel.
LEMMA KernelFrame ==
  ASSUME Inv, pc \in InTheKernel, UNCHANGED <<layout, vmas, vmai, va, end, next_va, parsed, pos>>,
         pte' \in [DOMAIN pte' -> PteStates], pmd' \in [DOMAIN pmd' -> PmdStates],
         pc' \in {"pages", "ptes", "copy"}, Fit(eic'), w' \in Cursors,
         ~Kvm => eic'.gpa_to_hva = 0,
         pc' \in {"pages", "ptes"} => Mapped(w'.cur, eic') /\ Mapped(w'.stop, eic'),
         pc' = "ptes" => Mapped(w'.pte_end, eic')
  PROVE  Inv'
  <1>1. Kvm' <=> Kvm
    BY DEF Kvm
  <1>2. eic' \in ControlBlocks /\ pc' # "range" /\ pc' \in AtVma /\ pc' \in InTheKernel
    BY DEF Fit, AtVma, InTheKernel
  <1>3. TypeInv'
    BY <1>1, <1>2, InKernel DEF TypeInv
  <1>4. /\ eic'.pie_read \in Nat /\ eic'.pie_read_max \in Int /\ eic'.buf_size \in Nat
        /\ eic'.bytes_copied \in Nat /\ AddrBytes \in Nat /\ KBufSize \in Nat
    BY <1>2, StreamAssumption DEF ControlBlocks
  <1>5. eic'.pie_read <= KBufSize /\ eic'.bytes_copied <= eic'.buf_size
    BY <1>4 DEF Fit
  <1>6. Room'
    BY <1>5 DEF Room, Fit
  <1> QED
    BY <1>3, <1>6 DEF Inv

\* Moving the cursors of a control block changes nothing its buffers hold.
LEMMA FitCursors ==
  ASSUME NEW e, Fit(e), NEW at \in Nat, NEW g \in Int, NEW last \in Int, NEW b \in BOOLEAN
  PROVE  LET f == [e EXCEPT !.restart_gpa = at, !.gpa_to_hva = g, !.last_va = last, !.full = b]
         IN  Fit(f)
  <1> DEFINE f == [e EXCEPT !.restart_gpa = at, !.gpa_to_hva = g, !.last_va = last, !.full = b]
  <1>1. e \in ControlBlocks
    BY DEF Fit
  <1>2. /\ f \in ControlBlocks /\ f.pie_read = e.pie_read /\ f.kpie = e.kpie /\ f.out = e.out
        /\ f.bytes_copied = e.bytes_copied /\ f.pie_read_max = e.pie_read_max
        /\ f.buf_size = e.buf_size
    BY <1>1 DEF ControlBlocks
  <1> HIDE DEF f
  <1>3. Fit(f)
    BY <1>2 DEF Fit
  <1> QED
    BY <1>3 DEF f

\* The shorter updates of the control block are of that form.
LEMMA CursorUpdates ==
  ASSUME NEW e \in ControlBlocks, NEW at, NEW g, NEW last, NEW b
  PROVE  /\ [e EXCEPT !.restart_gpa = at, !.full = b]
              = [e EXCEPT !.restart_gpa = at, !.gpa_to_hva = e.gpa_to_hva, !.last_va = e.last_va, !.full = b]
         /\ [e EXCEPT !.gpa_to_hva = g, !.full = b]
              = [e EXCEPT !.restart_gpa = e.restart_gpa, !.gpa_to_hva = g, !.last_va = e.last_va, !.full = b]
         /\ [e EXCEPT !.full = b]
              = [e EXCEPT !.restart_gpa = e.restart_gpa, !.gpa_to_hva = e.gpa_to_hva, !.last_va = e.last_va, !.full = b]
         /\ [e EXCEPT !.restart_gpa = at]
              = [e EXCEPT !.restart_gpa = at, !.gpa_to_hva = e.gpa_to_hva, !.last_va = e.last_va, !.full = e.full]
         /\ [e EXCEPT !.last_va = last]
              = [e EXCEPT !.restart_gpa = e.restart_gpa, !.gpa_to_hva = e.gpa_to_hva, !.last_va = last, !.full = e.full]
  BY DEF ControlBlocks

\* A control block after eic_add_page().
LEMMA FitAdd ==
  ASSUME NEW e, Fit(e), NEW addr, NEW next, NEW type \in PageTypes, Mapped(addr, e), Mapped(next, e)
  PROVE  /\ Fit(eic_add_page(e, addr, next, type))
         /\ eic_add_page(e, addr, next, type).gpa_to_hva = e.gpa_to_hva
         /\ eic_add_page(e, addr, next, type).pie_read_max = e.pie_read_max
  <1> DEFINE f == eic_add_page(e, addr, next, type)
  <1>1. e \in ControlBlocks /\ e.pie_read = BytesOf(e.kpie) /\ e.pie_read <= e.pie_read_max
    BY DEF Fit
  <1>2. /\ addr \in Nat /\ next \in Nat
        /\ e.gpa_to_hva = 0 \/ addr + e.gpa_to_hva >= PudPages
        /\ e.gpa_to_hva = 0 \/ next + e.gpa_to_hva >= PudPages
    BY DEF Mapped
  <1>3. Fills(e, f)
    BY <1>1, <1>2, AddPageFills
  <1> HIDE DEF f
  <1>4. Fit(f) /\ f.gpa_to_hva = e.gpa_to_hva /\ f.pie_read_max = e.pie_read_max
    BY <1>3 DEF Fills, Fit
  <1> QED
    BY <1>4 DEF f

\* Where the walk goes on, it is mapped.
LEMMA MappedOn ==
  ASSUME NEW e \in ControlBlocks, NEW a, Mapped(a, e), NEW b, Mapped(b, e)
  PROVE  Mapped(a + 1, e) /\ Mapped(PudEnd(a, b), e) /\ Mapped(PmdEnd(a, b), e)
  <1>1. e.gpa_to_hva \in Int /\ PudPages \in Int /\ a \in Nat /\ b \in Nat
    BY StreamAssumption DEF ControlBlocks, Mapped
  <1> DEFINE p == PudEnd(a, b)
             m == PmdEnd(a, b)
  <1>2. (p # b => p \in Nat /\ p > a) /\ (m # b => m \in Nat /\ m > a)
    BY <1>1, Ends
  <1> HIDE DEF p, m
  <1>3. Mapped(p, e) /\ Mapped(m, e) /\ Mapped(a + 1, e)
    BY <1>1, <1>2 DEF Mapped
  <1> QED
    BY <1>3 DEF p, m

\* The walk goes on behind what it found.
LEMMA GoOnKeeps ==
  ASSUME Inv, pc \in {"pages", "ptes"},
         UNCHANGED <<layout, vmas, vmai, va, end, next_va, parsed, pos>>,
         pte' \in [DOMAIN pte' -> PteStates], pmd' \in [DOMAIN pmd' -> PmdStates],
         Fit(eic'), eic'.gpa_to_hva = eic.gpa_to_hva,
         NEW next, NEW over, Mapped(next, eic), GoOn(next, over)
  PROVE  Inv'
  <1>0. pc \in InTheKernel /\ Mapped(w.stop, eic)
    BY DEF InTheKernel, Inv, TypeInv
  <1>1. w \in Cursors /\ (~Kvm => eic.gpa_to_hva = 0)
    BY <1>0, InKernel
  <1>2. w' = [w EXCEPT !.cur = next] /\ pc' \in {"copy", "pages"} /\ next \in Nat
    BY DEF GoOn, Mapped
  <1>3. w' \in Cursors /\ w'.cur = next /\ w'.stop = w.stop
    BY <1>1, <1>2 DEF Cursors
  <1>4. Mapped(w'.cur, eic') /\ Mapped(w'.stop, eic')
    BY <1>0, <1>3 DEF Mapped
  <1> QED
    BY <1>0, <1>1, <1>2, <1>3, <1>4, KernelFrame

\* A VMA that ends above an address is one of the process (find_vma).
LEMMA FoundVma ==
  ASSUME vmas \in Seq(VmaType), NEW at, FindVma(at) # 0
  PROVE  vmas[FindVma(at)].start \in Nat /\ vmas[FindVma(at)].end \in Nat
  <1> DEFINE ends == {i \in DOMAIN vmas : vmas[i].end > at}
             i == FindVma(at)
  <1>1. i = IF ends = {} THEN 0 ELSE LowestOf(ends)
    BY Zenon DEF FindVma
  <1>2. ends \subseteq Nat /\ ends \subseteq DOMAIN vmas
    OBVIOUS
  <1> HIDE DEF ends
  <1>3. i \in DOMAIN vmas
    BY <1>1, <1>2, LowestIsOne
  <1> HIDE DEF i
  <1>4. vmas[i] \in VmaType
    BY <1>3
  <1> QED
    BY <1>4 DEF i, VmaType

\* The search for a range to walk (mm_idle_walk_range, ept_idle_walk_hva_range).
LEMMA RangeKeeps ==
  ASSUME Inv, MmRange \/ KvmRange
  PROVE  Inv'
  <1>1. /\ pc = "range" /\ UNCHANGED <<layout, vmas, pmd, pte, vmai, va, end, next_va, parsed, pos>>
    BY DEF MmRange, KvmRange, tableVars, userVars
  <1>2. pc \in InTheKernel
    BY <1>1 DEF InTheKernel
  <1>3. /\ layout \in Layouts /\ vmas \in Seq(VmaType) /\ Fit(eic) /\ eic \in ControlBlocks
        /\ eic.gpa_to_hva \in Int /\ eic.restart_gpa \in Nat
        /\ w \in Cursors /\ w.start \in Int /\ w.end \in Nat
        /\ pte' \in [DOMAIN pte' -> PteStates] /\ pmd' \in [DOMAIN pmd' -> PmdStates]
    BY <1>1, <1>2, InKernel
  <1>4. ~Kvm => eic.gpa_to_hva = 0 /\ w.start \in Nat
    BY <1>1, <1>2 DEF Inv, TypeInv
  <1>5. TaskSize \in Nat
    BY WalkAssumption
  <1>6. ASSUME NEW e, Fit(e), ~Kvm => e.gpa_to_hva = 0, NEW to \in Nat, ToCopy(e, to)
        PROVE  Inv'
    <2>1. pc' = "copy" /\ eic' = e /\ w' = [w EXCEPT !.va_end = to]
      BY <1>6 DEF ToCopy
    <2>2. w' \in Cursors
      BY <1>3, <1>6, <2>1 DEF Cursors
    <2> QED
      BY <1>1, <1>2, <1>3, <1>6, <2>1, <2>2, KernelFrame
  <1>7. ASSUME NEW e, Fit(e), ~Kvm => e.gpa_to_hva = 0, NEW to \in Nat, NEW cur, NEW stop,
               Mapped(cur, e), Mapped(stop, e), ToPages(e, cur, stop, to)
        PROVE  Inv'
    <2>1. pc' = "pages" /\ eic' = e /\ w' = [w EXCEPT !.cur = cur, !.stop = stop, !.va_end = to]
      BY <1>7 DEF ToPages
    <2>2. cur \in Int /\ stop \in Int /\ to \in Nat /\ w \in Cursors
      BY <1>3, <1>7 DEF Mapped
    <2>3. w' \in Cursors /\ w'.cur = cur /\ w'.stop = stop
      BY <2>1, <2>2 DEF Cursors
    <2> QED
      BY <1>1, <1>2, <1>3, <1>7, <2>1, <2>3, KernelFrame
  <1>8. ASSUME NEW at \in Nat
        PROVE  Fit(Restart(at)) /\ Restart(at).gpa_to_hva = eic.gpa_to_hva
    <2> DEFINE f == [eic EXCEPT !.restart_gpa = at, !.gpa_to_hva = eic.gpa_to_hva,
                                !.last_va = eic.last_va, !.full = FALSE]
    <2>1. Restart(at) = f
      BY <1>3, CursorUpdates, Zenon DEF Restart
    <2>2. eic.last_va \in Int /\ FALSE \in BOOLEAN
      BY <1>3 DEF ControlBlocks
    <2>3. Fit(f)
      BY <1>3, <2>2, FitCursors, Zenon
    <2>4. f.gpa_to_hva = eic.gpa_to_hva
      BY <1>3 DEF ControlBlocks
    <2> HIDE DEF f
    <2> QED
      BY <2>1, <2>3, <2>4
  <1>9. ASSUME NEW g \in Int
        PROVE  LET e == [eic EXCEPT !.gpa_to_hva = g, !.full = FALSE] IN Fit(e) /\ e.gpa_to_hva = g
    <2> DEFINE e == [eic EXCEPT !.gpa_to_hva = g, !.full = FALSE]
               f == [eic EXCEPT !.restart_gpa = eic.restart_gpa, !.gpa_to_hva = g,
                                !.last_va = eic.last_va, !.full = FALSE]
    <2>1. e = f
      BY <1>3, CursorUpdates
    <2>2. eic.last_va \in Int /\ FALSE \in BOOLEAN
      BY <1>3 DEF ControlBlocks
    <2>3. Fit(f)
      BY <1>3, <2>2, FitCursors, Zenon
    <2>4. f.gpa_to_hva = g
      BY <1>3 DEF ControlBlocks
    <2> HIDE DEF f, e
    <2>5. Fit(e) /\ e.gpa_to_hva = g
      BY <2>1, <2>3, <2>4
    <2> QED
      BY <2>5 DEF e
  <1>10. CASE MmRange
    <2> DEFINE i == FindVma(w.start)
               e == [eic EXCEPT !.full = FALSE]
    <2>1. /\ ~Kvm
          /\ \/ i = 0 /\ ToCopy(Restart(TaskSize), w.end)
             \/ i # 0 /\ vmas[i].start >= w.end /\ ToCopy(Restart(vmas[i].start), w.end)
             \/ i # 0 /\ vmas[i].start < w.end /\ ToPages(e, w.start, w.end, w.end)
      BY <1>10, Zenon DEF MmRange
    <2> HIDE DEF i
    <2>2. CASE i = 0 /\ ToCopy(Restart(TaskSize), w.end)
      <3> DEFINE f == Restart(TaskSize)
      <3>1. Fit(f) /\ f.gpa_to_hva = eic.gpa_to_hva
        BY <1>5, <1>8
      <3> HIDE DEF f
      <3> QED
        BY <1>3, <1>4, <1>6, <2>1, <2>2, <3>1 DEF f
    <2>3. CASE i # 0 /\ ToCopy(Restart(vmas[i].start), w.end)
      <3> DEFINE at == vmas[i].start
                 f == Restart(at)
      <3>1. at \in Nat
        BY <1>3, <2>3, FoundVma DEF i
      <3> HIDE DEF at
      <3>2. Fit(f) /\ f.gpa_to_hva = eic.gpa_to_hva
        BY <1>8, <3>1
      <3>3. ToCopy(f, w.end)
        BY <2>3 DEF at
      <3> HIDE DEF f
      <3> QED
        BY <1>3, <1>4, <1>6, <2>1, <3>2, <3>3
    <2>4. CASE ToPages(e, w.start, w.end, w.end)
      <3> DEFINE f == [eic EXCEPT !.restart_gpa = eic.restart_gpa, !.gpa_to_hva = eic.gpa_to_hva,
                                  !.last_va = eic.last_va, !.full = FALSE]
      <3>1. e = f
        BY <1>3, CursorUpdates
      <3>2. eic.last_va \in Int /\ FALSE \in BOOLEAN
        BY <1>3 DEF ControlBlocks
      <3>5. Fit(f)
        BY <1>3, <3>2, FitCursors, Zenon
      <3>6. f.gpa_to_hva = eic.gpa_to_hva
        BY <1>3 DEF ControlBlocks
      <3> HIDE DEF e, f
      <3>3. Fit(e) /\ e.gpa_to_hva = eic.gpa_to_hva
        BY <3>1, <3>5, <3>6
      <3>4. Mapped(w.start, e) /\ Mapped(w.end, e)
        BY <1>3, <1>4, <2>1, <3>3 DEF Mapped
      <3> QED
        BY <1>3, <1>4, <1>7, <2>1, <2>4, <3>3, <3>4
    <2> QED
      BY <2>1, <2>2, <2>3, <2>4
  <1>11. CASE KvmRange
    <2> DEFINE noSlot == [Restart(TaskSize) EXCEPT !.gpa_to_hva = 0]
               above == LowestOf(Above(w.start))
    <2>1. /\ Kvm
          /\ \/ ToCopy(noSlot, w.end)
             \/ Above(w.start) # {} /\ ToCopy([noSlot EXCEPT !.restart_gpa = above], above)
             \/ \E s \in Slot(w.start) :
                  LET e == [eic EXCEPT !.gpa_to_hva = s.start - s.gpa, !.full = FALSE] IN
                  \/ ToPages(e, w.start - e.gpa_to_hva, s.end - e.gpa_to_hva, s.end)
                  \/ ToCopy(e, s.end)
      <3> HIDE DEF ToCopy, ToPages
      <3> QED
        BY <1>11, Zenon DEF KvmRange
    <2>2. ASSUME NEW at \in Nat
          PROVE  LET e == [eic EXCEPT !.restart_gpa = at, !.gpa_to_hva = 0, !.last_va = eic.last_va, !.full = FALSE]
                 IN  Fit(e)
      <3>1. eic.last_va \in Int /\ FALSE \in BOOLEAN /\ 0 \in Int
        BY <1>3 DEF ControlBlocks
      <3> QED
        BY <1>3, <3>1, FitCursors, Zenon
    <2>3. CASE ToCopy(noSlot, w.end)
      <3>1. noSlot = [eic EXCEPT !.restart_gpa = TaskSize, !.gpa_to_hva = 0, !.last_va = eic.last_va, !.full = FALSE]
        BY <1>3 DEF Restart, ControlBlocks
      <3>2. Fit(noSlot)
        BY <1>5, <2>2, <3>1
      <3> HIDE DEF noSlot
      <3> QED
        BY <1>3, <1>6, <2>1, <2>3, <3>2
    <2>4. CASE Above(w.start) # {} /\ ToCopy([noSlot EXCEPT !.restart_gpa = above], above)
      <3>1. above \in Nat
        <4>1. Above(w.start) \subseteq Nat
          BY <1>3, LayoutTypes DEF Above, SlotType
        <4> QED
          BY <2>4, <4>1, LowestIsOne
      <3> HIDE DEF above
      <3> DEFINE e == [noSlot EXCEPT !.restart_gpa = above]
      <3>2. e = [eic EXCEPT !.restart_gpa = above, !.gpa_to_hva = 0, !.last_va = eic.last_va, !.full = FALSE]
        BY <1>3 DEF Restart, ControlBlocks
      <3>3. Fit(e)
        BY <2>2, <3>1, <3>2
      <3>4. ToCopy(e, above)
        BY <2>4 DEF above
      <3> HIDE DEF e
      <3> QED
        BY <1>6, <2>1, <3>1, <3>3, <3>4
    <2>5. ASSUME NEW s \in Slot(w.start),
                 LET e == [eic EXCEPT !.gpa_to_hva = s.start - s.gpa, !.full = FALSE] IN
                   \/ ToPages(e, w.start - e.gpa_to_hva, s.end - e.gpa_to_hva, s.end)
                   \/ ToCopy(e, s.end)
          PROVE  Inv'
      <3> DEFINE g == s.start - s.gpa
                 e == [eic EXCEPT !.gpa_to_hva = g, !.full = FALSE]
      <3>1. s \in SlotType /\ s.start >= PudPages /\ w.start \in s.start .. s.end - 1
        BY <1>3, LayoutTypes DEF Slot, Within
      <3>2. s.start \in Nat /\ s.end \in Nat /\ s.gpa \in Nat /\ PudPages \in Nat
        BY <3>1, StreamAssumption DEF SlotType
      <3>3. g \in Int /\ w.start - g \in Nat /\ s.end - g \in Nat /\ w.start >= PudPages /\ s.end >= PudPages
        <4> DEFINE from == s.start
                   to == s.end
                   gpa == s.gpa
                   at == w.start
        <4>1. /\ from \in Nat /\ to \in Nat /\ gpa \in Nat /\ at \in Int /\ at \in from .. to - 1
              /\ from >= PudPages
          BY <1>3, <3>1, <3>2
        <4>2. g = from - gpa
          OBVIOUS
        <4> HIDE DEF from, to, gpa, at, g
        <4>3. g \in Int /\ at - g \in Nat /\ to - g \in Nat /\ at >= PudPages /\ to >= PudPages
          BY <3>2, <4>1, <4>2
        <4> QED
          BY <4>3 DEF at, to
      <3>4. Fit(e) /\ e.gpa_to_hva = g
        BY <1>9, <3>3
      <3>5. \/ ToPages(e, w.start - e.gpa_to_hva, s.end - e.gpa_to_hva, s.end)
            \/ ToCopy(e, s.end)
        BY <2>5, Zenon
      <3> HIDE DEF e, g
      <3>6. Mapped(w.start - e.gpa_to_hva, e) /\ Mapped(s.end - e.gpa_to_hva, e)
        BY <1>3, <3>2, <3>3, <3>4 DEF Mapped
      <3> QED
        BY <1>6, <1>7, <2>1, <3>2, <3>4, <3>5, <3>6
    <2> QED
      BY <2>1, <2>3, <2>4, <2>5
  <1> QED
    BY <1>10, <1>11

\* The walk of a PMD (ept_pmd_range, mm_idle_pmd_entry): into its pages, or as one.
LEMMA AddPmdKeeps ==
  ASSUME Inv, pc = "pages",
         UNCHANGED <<layout, vmas, vmai, va, end, next_va, parsed, pos, pte>>,
         NEW e, Fit(e), e.gpa_to_hva = eic.gpa_to_hva, NEW b, Mapped(b, eic),
         AddPmd(e, w.cur, b)
  PROVE  Inv'
  <1> DEFINE a == w.cur
  <1>1. pc \in InTheKernel /\ Mapped(a, eic) /\ Mapped(w.stop, eic)
    BY DEF InTheKernel, Inv, TypeInv
  <1>2. /\ pte' \in [DOMAIN pte' -> PteStates] /\ pmd \in [DOMAIN pmd -> PmdStates]
        /\ w \in Cursors /\ (~Kvm => eic.gpa_to_hva = 0)
    BY <1>1, InKernel
  <1>3. Mapped(a, e) /\ Mapped(b, e)
    BY <1>1 DEF Mapped
  <1>4. CASE EnterPtes(e, a, b)
    <2>1. eic' = e /\ w' = [w EXCEPT !.pte_end = b] /\ pc' = "ptes" /\ pmd' = pmd
      BY <1>4 DEF EnterPtes
    <2>2. b \in Nat
      BY <1>3 DEF Mapped
    <2>3. w' \in Cursors /\ w'.cur = a /\ w'.stop = w.stop /\ w'.pte_end = b
      BY <1>2, <2>1, <2>2 DEF Cursors
    <2>4. Mapped(w'.cur, eic') /\ Mapped(w'.stop, eic') /\ Mapped(w'.pte_end, eic')
      BY <1>1, <1>3, <2>1, <2>3 DEF Mapped
    <2> QED
      BY <1>1, <1>2, <2>1, <2>3, <2>4, KernelFrame
  <1>5. ASSUME NEW type \in PageTypes, eic' = eic_add_page(e, a, b, type), GoOn(b, eic'.full),
               pmd' \in [DOMAIN pmd' -> PmdStates]
        PROVE  Inv'
    <2>1. Fit(eic') /\ eic'.gpa_to_hva = eic.gpa_to_hva
      BY <1>3, <1>5, FitAdd
    <2> QED
      BY <1>2, <1>5, <2>1, GoOnKeeps
  <1>6. CASE AddHuge(e, a, b)
    <2> DEFINE type == IF pmd[PmdOf(a)] = "accessed" THEN "PMD_ACCESSED" ELSE "PMD_IDLE"
    <2>1. /\ eic' = eic_add_page(e, a, b, type) /\ GoOn(b, eic'.full)
          /\ pmd' = [pmd EXCEPT ![PmdOf(a)] = "idle"]
      BY <1>6, Zenon DEF AddHuge
    <2>2. type \in PageTypes
      BY DEF PageTypes, PmdTypes
    <2>3. pmd' \in [DOMAIN pmd' -> PmdStates]
      BY <1>2, <2>1 DEF PmdStates
    <2> HIDE DEF type
    <2> QED
      BY <1>5, <2>1, <2>2, <2>3
  <1>7. CASE AddHole(e, a, b)
    <2>1. eic' = eic_add_page(e, a, b, "PMD_HOLE") /\ GoOn(b, eic'.full) /\ pmd' = pmd
      BY <1>7 DEF AddHole
    <2>2. "PMD_HOLE" \in PageTypes
      BY DEF PageTypes, PmdTypes
    <2> QED
      BY <1>2, <1>5, <2>1, <2>2
  <1> QED
    BY <1>4, <1>6, <1>7 DEF AddPmd

\* One page (ept_pte_range, mm_idle_pte_range).
LEMMA AddPteKeeps ==
  ASSUME Inv, AddPte
  PROVE  Inv'
  <1>1. /\ pc = "ptes" /\ eic' = eic_add_page(eic, w.cur, w.cur + 1, PteType(w.cur))
        /\ UNCHANGED <<layout, vmas, vmai, va, end, next_va, parsed, pos, pmd>>
        /\ pte' = [pte EXCEPT ![w.cur] = "idle"] \/ pte' = pte
        /\ \/ w' = [w EXCEPT !.cur = w.cur + 1] /\ pc' = pc
           \/ GoOn(w.pte_end, eic'.full)
    BY DEF AddPte, userVars
  <1>2. /\ pc \in InTheKernel /\ Mapped(w.cur, eic) /\ Mapped(w.stop, eic) /\ Mapped(w.pte_end, eic)
    BY <1>1 DEF InTheKernel, Inv, TypeInv
  <1>3. /\ pte \in [DOMAIN pte -> PteStates] /\ pmd' \in [DOMAIN pmd' -> PmdStates]
        /\ w \in Cursors /\ (~Kvm => eic.gpa_to_hva = 0) /\ Fit(eic) /\ eic \in ControlBlocks
    BY <1>1, <1>2, InKernel
  <1>4. pte' \in [DOMAIN pte' -> PteStates]
    BY <1>1, <1>3 DEF PteStates
  <1>5. PteType(w.cur) \in PageTypes
    BY DEF PteType, PageTypes, PteTypes
  <1>6. Mapped(w.cur + 1, eic)
    BY <1>2, <1>3, MappedOn
  <1>7. Fit(eic') /\ eic'.gpa_to_hva = eic.gpa_to_hva
    <2> DEFINE next == w.cur + 1
               type == PteType(w.cur)
    <2>1. Mapped(next, eic) /\ type \in PageTypes /\ eic' = eic_add_page(eic, w.cur, next, type)
      BY <1>1, <1>5, <1>6
    <2> HIDE DEF next, type
    <2> QED
      BY <1>2, <1>3, <2>1, FitAdd
  <1>8. CASE w' = [w EXCEPT !.cur = w.cur + 1] /\ pc' = pc
    <2> DEFINE next == w.cur + 1
    <2>1. next \in Nat /\ w' = [w EXCEPT !.cur = next]
      BY <1>6, <1>8 DEF Mapped
    <2>2. Mapped(next, eic)
      BY <1>6
    <2> HIDE DEF next
    <2>3. w' \in Cursors /\ w'.cur = next /\ w'.stop = w.stop /\ w'.pte_end = w.pte_end
      BY <1>3, <2>1 DEF Cursors
    <2>4. Mapped(w'.cur, eic') /\ Mapped(w'.stop, eic') /\ Mapped(w'.pte_end, eic')
      BY <1>2, <1>7, <2>2, <2>3 DEF Mapped
    <2> QED
      BY <1>1, <1>2, <1>3, <1>4, <1>7, <1>8, <2>3, <2>4, KernelFrame
  <1>9. CASE GoOn(w.pte_end, eic'.full)
    BY <1>1, <1>2, <1>3, <1>4, <1>7, <1>9, GoOnKeeps
  <1> QED
    BY <1>1, <1>8, <1>9

\* The page table of a guest (ept_page_range and below).
LEMMA KvmPagesKeeps ==
  ASSUME Inv, KvmPages
  PROVE  Inv'
  <1> DEFINE a == w.cur
             big == PudEnd(a, w.stop)
             upto == PmdEnd(a, w.stop)
  <1>1. /\ pc = "pages"
        /\ UNCHANGED <<layout, vmas, vmai, va, end, next_va, parsed, pos, pte>>
        /\ \/ eic' = [eic EXCEPT !.restart_gpa = big] /\ GoOn(big, FALSE) /\ pmd' = pmd
           \/ eic' = eic_add_page(eic, a, big, "PUD_PRESENT") /\ GoOn(big, eic'.full) /\ pmd' = pmd
           \/ AddPmd(eic, a, upto)
    BY Zenon DEF KvmPages, userVars
  <1>2. pc \in InTheKernel /\ Mapped(a, eic) /\ Mapped(w.stop, eic)
    BY <1>1 DEF InTheKernel, Inv, TypeInv
  <1>3. /\ pte' \in [DOMAIN pte' -> PteStates] /\ pmd \in [DOMAIN pmd -> PmdStates]
        /\ Fit(eic) /\ eic \in ControlBlocks
    BY <1>1, <1>2, InKernel
  <1>4. Mapped(big, eic) /\ Mapped(upto, eic)
    BY <1>2, <1>3, MappedOn
  <1> HIDE DEF big, upto
  <1>5. CASE eic' = [eic EXCEPT !.restart_gpa = big] /\ GoOn(big, FALSE) /\ pmd' = pmd
    <2> DEFINE f == [eic EXCEPT !.restart_gpa = big, !.gpa_to_hva = eic.gpa_to_hva,
                                !.last_va = eic.last_va, !.full = eic.full]
    <2>1. eic' = f /\ f.gpa_to_hva = eic.gpa_to_hva
      BY <1>3, <1>5, CursorUpdates DEF ControlBlocks
    <2>2. big \in Nat /\ eic.last_va \in Int /\ eic.full \in BOOLEAN /\ eic.gpa_to_hva \in Int
      BY <1>3, <1>4 DEF ControlBlocks, Mapped
    <2>3. Fit(f)
      BY <1>3, <2>2, FitCursors, Zenon
    <2> HIDE DEF f
    <2>4. Fit(eic') /\ eic'.gpa_to_hva = eic.gpa_to_hva /\ pmd' \in [DOMAIN pmd' -> PmdStates]
      BY <1>3, <1>5, <2>1, <2>3
    <2> QED
      BY <1>1, <1>3, <1>4, <1>5, <2>4, GoOnKeeps
  <1>6. CASE eic' = eic_add_page(eic, a, big, "PUD_PRESENT") /\ GoOn(big, eic'.full) /\ pmd' = pmd
    <2>1. "PUD_PRESENT" \in PageTypes /\ pmd' \in [DOMAIN pmd' -> PmdStates]
      BY <1>3, <1>6 DEF PageTypes
    <2>2. Fit(eic') /\ eic'.gpa_to_hva = eic.gpa_to_hva
      BY <1>2, <1>3, <1>4, <1>6, <2>1, FitAdd
    <2> QED
      BY <1>1, <1>3, <1>4, <1>6, <2>1, <2>2, GoOnKeeps
  <1>7. CASE AddPmd(eic, a, upto)
    BY <1>1, <1>3, <1>4, <1>7, AddPmdKeeps
  <1> QED
    BY <1>1, <1>5, <1>6, <1>7

\* What the steps of a walk of a process's own page table have in common.
LEMMA InMmPages ==
  ASSUME Inv, pc = "pages", ~Kvm
  PROVE  /\ pc \in InTheKernel /\ w.cur \in Nat /\ w.stop \in Nat
         /\ eic.gpa_to_hva = 0 /\ Fit(eic) /\ eic \in ControlBlocks
         /\ \A x \in Nat : Mapped(x, eic)
         /\ pte \in [DOMAIN pte -> PteStates] /\ pmd \in [DOMAIN pmd -> PmdStates]
         /\ vmas \in Seq(VmaType) /\ w \in Cursors
  <1>1. pc \in InTheKernel /\ Mapped(w.cur, eic) /\ Mapped(w.stop, eic)
    BY DEF InTheKernel, Inv, TypeInv
  <1> QED
    BY <1>1, InKernel DEF Mapped

\* Ends of pages are natural numbers.
LEMMA EndTypes ==
  ASSUME NEW a \in Nat, NEW b \in Nat
  PROVE  PudEnd(a, b) \in Nat /\ PmdEnd(a, b) \in Nat /\ Least(a, b) \in Nat
  <1>1. PudEnd(a, b) \in Nat /\ PmdEnd(a, b) \in Nat
    BY Ends
  <1> QED
    BY <1>1 DEF Least

\* Addresses without anything to test (walk_page_range and mm_idle_test_walk).
LEMMA PassOverKeeps ==
  ASSUME Inv, MmPassOver
  PROVE  Inv'
  <1> DEFINE a == w.cur
             i == FindVma(a)
             b == Least(w.stop, vmas[i].end)
  <1>1. /\ pc = "pages" /\ ~Kvm
        /\ UNCHANGED <<layout, vmas, vmai, va, end, next_va, parsed, pos, pte, pmd, eic>>
        /\ \E next \in PassedOver(a) : GoOn(next, FALSE)
    BY Zenon DEF MmPassOver, tableVars, userVars
  <1>2. /\ a \in Nat /\ w.stop \in Nat /\ vmas \in Seq(VmaType) /\ \A x \in Nat : Mapped(x, eic)
        /\ Fit(eic) /\ pte' \in [DOMAIN pte' -> PteStates] /\ pmd' \in [DOMAIN pmd' -> PmdStates]
    BY <1>1, InMmPages
  <1>3. PassedOver(a) \subseteq Nat
    <2>1. PassedOver(a) =
            CASE i = 0 -> {w.stop}
              [] i # 0 /\ a < vmas[i].start -> {Least(w.stop, vmas[i].start)}
              [] i # 0 /\ a >= vmas[i].start /\ test_walk_skips(vmas[i]) -> {b}
              [] OTHER -> IF pud[PudOf(a)] = "none" THEN {PudEnd(a, b)}
                          ELSE IF pud[PudOf(a)] = "table" /\ pmd[PmdOf(a)] = "none" THEN {PmdEnd(a, b)}
                          ELSE {}
      BY Zenon DEF PassedOver
    <2>2. CASE i = 0
      BY <1>2, <2>1, <2>2
    <2>3. CASE i # 0
      <3> DEFINE from == vmas[i].start
                 to == vmas[i].end
      <3>1. from \in Nat /\ to \in Nat
        BY <1>2, <2>3, FoundVma
      <3> HIDE DEF from, to
      <3>2. Least(w.stop, from) \in Nat /\ Least(w.stop, to) \in Nat
        BY <1>2, <3>1, EndTypes
      <3>3. b \in Nat
        BY <3>2 DEF to
      <3> HIDE DEF b
      <3>4. PudEnd(a, b) \in Nat /\ PmdEnd(a, b) \in Nat
        BY <1>2, <3>3, EndTypes
      <3>5. PassedOver(a) \in {{Least(w.stop, from)}, {b}, {PudEnd(a, b)}, {PmdEnd(a, b)}, {}}
        BY <1>2, <2>1, <2>3, <3>1 DEF from
      <3> QED
        BY <3>2, <3>3, <3>4, <3>5
    <2> QED
      BY <2>2, <2>3
  <1>4. PICK next \in PassedOver(a) : GoOn(next, FALSE)
    BY <1>1
  <1>5. Mapped(next, eic)
    BY <1>2, <1>3, <1>4
  <1> QED
    BY <1>1, <1>2, <1>4, <1>5, GoOnKeeps

\* The end of a VMA that holds the cursor.
LEMMA VmaEnd ==
  ASSUME Inv, pc = "pages", ~Kvm, PassedOver(w.cur) = {}
  PROVE  LET b == Least(w.stop, vmas[FindVma(w.cur)].end) IN
         PudEnd(w.cur, b) \in Nat /\ PmdEnd(w.cur, b) \in Nat
  <1> DEFINE to == vmas[FindVma(w.cur)].end
             b == Least(w.stop, to)
  <1>1. w.cur \in Nat /\ w.stop \in Nat /\ vmas \in Seq(VmaType)
    BY InMmPages
  <1>2. FindVma(w.cur) # 0
    BY DEF PassedOver
  <1>3. to \in Nat
    BY <1>1, <1>2, FoundVma
  <1> HIDE DEF to
  <1>4. b \in Nat
    BY <1>1, <1>3, EndTypes
  <1> HIDE DEF b
  <1>5. PudEnd(w.cur, b) \in Nat /\ PmdEnd(w.cur, b) \in Nat
    BY <1>1, <1>4, EndTypes
  <1> QED
    BY <1>5 DEF b, to

\* A PUD or a PMD of a process (mm_idle_pud_entry, mm_idle_pmd_entry).
LEMMA MmEntriesKeep ==
  ASSUME Inv, MmPudEntry \/ MmPmdEntry
  PROVE  Inv'
  <1> DEFINE a == w.cur
             b0 == Least(w.stop, vmas[FindVma(a)].end)
             big == PudEnd(a, b0)
             upto == PmdEnd(a, b0)
  <1>1. /\ pc = "pages" /\ ~Kvm /\ PassedOver(a) = {}
        /\ UNCHANGED <<layout, vmas, vmai, va, end, next_va, parsed, pos, pte>>
    BY DEF MmPudEntry, MmPmdEntry, tableVars, userVars
  <1>2. big \in Nat /\ upto \in Nat
    BY <1>1, VmaEnd, Zenon
  <1>3. /\ a \in Nat /\ \A x \in Nat : Mapped(x, eic)
        /\ eic.gpa_to_hva = 0 /\ Fit(eic) /\ eic \in ControlBlocks /\ w \in Cursors
        /\ pte' \in [DOMAIN pte' -> PteStates] /\ pmd \in [DOMAIN pmd -> PmdStates]
        /\ pc \in InTheKernel
    BY <1>1, InMmPages
  <1>4. ASSUME NEW e, Fit(e)
        PROVE  Fit([e EXCEPT !.last_va = a]) /\ [e EXCEPT !.last_va = a].gpa_to_hva = e.gpa_to_hva
    <2> DEFINE f == [e EXCEPT !.restart_gpa = e.restart_gpa, !.gpa_to_hva = e.gpa_to_hva,
                              !.last_va = a, !.full = e.full]
               g == [e EXCEPT !.last_va = a]
    <2>1. e \in ControlBlocks
      BY <1>4 DEF Fit
    <2>2. g = f
      BY <2>1, CursorUpdates
    <2>3. e.restart_gpa \in Nat /\ e.gpa_to_hva \in Int /\ e.full \in BOOLEAN
      BY <2>1 DEF ControlBlocks
    <2>7. a \in Int
      BY <1>3
    <2>4. Fit(f)
      BY <1>4, <2>3, <2>7, FitCursors, Zenon
    <2>5. g.gpa_to_hva = e.gpa_to_hva
      BY <2>1 DEF ControlBlocks
    <2> HIDE DEF f, g
    <2>6. Fit(g) /\ g.gpa_to_hva = e.gpa_to_hva
      BY <2>2, <2>4, <2>5
    <2> QED
      BY <2>6 DEF g
  <1>5. CASE MmPudEntry
    <2>1. /\ pmd' = pmd /\ w' = w /\ pc' = "copy"
          /\ \/ eic' = [eic_add_page(eic, a, big, "PUD_PRESENT") EXCEPT !.last_va = a]
             \/ eic' = eic
      BY <1>5, Zenon DEF MmPudEntry, tableVars
    <2> DEFINE e == eic_add_page(eic, a, big, "PUD_PRESENT")
    <2>2. Fit(e) /\ e.gpa_to_hva = eic.gpa_to_hva
      <3>1. "PUD_PRESENT" \in PageTypes /\ Mapped(a, eic) /\ Mapped(big, eic)
        BY <1>2, <1>3 DEF PageTypes
      <3> QED
        BY <1>3, <3>1, FitAdd
    <2> HIDE DEF e, big
    <2>3. eic' = [e EXCEPT !.last_va = a] \/ eic' = eic
      BY <2>1 DEF e
    <2>4. Fit(eic') /\ eic'.gpa_to_hva = 0
      BY <1>3, <1>4, <2>2, <2>3
    <2> QED
      BY <1>1, <1>3, <2>1, <2>4, KernelFrame
  <1>6. CASE MmPmdEntry
    <2> DEFINE e == [eic EXCEPT !.last_va = a]
    <2>1. \/ GoOn(upto, FALSE) /\ eic' = eic /\ pmd' = pmd
          \/ AddPmd(e, a, upto)
      BY <1>6, Zenon DEF MmPmdEntry
    <2>2. Fit(e) /\ e.gpa_to_hva = eic.gpa_to_hva
      BY <1>3, <1>4
    <2> HIDE DEF e, upto
    <2>3. Mapped(upto, eic)
      BY <1>2, <1>3
    <2>4. CASE GoOn(upto, FALSE) /\ eic' = eic /\ pmd' = pmd
      BY <1>1, <1>3, <2>3, <2>4, GoOnKeeps
    <2>5. CASE AddPmd(e, a, upto)
      BY <1>1, <2>2, <2>3, <2>5, AddPmdKeeps
    <2> QED
      BY <2>1, <2>4, <2>5
  <1> QED
    BY <1>5, <1>6

\* A copy ends the read or goes on with an empty buffer.
LEMMA CopyKeeps ==
  ASSUME Inv, Copy
  PROVE  Inv'
  <1> DEFINE start == eic.restart_gpa + eic.gpa_to_hva
             r == ept_idle_copy_user(eic, start, w.va_end)
             over == r.stop \/ start >= w.end
  <1>1. /\ pc = "copy" /\ eic' = r.eic /\ w' = [w EXCEPT !.start = start]
        /\ pc' = (IF over THEN "parse" ELSE "range")
        /\ pos' = (IF over /\ r.eic.bytes_copied > 0 THEN r.eic.next_hva ELSE pos)
        /\ UNCHANGED <<layout, vmas, vmai, va, end, next_va, parsed, pte, pmd>>
    BY Zenon DEF Copy, tableVars, userVars
  <1>2. pc \in InTheKernel
    BY <1>1 DEF InTheKernel
  <1>3. /\ layout \in Layouts /\ vmas \in Seq(VmaType)
        /\ pte \in [DOMAIN pte -> PteStates] /\ pmd \in [DOMAIN pmd -> PmdStates]
        /\ vmai \in 1 .. Len(layout.vmas) + 1 /\ vmai <= Len(layout.vmas)
        /\ va \in Nat /\ end \in Nat /\ next_va \in Nat /\ pos \in Nat /\ parsed \in Nat
        /\ eic.gpa_to_hva \in Int /\ eic.restart_gpa \in Nat /\ Fit(eic) /\ (~Kvm => eic.gpa_to_hva = 0)
        /\ w \in Cursors /\ w.va_end \in Nat
    BY <1>2, InKernel
  <1>4. start \in Int /\ (~Kvm => start \in Nat)
    BY <1>3
  <1> HIDE DEF start
  <1>5. /\ r.stop \in BOOLEAN /\ r.eic \in ControlBlocks
        /\ r.eic.gpa_to_hva = eic.gpa_to_hva
        /\ r.eic.pie_read = BytesOf(r.eic.kpie) /\ r.eic.bytes_copied = BytesOf(r.eic.out)
        /\ r.eic.pie_read <= KBufSize /\ r.eic.bytes_copied <= r.eic.buf_size
        /\ ~r.stop => Fit(r.eic)
    BY <1>3, <1>4, CopyFits, Zenon
  <1> HIDE DEF r
  <1>6. Kvm' <=> Kvm
    BY <1>1 DEF Kvm
  <1>7. w' \in Cursors /\ w'.start = start
    BY <1>1, <1>3, <1>4 DEF Cursors
  <1>8. r.eic.next_hva \in Nat
    BY <1>5 DEF ControlBlocks
  <1>9. pos' \in Nat /\ pc' \in {"parse", "range"} /\ (pc' = "range" => ~r.stop)
    BY <1>1, <1>3, <1>8
  <1>10. TypeInv'
    BY <1>1, <1>3, <1>4, <1>5, <1>6, <1>7, <1>9 DEF TypeInv, AtVma
  <1>11. Room'
    BY <1>1, <1>5, <1>9 DEF Room, InTheKernel
  <1> QED
    BY <1>10, <1>11 DEF Inv

-----------------------------------------------------------------------------
(* The process keeps the invariant, and with it every step does.           *)

\* A step of the process changes its own page table and VMAs only.
LEMMA ProcessKeeps ==
  ASSUME Inv, Touch \/ Remap \/ ChangeVmas
  PROVE  Inv'
  <1>1. UNCHANGED <<layout, pc, vmai, va, end, next_va, parsed, pos, eic, w>>
    BY DEF Touch, Remap, ChangeVmas, userVars
  <1>2. /\ layout \in Layouts /\ vmas \in Seq(VmaType)
        /\ pte \in [DOMAIN pte -> PteStates] /\ pmd \in [DOMAIN pmd -> PmdStates]
    BY DEF Inv, TypeInv
  <1>3. vmas' \in Seq(VmaType)
    BY <1>2, LayoutTypes DEF Touch, Remap, ChangeVmas
  <1>4. pte' \in [DOMAIN pte' -> PteStates] /\ pmd' \in [DOMAIN pmd' -> PmdStates]
    <2>1. CASE Touch
      BY <1>2, <2>1 DEF Touch, PteStates, PmdStates
    <2>2. CASE Remap
      <3>1. PICK i \in DOMAIN pmd :
              \/ /\ pmd' = [pmd EXCEPT ![i] = "none"]
                 /\ pte' = [a \in DOMAIN pte |-> IF PmdOf(a) = i THEN "none" ELSE pte[a]]
              \/ /\ pmd[i] \in {"idle", "accessed"} /\ pmd' = [pmd EXCEPT ![i] = "table"]
                 /\ pte' = [a \in DOMAIN pte |-> IF PmdOf(a) = i THEN pmd[i] ELSE pte[a]]
              \/ /\ pmd' = [pmd EXCEPT ![i] = "idle"]
                 /\ pte' = [a \in DOMAIN pte |-> IF PmdOf(a) = i THEN "none" ELSE pte[a]]
        BY <2>2, Zenon DEF Remap
      <3>2. pmd' \in [DOMAIN pmd' -> PmdStates]
        BY <1>2, <3>1 DEF PmdStates
      <3>3. pte' \in [DOMAIN pte' -> PteStates]
        BY <1>2, <3>1 DEF PteStates
      <3> QED
        BY <3>2, <3>3
    <2>3. CASE ChangeVmas
      BY <1>2, <2>3 DEF ChangeVmas
    <2> QED
      BY <2>1, <2>2, <2>3
  <1>5. Kvm' <=> Kvm
    BY <1>1 DEF Kvm
  <1>6. TypeInv'
    BY <1>1, <1>3, <1>4, <1>5 DEF Inv, TypeInv
  <1>7. Room'
    BY <1>1 DEF Inv, Room
  <1> QED
    BY <1>6, <1>7 DEF Inv

\* Every step keeps the invariant.
LEMMA NextInv == Inv /\ [Next]_vars => Inv'
  <1> SUFFICES ASSUME Inv, [Next]_vars PROVE Inv'
    OBVIOUS
  <1>1. CASE UserNext
    BY <1>1, UserNextKeeps
  <1>2. CASE KernelNext
    BY <1>2, RangeKeeps, KvmPagesKeeps, AddPteKeeps, PassOverKeeps, MmEntriesKeep, CopyKeeps
       DEF KernelNext
  <1>3. CASE Touch \/ Remap \/ ChangeVmas
    BY <1>3, ProcessKeeps
  <1>4. CASE UNCHANGED vars
    <2>1. UNCHANGED <<layout, vmas, pmd, pte, pc, vmai, va, end, next_va, parsed, pos, eic, w>>
      BY <1>4 DEF vars, tableVars, userVars
    <2>2. Kvm' <=> Kvm
      BY <2>1 DEF Kvm
    <2>3. TypeInv'
      BY <2>1, <2>2 DEF Inv, TypeInv
    <2>4. Room'
      BY <2>1 DEF Inv, Room
    <2> QED
      BY <2>3, <2>4 DEF Inv
  <1> QED
    BY <1>1, <1>2, <1>3, <1>4 DEF Next, Finished

\* The invariant holds throughout every walk.
LEMMA InvHolds == Spec => []Inv
  BY InitInv, NextInv, PTL DEF Spec

\* Every item of a report is an address or a run of at most MaxRun pages, and the
\* cursors of a walk are addresses (eic_add_page, walk_vma).
THEOREM TypeCorrect == Spec => []TypeOK
  <1>1. Inv => TypeOK
    <2> SUFFICES ASSUME Inv PROVE TypeOK
      OBVIOUS
    <2>1. TypeInv
      BY DEF Inv
    <2>2. eic.kpie \in Seq(Items)
      BY <2>1 DEF TypeInv, ControlBlocks
    <2>3. \A i \in 1 .. Len(eic.kpie) : eic.kpie[i] \in Items
      BY <2>2
    <2> QED
      BY <2>1, <2>3 DEF TypeOK, TypeInv, AtVma
  <1> QED
    BY <1>1, InvHolds, PTL

\* Neither the kernel's buffer nor the reader's is written behind its end: the room
\* init_ept_idle_ctrl_buffer() keeps is enough for the SET_HVA of ept_idle_copy_user().
THEOREM BuffersNotOverrun == Spec => []BuffersFit
  <1>1. Inv => BuffersFit
    <2> SUFFICES ASSUME Inv PROVE BuffersFit
      OBVIOUS
    <2>1. /\ eic.pie_read = BytesOf(eic.kpie) /\ eic.bytes_copied = BytesOf(eic.out)
          /\ eic.pie_read <= KBufSize /\ eic.bytes_copied <= eic.buf_size
          /\ pc \in InTheKernel => Fit(eic)
      BY DEF Inv, Room
    <2>2. CASE pc = "copy"
      <3> DEFINE start == eic.restart_gpa + eic.gpa_to_hva
                 f == WithTailHole(eic, start, w.va_end)
      <3>1. pc \in InTheKernel
        BY <2>2 DEF InTheKernel
      <3>2. start \in Int /\ w.va_end \in Nat /\ Fit(eic)
        BY <3>1, InKernel
      <3> HIDE DEF start
      <3>3. /\ f.pie_read = BytesOf(f.kpie) /\ f.bytes_copied = eic.bytes_copied
            /\ f.buf_size = eic.buf_size
            /\ f.pie_read <= KBufSize /\ f.pie_read + f.bytes_copied <= f.buf_size
            /\ f \in ControlBlocks
        BY <3>2, TailFits, Zenon
      <3>4. Packed = f
        BY <2>2, Zenon DEF Packed, start
      <3> HIDE DEF f
      <3>5. f.pie_read \in Nat /\ f.bytes_copied \in Nat
        BY <3>3 DEF ControlBlocks
      <3>6. eic.bytes_copied + Packed.pie_read <= eic.buf_size
        BY <3>3, <3>4, <3>5
      <3> QED
        BY <2>1, <3>3, <3>4, <3>6 DEF BuffersFit
    <2>3. CASE pc \in {"pages", "ptes"}
      <3>1. pc \in InTheKernel
        BY <2>3 DEF InTheKernel
      <3>2. Fit(eic) /\ eic \in ControlBlocks
        BY <3>1, InKernel
      <3>3. /\ eic.pie_read \in Nat /\ eic.pie_read_max \in Int /\ eic.bytes_copied \in Nat
            /\ eic.buf_size \in Nat /\ AddrBytes \in Nat
        BY <3>2, StreamAssumption DEF ControlBlocks
      <3>4. eic.bytes_copied + eic.pie_read <= eic.buf_size
        BY <3>2, <3>3 DEF Fit
      <3>5. Packed = eic
        BY <2>3 DEF Packed
      <3> QED
        BY <2>1, <3>4, <3>5 DEF BuffersFit
    <2>4. CASE pc \notin {"copy", "pages", "ptes"}
      <3>1. Packed = eic
        BY <2>4 DEF Packed
      <3> QED
        BY <2>1, <2>4, <3>1 DEF BuffersFit
    <2> QED
      BY <2>2, <2>3, <2>4
  <1> QED
    BY <1>1, InvHolds, PTL

-----------------------------------------------------------------------------
(* Division.                                                               *)

\* Division with remainder.
LEMMA Division ==
  ASSUME NEW a \in Nat, NEW s \in Nat \ {0}
  PROVE  a \div s \in Nat /\ a % s \in 0 .. s - 1 /\ a = s * (a \div s) + (a % s)
  OBVIOUS

\* A smaller quotient leaves a larger remainder.
LEMMA QuotientOrder ==
  ASSUME NEW s \in Nat \ {0}, NEW q \in Nat, NEW d \in Nat, NEW r \in 0 .. s - 1, NEW t \in Nat,
         s * q + r = s * d + t
  PROVE  q >= d
  <1>1. CASE q < d
    <2>1. PICK k \in Nat : d = q + 1 + k
      <3>1. d - (q + 1) \in Nat /\ d = q + 1 + (d - (q + 1))
        BY <1>1
      <3> QED
        BY <3>1
    <2>2. s * (q + 1 + k) = s * q + s + s * k
      OBVIOUS
    <2>3. s * k \in Nat /\ s * q \in Nat
      OBVIOUS
    <2> QED
      BY <2>1, <2>2, <2>3
  <1> QED
    BY <1>1

\* The quotient and the remainder are the only ones.
LEMMA DivisionUnique ==
  ASSUME NEW a \in Nat, NEW s \in Nat \ {0}, NEW q \in Nat, NEW r \in 0 .. s - 1, a = s * q + r
  PROVE  a \div s = q /\ a % s = r
  <1> DEFINE d == a \div s
             t == a % s
  <1>1. d \in Nat /\ t \in 0 .. s - 1 /\ a = s * d + t
    BY Division
  <1> HIDE DEF d, t
  <1>2. q >= d /\ d >= q
    BY <1>1, QuotientOrder
  <1>3. q = d
    BY <1>1, <1>2
  <1>4. s * q = s * d /\ s * q \in Int
    BY <1>3
  <1>5. r = t
    BY <1>1, <1>3, <1>4
  <1> QED
    BY <1>3, <1>5 DEF d, t

\* One more of the divisor leaves the same remainder.
LEMMA NextRemainder ==
  ASSUME NEW a \in Nat, NEW s \in Nat \ {0}
  PROVE  (a + s) % s = a % s /\ (a + s) \div s = (a \div s) + 1
  <1> DEFINE d == a \div s
             t == a % s
             b == a + s
             e == d + 1
  <1>1. d \in Nat /\ t \in 0 .. s - 1 /\ a = s * d + t
    BY Division
  <1> HIDE DEF d, t
  <1>2. s * (d + 1) = s * d + s /\ s * d \in Nat
    BY <1>1
  <1>3. b = s * e + t /\ e \in Nat /\ b \in Nat
    BY <1>1, <1>2
  <1> HIDE DEF b, e
  <1>4. b % s = t /\ b \div s = e
    BY <1>1, <1>3, DivisionUnique
  <1> QED
    BY <1>4 DEF b, t, d, e

-----------------------------------------------------------------------------
(* What the parser makes of a report.                                      *)

\* A page counted, and where a parser stands.
Counted == [type : PageTypes, va : Nat]
Parsers == [va : Nat, refs : Seq(Counted), late : SUBSET Nat]

\* f runs through what the parser makes of the first n items.
ParsesThrough(f, items, n, p0, to) ==
  /\ f[0] = p0
  /\ \A i \in 1..n : f[i] = ParseItem(f[i - 1], items[i], to)

\* f is what the recursive definition of a parser describes.
IsParse(f, items, n, p0, to) ==
  f = [i \in 0..n |-> IF i = 0 THEN p0 ELSE ParseItem(f[i - 1], items[i], to)]

\* The function that the recursive definition of a parser describes exists.
LEMMA ParseExists ==
  ASSUME NEW items, NEW n \in Nat, NEW p0, NEW to
  PROVE  \E f : IsParse(f, items, n, p0, to)
  <1> DEFINE Is(f, k) == f = [i \in 0..k |-> IF i = 0 THEN p0 ELSE ParseItem(f[i - 1], items[i], to)]
             S == {k \in Nat : \E f : Is(f, k)}
  <1>1. 0 \in S
    <2>1. Is([i \in 0..0 |-> p0], 0)
      OBVIOUS
    <2> QED
      BY <2>1
  <1>2. ASSUME NEW k \in Nat, k \in S PROVE k + 1 \in S
    <2>1. PICK f : Is(f, k)
      BY <1>2
    <2> DEFINE g == [i \in 0..(k + 1) |-> IF i <= k THEN f[i] ELSE ParseItem(f[k], items[k + 1], to)]
    <2>2. \A i \in 0..k : f[i] = IF i = 0 THEN p0 ELSE ParseItem(f[i - 1], items[i], to)
      BY <2>1
    <2>3. \A i \in 0..(k + 1) : g[i] = IF i = 0 THEN p0 ELSE ParseItem(g[i - 1], items[i], to)
      <3> SUFFICES ASSUME NEW i \in 0..(k + 1)
                   PROVE  g[i] = IF i = 0 THEN p0 ELSE ParseItem(g[i - 1], items[i], to)
        OBVIOUS
      <3>1. CASE i <= k
        <4>1. g[i] = f[i] /\ (i # 0 => g[i - 1] = f[i - 1])
          BY <3>1
        <4> QED
          BY <2>2, <3>1, <4>1
      <3>2. CASE i = k + 1
        <4>1. g[i] = ParseItem(f[k], items[k + 1], to) /\ g[i - 1] = f[k] /\ i # 0
          BY <3>2
        <4> QED
          BY <3>2, <4>1
      <3> QED
        BY <3>1, <3>2
    <2>4. g = [i \in 0..(k + 1) |-> g[i]]
      OBVIOUS
    <2> HIDE DEF g
    <2>5. Is(g, k + 1)
      BY <2>3, <2>4
    <2> QED
      BY <2>5
  <1> HIDE DEF S
  <1>3. n \in S
    BY <1>1, <1>2, SetInduction
  <1> QED
    BY <1>3 DEF S, IsParse

\* Where the parser starts.
Start(va0) == [va |-> va0, refs |-> <<>>, late |-> {}]

\* parse_idlepages() is the last element of a function that parses through the items.
LEMMA ParseRuns ==
  ASSUME NEW T, NEW items \in Seq(T), NEW va0, NEW to
  PROVE  \E f : ParsesThrough(f, items, Len(items), Start(va0), to)
                /\ parse_idlepages(items, va0, to) = f[Len(items)]
  <1> DEFINE n == Len(items)
             p0 == Start(va0)
             f0 == CHOOSE f : IsParse(f, items, n, p0, to)
  <1>0. n \in Nat
    OBVIOUS
  <1>1. parse_idlepages(items, va0, to) = f0[n]
    BY Zenon DEF parse_idlepages, Start, IsParse
  <1> HIDE DEF n, p0
  <1>2. \E f : IsParse(f, items, n, p0, to)
    BY <1>0, ParseExists, Zenon
  <1>3. IsParse(f0, items, n, p0, to)
    BY <1>2, Zenon
  <1> HIDE DEF f0
  <1>4. ParsesThrough(f0, items, n, p0, to)
    BY <1>0, <1>3 DEF ParsesThrough, IsParse
  <1> QED
    BY <1>1, <1>4 DEF n, p0

\* Only one function parses through the items.
LEMMA ParsesUnique ==
  ASSUME NEW items, NEW n \in Nat, NEW p0, NEW to, NEW f, NEW g,
         ParsesThrough(f, items, n, p0, to), ParsesThrough(g, items, n, p0, to)
  PROVE  f[n] = g[n]
  <1> DEFINE S == {k \in Nat : k <= n => f[k] = g[k]}
  <1>1. 0 \in S
    BY DEF ParsesThrough
  <1>2. ASSUME NEW k \in Nat, k \in S PROVE k + 1 \in S
    <2> SUFFICES ASSUME k + 1 <= n PROVE f[k + 1] = g[k + 1]
      OBVIOUS
    <2>1. k + 1 \in 1..n /\ (k + 1) - 1 = k /\ f[k] = g[k]
      BY <1>2
    <2> QED
      BY <2>1 DEF ParsesThrough
  <1> HIDE DEF S
  <1>3. n \in S
    BY <1>1, <1>2, SetInduction
  <1> QED
    BY <1>3 DEF S

\* The parser of no items has not moved.
LEMMA ParseNothing ==
  ASSUME NEW va0, NEW to
  PROVE  parse_idlepages(<<>>, va0, to) = Start(va0)
  <1>1. <<>> \in Seq(Items) /\ Len(<<>>) = 0
    OBVIOUS
  <1>2. PICK f : ParsesThrough(f, <<>>, Len(<<>>), Start(va0), to)
                 /\ parse_idlepages(<<>>, va0, to) = f[Len(<<>>)]
    BY <1>1, ParseRuns
  <1> QED
    BY <1>1, <1>2 DEF ParsesThrough

\* One more item is parsed behind the others (parse_idlepages).
LEMMA ParseAppend ==
  ASSUME NEW T, NEW items \in Seq(T), NEW item \in T, NEW va0, NEW to
  PROVE  parse_idlepages(Append(items, item), va0, to)
           = ParseItem(parse_idlepages(items, va0, to), item, to)
  <1> DEFINE n == Len(items)
             more == Append(items, item)
  <1>1. /\ n \in Nat /\ more \in Seq(T) /\ Len(more) = n + 1 /\ more[n + 1] = item
        /\ \A i \in 1..n : more[i] = items[i]
    OBVIOUS
  <1> HIDE DEF more
  <1>2. PICK f : ParsesThrough(f, items, n, Start(va0), to) /\ parse_idlepages(items, va0, to) = f[n]
    BY ParseRuns
  <1>3. PICK g : ParsesThrough(g, more, Len(more), Start(va0), to)
                 /\ parse_idlepages(more, va0, to) = g[Len(more)]
    BY <1>1, ParseRuns
  <1> HIDE DEF n
  <1>4. ParsesThrough(g, items, n, Start(va0), to)
    BY <1>1, <1>3 DEF ParsesThrough
  <1>5. f[n] = g[n]
    BY <1>1, <1>2, <1>4, ParsesUnique
  <1>6. n + 1 \in 1 .. n + 1 /\ (n + 1) - 1 = n
    BY <1>1
  <1>7. g[n + 1] = ParseItem(g[n], item, to)
    BY <1>1, <1>3, <1>6 DEF ParsesThrough
  <1> QED
    BY <1>1, <1>2, <1>3, <1>5, <1>7 DEF more

-----------------------------------------------------------------------------
(* One page more in a report.                                              *)

\* A page that is not a hole is counted where it is aligned (inc_page_refs).
Counts(type, at) ==
  IF type \in HoleTypes \/ at % pagetype_size(type) # 0 THEN <<>>
  ELSE <<[type |-> type, va |-> at]>>

\* A parser q is one page of a type further than p.
PageMore(p, q, type) ==
  /\ q \in Parsers /\ q.late = {}
  /\ q.va = p.va + pagetype_size(type)
  /\ q.refs = p.refs \o Counts(type, p.va)

\* As many pages of a size fit below a number as it holds multiples of the size.
LEMMA AtLeastDivided ==
  ASSUME NEW x \in Nat, NEW s \in Nat \ {0}, NEW q \in Nat, x >= q * s
  PROVE  x \div s \in Nat /\ x \div s >= q
  <1> DEFINE d == x \div s
             r == x % s
             t == x - q * s
  <1>1. d \in Nat /\ r \in 0 .. s - 1 /\ x = s * d + r
    BY Division
  <1>2. q * s = s * q /\ s * q \in Nat
    OBVIOUS
  <1>3. t \in Nat /\ x = s * q + t
    BY <1>2
  <1> HIDE DEF d, r, t
  <1>4. d >= q
    BY <1>1, <1>3, QuotientOrder
  <1> QED
    BY <1>1, <1>4 DEF d

\* A number and one that is a multiple further have the same remainder.
LEMMA SameRemainder ==
  ASSUME NEW a \in Nat, NEW s \in Nat \ {0}, NEW n \in Nat
  PROVE  n * s \in Nat /\ (a + n * s) % s = a % s
  <1> DEFINE S == {k \in Nat : k * s \in Nat /\ (a + k * s) % s = a % s}
  <1>1. 0 \in S
    OBVIOUS
  <1>2. ASSUME NEW k \in Nat, k \in S PROVE k + 1 \in S
    <2>1. k * s \in Nat /\ (a + k * s) % s = a % s
      BY <1>2
    <2> DEFINE m == k * s
               b == a + m
    <2>2. (k + 1) * s = m + s
      OBVIOUS
    <2>3. m \in Nat /\ b \in Nat /\ b % s = a % s
      BY <2>1
    <2> HIDE DEF b
    <2>4. (b + s) % s = b % s
      BY <2>3, NextRemainder
    <2>5. a + (m + s) = b + s
      BY <2>3 DEF b
    <2>6. (k + 1) * s \in Nat /\ (a + (k + 1) * s) % s = a % s
      BY <2>2, <2>3, <2>4, <2>5
    <2> QED
      BY <2>6
  <1> HIDE DEF S
  <1>3. n \in S
    BY <1>1, <1>2, SetInduction
  <1> QED
    BY <1>3 DEF S

\* The pages a run counts (inc_page_refs).
LEMMA RunCounts ==
  ASSUME NEW type \in PageTypes, NEW n \in Nat, NEW at \in Nat, NEW to \in Nat,
         at + n * pagetype_size(type) < to
  PROVE  /\ inc_page_refs(type, n, at, to) \in Seq(Counted)
         /\ type \notin HoleTypes =>
              inc_page_refs(type, n + 1, at, to)
                = inc_page_refs(type, n, at, to) \o Counts(type, at + n * pagetype_size(type))
         /\ inc_page_refs(type, 0, at, to) = <<>>
  <1> DEFINE size == pagetype_size(type)
             room == (to - at + size - 1) \div size
             page(i) == [type |-> type, va |-> at + (i - 1) * size]
             run(k) == [i \in 1 .. Least(k, room) |-> page(i)]
             m == n * size
  <1>1. size \in Nat \ {0}
    BY PageSizes
  <1>2. \A k : inc_page_refs(type, k, at, to) = IF at % size # 0 THEN <<>> ELSE run(k)
    BY Zenon DEF inc_page_refs
  <1>3. (at + m) % size = at % size /\ m \in Nat
    BY <1>1, SameRemainder
  <1>4. Counts(type, at + m) = IF type \in HoleTypes \/ (at + m) % size # 0 THEN <<>>
                               ELSE <<[type |-> type, va |-> at + m]>>
    BY Zenon DEF Counts
  <1>5. page(n + 1) = [type |-> type, va |-> at + m]
    OBVIOUS
  <1> HIDE DEF size
  <1>6. room \in Nat /\ room >= n + 1
    <2> DEFINE x == to - at + size - 1
    <2>1. (n + 1) * size = m + size
      BY <1>1
    <2> HIDE DEF m
    <2>2. x \in Nat /\ x >= m + size
      BY <1>1, <1>3 DEF m, size
    <2> HIDE DEF x
    <2>3. x \div size \in Nat /\ x \div size >= n + 1
      BY <1>1, <2>1, <2>2, AtLeastDivided
    <2> QED
      BY <2>3 DEF x
  <1> HIDE DEF room
  <1>7. Least(n, room) = n /\ Least(n + 1, room) = n + 1 /\ Least(0, room) = 0
    BY <1>6 DEF Least
  <1>8. \A i \in 1 .. n + 1 : page(i) \in Counted
    <2> SUFFICES ASSUME NEW i \in 1 .. n + 1 PROVE page(i) \in Counted
      OBVIOUS
    <2>1. (i - 1) * size \in Nat
      BY <1>1
    <2>2. at + (i - 1) * size \in Nat
      BY <2>1
    <2> QED
      BY <2>2 DEF Counted
  <1> HIDE DEF page, m
  <1>9. run(n) \in Seq(Counted) /\ run(n + 1) = run(n) \o <<page(n + 1)>> /\ run(0) = <<>>
    <2>1. run(n) = [i \in 1 .. n |-> page(i)] /\ run(n + 1) = [i \in 1 .. n + 1 |-> page(i)]
      BY <1>7
    <2>2. run(0) = <<>>
      BY <1>7
    <2>3. [i \in 1 .. n |-> page(i)] \in Seq(Counted)
      BY <1>8
    <2>4. [i \in 1 .. n + 1 |-> page(i)] = [i \in 1 .. n |-> page(i)] \o <<page(n + 1)>>
      BY <1>8
    <2> QED
      BY <2>1, <2>2, <2>3, <2>4
  <1> HIDE DEF run
  <1>10. inc_page_refs(type, n, at, to) \in Seq(Counted) /\ inc_page_refs(type, 0, at, to) = <<>>
    <2>1. <<>> \in Seq(Counted)
      OBVIOUS
    <2>2. inc_page_refs(type, n, at, to) \in {<<>>, run(n)} /\ inc_page_refs(type, 0, at, to) \in {<<>>, run(0)}
      BY <1>2
    <2> QED
      BY <1>9, <2>1, <2>2
  <1>11. ASSUME type \notin HoleTypes
         PROVE  inc_page_refs(type, n + 1, at, to) = inc_page_refs(type, n, at, to) \o Counts(type, at + m)
    <2>1. CASE at % size # 0
      <3>1. inc_page_refs(type, n + 1, at, to) = <<>> /\ inc_page_refs(type, n, at, to) = <<>>
            /\ Counts(type, at + m) = <<>>
        BY <1>2, <1>3, <1>4, <2>1
      <3> QED
        BY <3>1
    <2>2. CASE at % size = 0
      <3>1. inc_page_refs(type, n + 1, at, to) = run(n + 1) /\ inc_page_refs(type, n, at, to) = run(n)
            /\ Counts(type, at + m) = <<page(n + 1)>>
        BY <1>2, <1>3, <1>4, <1>5, <1>11, <2>2
      <3> QED
        BY <1>9, <3>1
    <2> QED
      BY <2>1, <2>2
  <1> QED
    BY <1>10, <1>11 DEF m, size

\* An address, or a run met in the range, moves the parser; one met behind the
\* range ends the parse (parse_idlepages).
LEMMA ParserMoves ==
  ASSUME NEW p \in Parsers, p.late = {}, NEW to \in Nat
  PROVE  /\ \A at \in Nat :
              LET q == ParseItem(p, SetHva(at), to) IN
              q \in Parsers /\ q.va = at /\ q.refs = p.refs /\ q.late = {}
         /\ \A type \in PageTypes, n \in Nat :
              LET q == ParseItem(p, Run(type, n), to) IN
              /\ p.va < to =>
                   /\ q.late = {} /\ q.va = p.va + pagetype_size(type) * n
                   /\ q.refs = IF type \in HoleTypes THEN p.refs
                               ELSE p.refs \o inc_page_refs(type, n, p.va, to)
                   /\ q = [va |-> q.va, refs |-> q.refs, late |-> {}]
              /\ p.va >= to => q \in Parsers /\ q.late # {}
  <1>1. p = [va |-> p.va, refs |-> p.refs, late |-> {}] /\ p.va \in Nat /\ p.refs \in Seq(Counted)
    BY DEF Parsers
  <1>2. ASSUME NEW at \in Nat
        PROVE  LET q == ParseItem(p, SetHva(at), to) IN
               q \in Parsers /\ q.va = at /\ q.refs = p.refs /\ q.late = {}
    <2>1. ParseItem(p, SetHva(at), to) = [p EXCEPT !.va = at]
      BY DEF ParseItem, SetHva
    <2> QED
      BY <2>1 DEF Parsers
  <1>3. ASSUME NEW type \in PageTypes, NEW n \in Nat, p.va < to
        PROVE  LET q == ParseItem(p, Run(type, n), to) IN
               /\ q.late = {} /\ q.va = p.va + pagetype_size(type) * n
               /\ q.refs = IF type \in HoleTypes THEN p.refs
                           ELSE p.refs \o inc_page_refs(type, n, p.va, to)
               /\ q = [va |-> q.va, refs |-> q.refs, late |-> {}]
    <2> DEFINE more == p.va + pagetype_size(type) * n
               list == IF type \in HoleTypes THEN p.refs ELSE p.refs \o inc_page_refs(type, n, p.va, to)
    <2>1. Run(type, n).type = type /\ Run(type, n).arg = n /\ type # "SET_HVA"
      BY DEF Run, PageTypes, PteTypes, PmdTypes
    <2>2. ~(p.va >= to)
      BY <1>1, <1>3
    <2>3. ParseItem(p, Run(type, n), to) = [p EXCEPT !.va = more, !.refs = list]
      BY <2>1, <2>2 DEF ParseItem
    <2> HIDE DEF more, list
    <2>4. ParseItem(p, Run(type, n), to) = [va |-> more, refs |-> list, late |-> {}]
      BY <1>1, <2>3
    <2> QED
      BY <2>4 DEF more, list
  <1>4. ASSUME NEW type \in PageTypes, NEW n \in Nat, p.va >= to
        PROVE  ParseItem(p, Run(type, n), to) \in Parsers /\ ParseItem(p, Run(type, n), to).late # {}
    <2>1. Run(type, n).type = type /\ type # "SET_HVA"
      BY DEF Run, PageTypes, PteTypes, PmdTypes
    <2>2. ParseItem(p, Run(type, n), to) = [p EXCEPT !.late = {p.va}]
      BY <1>4, <2>1 DEF ParseItem
    <2> QED
      BY <1>1, <2>2 DEF Parsers
  <1> QED
    BY <1>2, <1>3, <1>4

\* An item is an address or a run.
LEMMA ItemKinds ==
  ASSUME NEW item \in Items
  PROVE  \/ \E at \in Nat : item = SetHva(at)
         \/ \E type \in PageTypes, n \in 1 .. MaxRun : item = Run(type, n)
  <1>1. CASE item \in [type : {"SET_HVA"}, arg : Nat]
    <2>1. item = [type |-> "SET_HVA", arg |-> item.arg] /\ item.arg \in Nat
      BY <1>1
    <2> QED
      BY <2>1 DEF SetHva
  <1>2. CASE item \in [type : PageTypes, arg : 1 .. MaxRun]
    <2>1. item = [type |-> item.type, arg |-> item.arg] /\ item.type \in PageTypes /\ item.arg \in 1 .. MaxRun
      BY <1>2
    <2> QED
      BY <2>1 DEF Run
  <1> QED
    BY <1>1, <1>2 DEF Items

\* The list of a run's pages (inc_page_refs).
LEMMA RunList ==
  ASSUME NEW type \in PageTypes, NEW n \in Nat, NEW at \in Nat, NEW to \in Nat, at < to
  PROVE  inc_page_refs(type, n, at, to) \in Seq(Counted)
  <1> DEFINE size == pagetype_size(type)
             room == (to - at + size - 1) \div size
             page(i) == [type |-> type, va |-> at + (i - 1) * size]
             k == Least(n, room)
             run == [i \in 1 .. k |-> page(i)]
  <1>1. size \in Nat \ {0}
    BY PageSizes
  <1>2. inc_page_refs(type, n, at, to) = IF at % size # 0 THEN <<>> ELSE run
    BY Zenon DEF inc_page_refs
  <1> HIDE DEF size
  <1>3. room \in Nat
    <2> DEFINE x == to - at + size - 1
    <2>1. x \in Nat
      BY <1>1
    <2> HIDE DEF x
    <2>2. x \div size \in Nat
      BY <1>1, <2>1
    <2> QED
      BY <2>2 DEF x
  <1> HIDE DEF room
  <1>4. k \in Nat
    BY <1>3 DEF Least
  <1> HIDE DEF k
  <1>5. \A i \in 1 .. k : page(i) \in Counted
    <2> SUFFICES ASSUME NEW i \in 1 .. k PROVE page(i) \in Counted
      OBVIOUS
    <2>1. (i - 1) * size \in Nat
      BY <1>1
    <2>2. at + (i - 1) * size \in Nat
      BY <2>1
    <2> QED
      BY <2>2 DEF Counted
  <1> HIDE DEF page
  <1>6. run \in Seq(Counted) /\ <<>> \in Seq(Counted)
    BY <1>4, <1>5
  <1> QED
    BY <1>2, <1>6

\* A parser keeps its type.
LEMMA ParserKeeps ==
  ASSUME NEW p \in Parsers, NEW item \in Items, NEW to \in Nat
  PROVE  ParseItem(p, item, to) \in Parsers
  <1> DEFINE q == ParseItem(p, item, to)
  <1>1. p.va \in Nat /\ p.refs \in Seq(Counted)
    BY DEF Parsers
  <1>2. CASE p.late # {}
    BY <1>2 DEF ParseItem
  <1>3. CASE p.late = {} /\ \E at \in Nat : item = SetHva(at)
    BY <1>3, ParserMoves
  <1>4. CASE p.late = {} /\ \E type \in PageTypes, n \in 1 .. MaxRun : item = Run(type, n)
    <2>1. PICK type \in PageTypes, n \in 1 .. MaxRun : item = Run(type, n)
      BY <1>4
    <2>2. n \in Nat /\ pagetype_size(type) \in Nat
      BY PageSizes, StreamAssumption
    <2>3. CASE p.va >= to
      BY <1>4, <2>1, <2>2, <2>3, ParserMoves
    <2>4. CASE p.va < to
      <3> DEFINE list == inc_page_refs(type, n, p.va, to)
                 more == pagetype_size(type) * n
      <3>1. list \in Seq(Counted)
        BY <1>1, <2>2, <2>4, RunList
      <3>2. LET r == ParseItem(p, Run(type, n), to) IN
            /\ r.late = {} /\ r.va = p.va + pagetype_size(type) * n
            /\ r.refs = IF type \in HoleTypes THEN p.refs ELSE p.refs \o list
            /\ r = [va |-> r.va, refs |-> r.refs, late |-> {}]
        BY <1>4, <2>1, <2>2, <2>4, ParserMoves
      <3>3. more \in Nat
        BY <2>2
      <3>6. /\ q.va = p.va + more /\ q = [va |-> q.va, refs |-> q.refs, late |-> {}]
            /\ q.refs = IF type \in HoleTypes THEN p.refs ELSE p.refs \o list
        BY <2>1, <3>2, Zenon
      <3> HIDE DEF list, more, q
      <3>4. q.va \in Nat /\ q.refs \in Seq(Counted)
        BY <1>1, <3>1, <3>3, <3>6
      <3>5. q \in Parsers
        <4>1. PICK x \in Nat, y \in Seq(Counted) : q = [va |-> x, refs |-> y, late |-> {}]
          BY <3>4, <3>6
        <4> QED
          BY <4>1 DEF Parsers
      <3> QED
        BY <3>5 DEF q
    <2> QED
      BY <1>1, <2>3, <2>4
  <1> QED
    BY <1>2, <1>3, <1>4, ItemKinds

\* A run that is one page longer moves the parser one page further, and counts it.
LEMMA LongerRun ==
  ASSUME NEW p \in Parsers, NEW type \in PageTypes, NEW n \in Nat, NEW to \in Nat,
         p.late = {}, p.va + n * pagetype_size(type) < to
  PROVE  LET q == IF n = 0 THEN p ELSE ParseItem(p, Run(type, n), to) IN
         PageMore(q, ParseItem(p, Run(type, n + 1), to), type)
  <1>13. PICK at \in Nat, m \in Nat : at = p.va /\ m = n + 1
    BY DEF Parsers
  <1> DEFINE q == IF n = 0 THEN p ELSE ParseItem(p, Run(type, n), to)
             more == ParseItem(p, Run(type, n + 1), to)
             size == pagetype_size(type)
             list(k) == inc_page_refs(type, k, at, to)
             page == Counts(type, at + n * size)
  <1>1. p.va \in Nat /\ p.refs \in Seq(Counted) /\ size \in Nat \ {0} /\ n + 1 \in 1 .. n + 1
    BY PageSizes DEF Parsers
  <1>2. n * size \in Nat /\ size * n = n * size /\ size * (n + 1) = n * size + size
    BY <1>1
  <1>3. p.va < to
    BY <1>1, <1>2
  <1>4. /\ list(n) \in Seq(Counted) /\ list(0) = <<>>
        /\ type \notin HoleTypes => list(n + 1) = list(n) \o page
    <2>1. at + n * pagetype_size(type) < to
      BY <1>13
    <2>2. /\ inc_page_refs(type, n, at, to) \in Seq(Counted)
          /\ type \notin HoleTypes =>
               inc_page_refs(type, n + 1, at, to)
                 = inc_page_refs(type, n, at, to) \o Counts(type, at + n * pagetype_size(type))
          /\ inc_page_refs(type, 0, at, to) = <<>>
      BY <2>1, RunCounts, Zenon
    <2> QED
      BY <2>2, Zenon
  <1>5. /\ more.late = {} /\ more.va = p.va + size * (n + 1)
        /\ more.refs = IF type \in HoleTypes THEN p.refs ELSE p.refs \o list(n + 1)
        /\ more = [va |-> more.va, refs |-> more.refs, late |-> {}]
    <2>1. LET r == ParseItem(p, Run(type, m), to) IN
          /\ r.late = {} /\ r.va = p.va + size * m
          /\ r.refs = IF type \in HoleTypes THEN p.refs ELSE p.refs \o inc_page_refs(type, m, p.va, to)
          /\ r = [va |-> r.va, refs |-> r.refs, late |-> {}]
      BY <1>1, <1>3, ParserMoves
    <2> QED
      BY <1>13, <2>1, Zenon
  <1>6. /\ q.va = p.va + size * n
        /\ q.refs = IF type \in HoleTypes \/ n = 0 THEN p.refs ELSE p.refs \o list(n)
    <2>1. CASE n = 0
      BY <1>1, <1>2, <2>1
    <2>2. CASE n # 0
      <3>1. LET r == ParseItem(p, Run(type, n), to) IN
            /\ r.late = {} /\ r.va = p.va + size * n
            /\ r.refs = IF type \in HoleTypes THEN p.refs ELSE p.refs \o inc_page_refs(type, n, p.va, to)
            /\ r = [va |-> r.va, refs |-> r.refs, late |-> {}]
        BY <1>1, <1>3, ParserMoves
      <3>2. q = ParseItem(p, Run(type, n), to)
        BY <2>2
      <3> QED
        BY <1>13, <2>2, <3>1, <3>2, Zenon
    <2> QED
      BY <2>1, <2>2
  <1>7. page \in Seq(Counted) /\ (type \in HoleTypes => page = <<>>)
    <2> DEFINE x == at + n * size
    <2>1. x \in Nat
      BY <1>1, <1>2
    <2> HIDE DEF x
    <2>2. <<>> \in Seq(Counted) /\ <<[type |-> type, va |-> x]>> \in Seq(Counted)
      BY <2>1 DEF Counted
    <2>3. Counts(type, x) \in Seq(Counted) /\ (type \in HoleTypes => Counts(type, x) = <<>>)
      BY <2>2 DEF Counts
    <2> QED
      BY <2>3 DEF x
  <1>8. Counts(type, q.va) = page
    BY <1>2, <1>6, <1>13
  <1> HIDE DEF list, page, q, more, size
  <1>9. more.va = q.va + size
    BY <1>1, <1>2, <1>5, <1>6
  <1>10. more.refs = q.refs \o page
    <2>1. CASE type \in HoleTypes
      <3>1. more.refs = p.refs /\ q.refs = p.refs /\ page = <<>>
        BY <1>5, <1>6, <1>7, <2>1
      <3> QED
        BY <1>1, <3>1
    <2>2. CASE type \notin HoleTypes /\ n # 0
      <3>1. more.refs = p.refs \o (list(n) \o page) /\ q.refs = p.refs \o list(n)
        BY <1>4, <1>5, <1>6, <2>2
      <3>2. p.refs \o (list(n) \o page) = (p.refs \o list(n)) \o page
        <4>1. PICK a, b, c : a = p.refs /\ b = list(n) /\ c = page
          OBVIOUS
        <4>2. a \in Seq(Counted) /\ b \in Seq(Counted) /\ c \in Seq(Counted)
          BY <1>1, <1>4, <1>7, <4>1
        <4>3. a \o (b \o c) = (a \o b) \o c
          BY <4>2
        <4> QED
          BY <4>1, <4>3, Zenon
      <3> QED
        BY <3>1, <3>2
    <2>3. CASE type \notin HoleTypes /\ n = 0
      <3>1. list(n) = <<>> /\ <<>> \o page = page
        BY <1>4, <1>7, <2>3
      <3>2. more.refs = p.refs \o page /\ q.refs = p.refs
        BY <1>4, <1>5, <1>6, <2>3, <3>1
      <3> QED
        BY <3>2
    <2> QED
      BY <2>1, <2>2, <2>3
  <1>11. more \in Parsers
    <2>1. more.va \in Nat /\ more.refs \in Seq(Counted)
      <3>1. more.va \in Nat
        BY <1>1, <1>2, <1>5
      <3>2. q.refs \in Seq(Counted)
        BY <1>1, <1>4, <1>6
      <3>3. more.refs \in Seq(Counted)
        BY <1>7, <1>10, <3>2
      <3> QED
        BY <3>1, <3>3
    <2>2. PICK x \in Nat, y \in Seq(Counted) : more = [va |-> x, refs |-> y, late |-> {}]
      BY <1>5, <2>1
    <2> QED
      BY <2>2 DEF Parsers
  <1>12. PageMore(q, more, type)
    BY <1>5, <1>8, <1>9, <1>10, <1>11 DEF PageMore, size
  <1> QED
    BY <1>12 DEF q, more

\* What a parser makes of a report has its type.
LEMMA ReadType ==
  ASSUME NEW items \in Seq(Items), NEW to \in Nat, NEW va0 \in Nat
  PROVE  parse_idlepages(items, va0, to) \in Parsers
  <1>1. PICK f : ParsesThrough(f, items, Len(items), Start(va0), to)
                 /\ parse_idlepages(items, va0, to) = f[Len(items)]
    BY ParseRuns
  <1> DEFINE n == Len(items)
             S == {k \in Nat : k <= n => f[k] \in Parsers}
  <1>2. n \in Nat /\ \A i \in 1 .. n : items[i] \in Items
    OBVIOUS
  <1>3. 0 \in S
    <2>1. f[0] = [va |-> va0, refs |-> <<>>, late |-> {}]
      BY <1>1 DEF ParsesThrough, Start
    <2>2. <<>> \in Seq(Counted)
      OBVIOUS
    <2>3. f[0] \in Parsers
      BY <2>1, <2>2 DEF Parsers
    <2> QED
      BY <2>3
  <1>4. ASSUME NEW k \in Nat, k \in S PROVE k + 1 \in S
    <2> SUFFICES ASSUME k + 1 <= n PROVE f[k + 1] \in Parsers
      OBVIOUS
    <2> DEFINE i == k + 1
    <2>1. i \in 1 .. n /\ i - 1 = k /\ f[k] \in Parsers
      BY <1>2, <1>4
    <2>2. f[i] = ParseItem(f[i - 1], items[i], to) /\ items[i] \in Items
      BY <1>1, <1>2, <2>1 DEF ParsesThrough
    <2> HIDE DEF i
    <2>3. f[i] \in Parsers
      BY <2>1, <2>2, ParserKeeps
    <2> QED
      BY <2>3 DEF i
  <1> HIDE DEF S, n
  <1>5. n \in S
    BY <1>2, <1>3, <1>4, SetInduction
  <1> QED
    BY <1>1, <1>2, <1>5 DEF S, n

-----------------------------------------------------------------------------
(* Where the runs of a report begin.                                       *)

\* The parser of the first items of a report.
Upto(items, k) == parse_idlepages(SubSeq(items, 1, k), 0, 2 * TaskSize)

\* Where a page counted ends.
EndOf(page) == page.va + pagetype_size(page.type)

\* No page of a list reaches over an address.
Settled(list, at) == \A i \in 1 .. Len(list) : list[i].va < at => EndOf(list[i]) <= at

\* Behind the first items no run of a report begins within a page that the list or
\* the report has before it, and none is the first item.
RunsSettle(items, from, list) ==
  \A k \in from .. Len(items) - 1 : items[k + 1].type # "SET_HVA" =>
    k # 0 /\ Settled(list, Upto(items, k).va) /\ Settled(Upto(items, k).refs, Upto(items, k).va)

\* The first items do not change when one is appended.
LEMMA FirstItems ==
  ASSUME NEW T, NEW items \in Seq(T), NEW item \in T
  PROVE  /\ \A k \in 0 .. Len(items) : Upto(Append(items, item), k) = Upto(items, k)
         /\ Upto(items, Len(items)) = parse_idlepages(items, 0, 2 * TaskSize)
         /\ Append(items, item) \in Seq(T) /\ Len(Append(items, item)) = Len(items) + 1
         /\ \A k \in 1 .. Len(items) : Append(items, item)[k] = items[k]
         /\ Append(items, item)[Len(items) + 1] = item
  <1> DEFINE more == Append(items, item)
  <1>1. /\ more \in Seq(T) /\ Len(more) = Len(items) + 1 /\ Len(items) \in Nat
        /\ \A k \in 1 .. Len(items) : more[k] = items[k]
        /\ more[Len(items) + 1] = item
    OBVIOUS
  <1> HIDE DEF more
  <1>2. ASSUME NEW k \in 0 .. Len(items) PROVE SubSeq(more, 1, k) = SubSeq(items, 1, k)
    <2>1. /\ SubSeq(more, 1, k) \in Seq(T) /\ Len(SubSeq(more, 1, k)) = k
          /\ SubSeq(items, 1, k) \in Seq(T) /\ Len(SubSeq(items, 1, k)) = k
          /\ \A i \in 1 .. k : SubSeq(more, 1, k)[i] = more[i] /\ SubSeq(items, 1, k)[i] = items[i]
      BY <1>1
    <2> DEFINE a == SubSeq(more, 1, k)
               b == SubSeq(items, 1, k)
    <2>2. a \in Seq(T) /\ b \in Seq(T) /\ Len(a) = Len(b) /\ \A i \in 1 .. Len(a) : a[i] = b[i]
      BY <1>1, <2>1
    <2> HIDE DEF a, b
    <2>3. a = b
      BY <2>2
    <2> QED
      BY <2>3 DEF a, b
  <1>3. SubSeq(items, 1, Len(items)) = items
    OBVIOUS
  <1>4. \A k \in 0 .. Len(items) : Upto(more, k) = Upto(items, k)
    BY <1>2 DEF Upto
  <1>5. Upto(items, Len(items)) = parse_idlepages(items, 0, 2 * TaskSize)
    BY <1>3 DEF Upto
  <1> QED
    BY <1>1, <1>4, <1>5 DEF more

\* One more item in a report whose runs settle.
LEMMA RunsAppend ==
  ASSUME NEW T, NEW items \in Seq(T), NEW item \in T, NEW list, RunsSettle(items, 0, list),
         LET p == parse_idlepages(items, 0, 2 * TaskSize) IN
         item.type # "SET_HVA" => items # <<>> /\ Settled(list, p.va) /\ Settled(p.refs, p.va)
  PROVE  RunsSettle(Append(items, item), 0, list)
  <1> DEFINE more == Append(items, item)
             n == Len(items)
             p == parse_idlepages(items, 0, 2 * TaskSize)
  <1>1. /\ \A k \in 0 .. n : Upto(more, k) = Upto(items, k)
        /\ Upto(items, n) = p
        /\ Len(more) = n + 1 /\ n \in Nat
        /\ \A k \in 1 .. n : more[k] = items[k]
        /\ more[n + 1] = item
    BY FirstItems
  <1>2. item.type # "SET_HVA" => n # 0 /\ Settled(list, p.va) /\ Settled(p.refs, p.va)
    OBVIOUS
  <1> HIDE DEF more, p, n
  <1>3. ASSUME NEW k \in 0 .. n, more[k + 1].type # "SET_HVA"
        PROVE  k # 0 /\ Settled(list, Upto(more, k).va) /\ Settled(Upto(more, k).refs, Upto(more, k).va)
    <2>1. CASE k = n
      BY <1>1, <1>2, <1>3, <2>1
    <2>2. CASE k # n
      <3>1. k \in 0 .. n - 1 /\ k + 1 \in 1 .. n
        BY <1>1, <2>2
      <3>2. items[k + 1].type # "SET_HVA"
        BY <1>1, <1>3, <3>1
      <3>3. k # 0 /\ Settled(list, Upto(items, k).va) /\ Settled(Upto(items, k).refs, Upto(items, k).va)
        BY <3>1, <3>2 DEF RunsSettle, n
      <3> QED
        BY <1>1, <3>3
    <2> QED
      BY <2>1, <2>2
  <1>4. Len(more) - 1 = n
    BY <1>1
  <1>5. RunsSettle(more, 0, list)
    BY <1>3, <1>4 DEF RunsSettle
  <1> QED
    BY <1>5 DEF more

\* A run that is longer begins where it began.
LEMMA RunsLonger ==
  ASSUME NEW T, NEW items \in Seq(T), NEW short \in T, NEW long \in T, NEW list,
         long.type = short.type, RunsSettle(Append(items, short), 0, list)
  PROVE  RunsSettle(Append(items, long), 0, list)
  <1> DEFINE n == Len(items)
             a == Append(items, short)
             b == Append(items, long)
  <1>1. /\ \A k \in 0 .. n : Upto(a, k) = Upto(items, k)
        /\ Len(a) = n + 1 /\ n \in Nat
        /\ \A k \in 1 .. n : a[k] = items[k]
        /\ a[n + 1] = short
    BY FirstItems
  <1>2. /\ \A k \in 0 .. n : Upto(b, k) = Upto(items, k)
        /\ Len(b) = n + 1
        /\ \A k \in 1 .. n : b[k] = items[k]
        /\ b[n + 1] = long
    BY FirstItems
  <1>3. RunsSettle(a, 0, list)
    OBVIOUS
  <1> HIDE DEF a, b, n
  <1>4. \A k \in 0 .. n : Upto(a, k) = Upto(b, k) /\ a[k + 1].type = b[k + 1].type
    <2> SUFFICES ASSUME NEW k \in 0 .. n PROVE Upto(a, k) = Upto(b, k) /\ a[k + 1].type = b[k + 1].type
      OBVIOUS
    <2>1. k = n \/ k + 1 \in 1 .. n
      BY <1>1
    <2> QED
      BY <1>1, <1>2, <2>1
  <1>5. Len(a) - 1 = n /\ Len(b) - 1 = n
    BY <1>1, <1>2
  <1>6. RunsSettle(b, 0, list)
    BY <1>3, <1>4, <1>5 DEF RunsSettle
  <1> QED
    BY <1>6 DEF b

-----------------------------------------------------------------------------
(* The report of a control block: what reached the reader and what the     *)
(* kernel still holds.                                                     *)

Report(e) == parse_idlepages(e.out \o e.kpie, 0, 2 * TaskSize)

\* One run more in a report, at an address: the runs still settle.
NewRun(e, f, at) ==
  \A list : RunsSettle(e.out \o e.kpie, 0, list) /\ Settled(list, at) /\ Settled(Report(e).refs, at)
             => RunsSettle(f.out \o f.kpie, 0, list)

\* A page of a type at an address more in a report whose parser stands here: a new
\* run there, one behind its address, or a longer last run.
Grown(items, more, here, at, type) ==
  \/ more = Append(items, Run(type, 1)) /\ items # <<>> /\ at = here
  \/ more = Append(Append(items, SetHva(at)), Run(type, 1))
  \/ /\ at = here
     /\ \E front \in Seq(Items), n \in 1 .. MaxRun :
          items = Append(front, Run(type, n)) /\ more = Append(front, Run(type, n + 1)) /\ n < MaxRun

\* The parser of the report stands where the kernel stands, and met no address
\* behind the end.
Agrees(e) == Report(e).va = e.next_hva /\ Report(e).late = {}

\* What eic_add_page() makes of the page of a type at addr: nothing, because the
\* page is a hole or the buffer full, or one page more in the report.
Adds(e, f, addr, type) ==
  LET size == pagetype_size(type)
      down == RoundDown(addr, size)
  IN  \/ /\ f.out = e.out /\ f.kpie = e.kpie
         /\ Report(f) = Report(e) /\ f.next_hva = e.next_hva /\ f.pie_read = e.pie_read
         /\ \/ type \in HoleTypes /\ f.restart_gpa = down + size /\ f.full = e.full
            \/ f.full = TRUE /\ f.restart_gpa = addr /\ (e.pie_read # 0 \/ NoRoom(e))
      \/ /\ f.next_hva = down + e.gpa_to_hva + size /\ Report(f).va = f.next_hva
         /\ Report(f).late = {} /\ f.pie_read # 0 /\ f.full = e.full
         /\ f.restart_gpa = down + size
         /\ Report(f).refs = Report(e).refs \o Counts(type, down + e.gpa_to_hva)
         /\ type \in HoleTypes => down = addr
         /\ f.out \o f.kpie # <<>> /\ NewRun(e, f, down + e.gpa_to_hva)
         /\ Grown(e.out \o e.kpie, f.out \o f.kpie, Report(e).va, down + e.gpa_to_hva, type)

\* The report of a control block.
LEMMA ReportType ==
  ASSUME NEW e \in ControlBlocks
  PROVE  e.out \o e.kpie \in Seq(Items) /\ 2 * TaskSize \in Nat /\ Report(e) \in Parsers
  <1>1. e.out \o e.kpie \in Seq(Items)
    BY DEF ControlBlocks
  <1>2. 2 * TaskSize \in Nat /\ 0 \in Nat
    BY WalkAssumption
  <1> DEFINE items == e.out \o e.kpie
             to == 2 * TaskSize
  <1> HIDE DEF items, to
  <1>3. parse_idlepages(items, 0, to) \in Parsers
    BY <1>1, <1>2, ReadType DEF items, to
  <1> QED
    BY <1>1, <1>2, <1>3 DEF Report, items, to

\* A list and one more element behind another.
LEMMA AppendBehind ==
  ASSUME NEW T, NEW first \in Seq(T), NEW second \in Seq(T), NEW x
  PROVE  first \o Append(second, x) = Append(first \o second, x)
  OBVIOUS

\* One more item in the kernel's buffer.
LEMMA ReportAppend ==
  ASSUME NEW e \in ControlBlocks, NEW f, NEW item \in Items,
         f.out = e.out, f.kpie = Append(e.kpie, item)
  PROVE  Report(f) = ParseItem(Report(e), item, 2 * TaskSize)
  <1> DEFINE items == e.out \o e.kpie
             to == 2 * TaskSize
  <1>1. e.out \in Seq(Items) /\ e.kpie \in Seq(Items)
    BY DEF ControlBlocks
  <1>2. items \in Seq(Items) /\ e.out \o Append(e.kpie, item) = Append(items, item)
    <2>1. PICK a \in Seq(Items), b \in Seq(Items) : a = e.out /\ b = e.kpie
      BY <1>1
    <2>2. a \o b \in Seq(Items) /\ a \o Append(b, item) = Append(a \o b, item)
      BY AppendBehind
    <2> QED
      BY <2>1, <2>2, Zenon
  <1>3. Report(f) = parse_idlepages(Append(items, item), 0, to) /\ Report(e) = parse_idlepages(items, 0, to)
    BY <1>2 DEF Report
  <1> HIDE DEF items, to
  <1>4. parse_idlepages(Append(items, item), 0, to) = ParseItem(parse_idlepages(items, 0, to), item, to)
    BY <1>2, ParseAppend
  <1> QED
    BY <1>3, <1>4 DEF to

\* A list is its front and its last element.
LEMMA FrontAndLast ==
  ASSUME NEW T, NEW list \in Seq(T), NEW n \in Nat, n # 0, Len(list) = n
  PROVE  SubSeq(list, 1, n - 1) \in Seq(T) /\ list = Append(SubSeq(list, 1, n - 1), list[n])
  <1> DEFINE front == SubSeq(list, 1, n - 1)
  <1>1. front \in Seq(T) /\ Len(front) = n - 1 /\ \A i \in 1 .. n - 1 : front[i] = list[i]
    OBVIOUS
  <1> HIDE DEF front
  <1>2. list = Append(front, list[n])
    BY <1>1
  <1> QED
    BY <1>1, <1>2 DEF front

\* Another last element leaves the front as it is.
LEMMA OtherLast ==
  ASSUME NEW T, NEW list \in Seq(T), NEW n \in Nat, n # 0, Len(list) = n, NEW x \in T
  PROVE  [list EXCEPT ![n] = x] = Append(SubSeq(list, 1, n - 1), x)
  <1> DEFINE other == [list EXCEPT ![n] = x]
             front == SubSeq(list, 1, n - 1)
  <1>1. other \in Seq(T) /\ Len(other) = n /\ other[n] = x /\ \A i \in 1 .. n - 1 : other[i] = list[i]
    OBVIOUS
  <1>2. front \in Seq(T) /\ Len(front) = n - 1 /\ \A i \in 1 .. n - 1 : front[i] = list[i]
    OBVIOUS
  <1> HIDE DEF other, front
  <1>3. other = Append(front, other[n])
    BY <1>1, <1>2
  <1> QED
    BY <1>1, <1>3 DEF other, front

\* The last run of the kernel's buffer grows by a page.
LEMMA ReportLonger ==
  ASSUME NEW e \in ControlBlocks, NEW f, NEW type \in PageTypes, e.kpie # <<>>,
         e.kpie[Len(e.kpie)].type = type, Run(type, e.kpie[Len(e.kpie)].arg + 1) \in Items,
         f.out = e.out,
         f.kpie = [e.kpie EXCEPT ![Len(e.kpie)] = Run(type, e.kpie[Len(e.kpie)].arg + 1)],
         Report(e).late = {}, Report(e).va < 2 * TaskSize
  PROVE  /\ PageMore(Report(e), Report(f), type)
         /\ f.out \o f.kpie # <<>> /\ \A at : NewRun(e, f, at)
  <1> DEFINE n == Len(e.kpie)
             k == e.kpie[n].arg
             front == SubSeq(e.kpie, 1, n - 1)
             head == e.out \o front
             to == 2 * TaskSize
             p == parse_idlepages(head, 0, to)
             short == Run(type, k)
             long == Run(type, k + 1)
  <1>1. e.out \in Seq(Items) /\ e.kpie \in Seq(Items) /\ n \in 1 .. n /\ e.kpie[n] \in Items
    BY LastItem DEF ControlBlocks
  <1>2. k \in 1 .. MaxRun /\ e.kpie[n] = short
    BY <1>1 DEF Items, Run, PageTypes, PteTypes, PmdTypes
  <1>3. front \in Seq(Items) /\ e.kpie = Append(front, e.kpie[n])
    BY <1>1, FrontAndLast
  <1>4. f.kpie = Append(front, long)
    <2>1. long \in Items /\ f.kpie = [e.kpie EXCEPT ![n] = long]
      OBVIOUS
    <2> HIDE DEF long
    <2>2. [e.kpie EXCEPT ![n] = long] = Append(front, long)
      BY <1>1, <2>1, OtherLast
    <2> QED
      BY <2>1, <2>2
  <1> HIDE DEF front, k
  <1>5. head \in Seq(Items)
    BY <1>1, <1>3
  <1>6. e.out \o e.kpie = Append(head, short) /\ f.out \o f.kpie = Append(head, long)
    <2>1. e.kpie = Append(front, short)
      BY <1>2, <1>3
    <2> HIDE DEF short, long
    <2>2. /\ e.out \o Append(front, short) = Append(head, short)
          /\ e.out \o Append(front, long) = Append(head, long)
      <3>1. PICK a \in Seq(Items) : a = e.out
        BY <1>1
      <3>2. a \o Append(front, short) = Append(a \o front, short)
        BY <1>3, AppendBehind
      <3>3. a \o Append(front, long) = Append(a \o front, long)
        BY <1>3, AppendBehind
      <3> QED
        BY <3>1, <3>2, <3>3, Zenon
    <2> QED
      BY <1>4, <2>1, <2>2
  <1>7. Report(e) = parse_idlepages(Append(head, short), 0, to) /\ Report(f) = parse_idlepages(Append(head, long), 0, to)
    BY <1>6 DEF Report
  <1>8. to \in Nat /\ k \in Nat /\ k # 0
    BY <1>2, WalkAssumption
  <1>17. long.type = short.type
    BY DEF Run
  <1> HIDE DEF head, to, short, long
  <1> DEFINE T == Items \cup {short, long}
  <1>9. head \in Seq(T) /\ short \in T /\ long \in T
    BY <1>5
  <1> HIDE DEF T
  <1>18. f.out \o f.kpie # <<>> /\ \A at : NewRun(e, f, at)
    <2>1. Append(head, long) # <<>>
      BY <1>9
    <2>2. \A list : RunsSettle(Append(head, short), 0, list) => RunsSettle(Append(head, long), 0, list)
      BY <1>9, <1>17, RunsLonger
    <2> QED
      BY <1>6, <2>1, <2>2, Zenon DEF NewRun
  <1>10. Report(e) = ParseItem(p, short, to) /\ Report(f) = ParseItem(p, long, to)
    BY <1>7, <1>9, ParseAppend
  <1>11. p \in Parsers
    BY <1>5, <1>8, ReadType
  <1> HIDE DEF p
  <1>12. p.late = {}
    <2>1. CASE p.late # {}
      <3>1. ParseItem(p, short, to) = p
        BY <2>1 DEF ParseItem
      <3> QED
        BY <1>10, <2>1, <3>1
    <2> QED
      BY <2>1
  <1>13. p.va \in Nat /\ p.va < to
    <2>1. p.va \in Nat
      BY <1>11 DEF Parsers
    <2>2. CASE p.va >= to
      <3>1. ParseItem(p, Run(type, k), to).late # {}
        BY <1>8, <1>11, <1>12, <2>2, ParserMoves
      <3> QED
        BY <1>10, <3>1 DEF short
    <2> QED
      BY <1>8, <2>1, <2>2
  <1>14. Report(e).va = p.va + pagetype_size(type) * k
    <2>1. ParseItem(p, Run(type, k), to).va = p.va + pagetype_size(type) * k
      BY <1>8, <1>11, <1>12, <1>13, ParserMoves
    <2> QED
      BY <1>10, <2>1 DEF short
  <1>15. p.va + k * pagetype_size(type) < to
    <2>1. pagetype_size(type) * k = k * pagetype_size(type)
      BY <1>8, PageSizes
    <2> QED
      BY <1>14, <2>1 DEF to
  <1>16. LET q == IF k = 0 THEN p ELSE ParseItem(p, Run(type, k), to) IN
         PageMore(q, ParseItem(p, Run(type, k + 1), to), type)
    BY <1>8, <1>11, <1>12, <1>15, LongerRun, Zenon
  <1>19. PageMore(Report(e), Report(f), type)
    BY <1>8, <1>10, <1>16, Zenon DEF short, long
  <1> QED
    BY <1>18, <1>19

\* A page that begins at an address ends with the page the address is in
\* (round_down, round_up of ept_idle.c).
LEMMA OnePage ==
  ASSUME NEW a \in Nat, NEW s \in Nat \ {0}, NEW next \in Nat,
         a < next, next <= RoundDown(a, s) + s
  PROVE  RoundUp(next, s) = RoundDown(a, s) + s
  <1> DEFINE d == a \div s
             t == a % s
             up == next + s - 1
             down == RoundDown(a, s)
             r == next - down - 1
             q == d + 1
  <1>1. d \in Nat /\ t \in 0 .. s - 1 /\ a = s * d + t
    BY Division
  <1>2. down = a - t
    BY DEF RoundDown
  <1>3. RoundUp(next, s) = up - (up % s)
    BY Zenon DEF RoundUp, RoundDown
  <1> HIDE DEF d, t, down
  <1>4. s * d \in Nat /\ s * (d + 1) = s * d + s
    BY <1>1
  <1>5. down = s * d
    BY <1>1, <1>2, <1>4
  <1>6. r \in 0 .. s - 1 /\ up = s * q + r /\ q \in Nat /\ up \in Nat
    BY <1>1, <1>4, <1>5 DEF down
  <1> HIDE DEF up, r, q
  <1>7. up % s = r
    BY <1>6, DivisionUnique
  <1>8. RoundUp(next, s) = s * q
    BY <1>3, <1>4, <1>6, <1>7 DEF q
  <1> QED
    BY <1>4, <1>5, <1>8 DEF q, down

\* An aligned address is not rounded.
LEMMA AlignedDown ==
  ASSUME NEW a \in Nat, NEW s \in Nat \ {0}, a % s = 0
  PROVE  RoundDown(a, s) = a
  BY DEF RoundDown

\* A run as an item.
LEMMA RunItem ==
  ASSUME NEW type \in PageTypes, NEW n \in 1 .. MaxRun
  PROVE  Run(type, n) \in Items /\ type # "SET_HVA"
  BY DEF Run, Items, PageTypes, PteTypes, PmdTypes

\* An item more in the kernel's buffer is one more in the report.
LEMMA ItemMore ==
  ASSUME NEW e \in ControlBlocks, NEW f, NEW item \in Items,
         f.out = e.out, f.kpie = Append(e.kpie, item)
  PROVE  /\ e.out \o e.kpie \in Seq(Items)
         /\ f.out \o f.kpie = Append(e.out \o e.kpie, item) /\ f.out \o f.kpie # <<>>
  <1>1. e.out \in Seq(Items) /\ e.kpie \in Seq(Items)
    BY DEF ControlBlocks
  <1>2. PICK a \in Seq(Items), b \in Seq(Items) : a = e.out /\ b = e.kpie
    BY <1>1
  <1>3. a \o b \in Seq(Items) /\ a \o Append(b, item) = Append(a \o b, item)
    BY AppendBehind
  <1>4. Append(a \o b, item) # <<>>
    BY <1>3
  <1> QED
    BY <1>2, <1>3, <1>4, Zenon

\* A run behind other items begins where their parser stands.
LEMMA RunBehind ==
  ASSUME NEW e \in ControlBlocks, NEW f, NEW type \in PageTypes, e.out \o e.kpie # <<>>,
         f.out = e.out, f.kpie = Append(e.kpie, Run(type, 1))
  PROVE  f.out \o f.kpie # <<>> /\ NewRun(e, f, Report(e).va)
  <1> DEFINE items == e.out \o e.kpie
             item == Run(type, 1)
  <1>1. item \in Items
    BY StreamAssumption, RunItem
  <1> HIDE DEF item
  <1>2. /\ items \in Seq(Items) /\ f.out \o f.kpie = Append(items, item) /\ f.out \o f.kpie # <<>>
        /\ items # <<>> /\ Report(e) = parse_idlepages(items, 0, 2 * TaskSize)
    BY <1>1, ItemMore DEF item, Report
  <1>3. ASSUME NEW list, RunsSettle(items, 0, list), Settled(list, Report(e).va),
               Settled(Report(e).refs, Report(e).va)
        PROVE  RunsSettle(Append(items, item), 0, list)
    <2> HIDE DEF items
    <2>1. LET p == parse_idlepages(items, 0, 2 * TaskSize) IN
          item.type # "SET_HVA" => items # <<>> /\ Settled(list, p.va) /\ Settled(p.refs, p.va)
      BY <1>2, <1>3, Zenon
    <2> QED
      BY <1>1, <1>2, <1>3, <2>1, RunsAppend
  <1> QED
    BY <1>2, <1>3, Zenon DEF NewRun

\* An address is no run.
LEMMA AddressBehind ==
  ASSUME NEW e \in ControlBlocks, NEW f, NEW at \in Nat,
         f.out = e.out, f.kpie = Append(e.kpie, SetHva(at))
  PROVE  /\ f.out \o f.kpie # <<>>
         /\ \A list : RunsSettle(e.out \o e.kpie, 0, list) => RunsSettle(f.out \o f.kpie, 0, list)
  <1> DEFINE items == e.out \o e.kpie
             item == SetHva(at)
  <1>1. item \in Items /\ item.type = "SET_HVA"
    BY DEF SetHva, Items
  <1> HIDE DEF item
  <1>2. items \in Seq(Items) /\ f.out \o f.kpie = Append(items, item) /\ f.out \o f.kpie # <<>>
    BY <1>1, ItemMore DEF item
  <1>3. ASSUME NEW list, RunsSettle(items, 0, list) PROVE RunsSettle(Append(items, item), 0, list)
    <2> HIDE DEF items
    <2> QED
      BY <1>1, <1>2, <1>3, RunsAppend
  <1> QED
    BY <1>2, <1>3, Zenon

\* The last run of the kernel's buffer is that of the report.
LEMMA RunGrows ==
  ASSUME NEW e \in ControlBlocks, NEW f, NEW type \in PageTypes, e.kpie # <<>>,
         e.kpie[Len(e.kpie)].type = type, e.kpie[Len(e.kpie)].arg < MaxRun,
         Run(type, e.kpie[Len(e.kpie)].arg + 1) \in Items, f.out = e.out,
         f.kpie = [e.kpie EXCEPT ![Len(e.kpie)] = Run(type, e.kpie[Len(e.kpie)].arg + 1)]
  PROVE  Grown(e.out \o e.kpie, f.out \o f.kpie, Report(e).va, Report(e).va, type)
  <1> DEFINE n == Len(e.kpie)
             k == e.kpie[n].arg
             front == SubSeq(e.kpie, 1, n - 1)
  <1>1. /\ e.out \in Seq(Items) /\ e.kpie \in Seq(Items) /\ n \in Nat /\ n # 0 /\ e.kpie[n] \in Items
    BY DEF ControlBlocks
  <1>2. k \in 1 .. MaxRun /\ e.kpie[n] = Run(type, k)
    BY <1>1 DEF Items, Run, PageTypes, PteTypes, PmdTypes
  <1>3. PICK long \in Items : long = Run(type, k + 1)
    OBVIOUS
  <1>4. front \in Seq(Items) /\ e.kpie = Append(front, Run(type, k))
    BY <1>1, <1>2, FrontAndLast
  <1>5. f.kpie = Append(front, long)
    <2>1. [e.kpie EXCEPT ![n] = long] = Append(SubSeq(e.kpie, 1, n - 1), long)
      BY <1>1, OtherLast
    <2> QED
      BY <1>3, <2>1
  <1>6. PICK a \in Seq(Items), b \in Seq(Items) : a = e.out /\ b = front
    BY <1>1, <1>4
  <1>7. /\ a \o b \in Seq(Items)
        /\ \A x : a \o Append(b, x) = Append(a \o b, x)
    BY AppendBehind
  <1> HIDE DEF n, k, front
  <1>8. e.out \o e.kpie = Append(a \o b, Run(type, k)) /\ f.out \o f.kpie = Append(a \o b, Run(type, k + 1))
    BY <1>3, <1>4, <1>5, <1>6, <1>7, Zenon
  <1>9. k < MaxRun
    BY DEF k, n
  <1> QED
    BY <1>2, <1>7, <1>8, <1>9, Zenon DEF Grown

\* A new item is one page more in the report.
LEMMA NewItemReports ==
  ASSUME NEW e \in ControlBlocks, NEW next \in Nat, NEW type \in PageTypes,
         Report(e).late = {}, Report(e).va < 2 * TaskSize
  PROVE  LET f == NewItem(e, next, type) IN
         /\ PageMore(Report(e), Report(f), type)
         /\ f.next_hva = next + e.gpa_to_hva /\ f.restart_gpa = next
         /\ f.pie_read # 0 /\ f.full = e.full
         /\ f.out = e.out /\ f.kpie = Append(e.kpie, Run(type, 1))
  <1> DEFINE f == NewItem(e, next, type)
             to == 2 * TaskSize
  <1>1. f = [e EXCEPT !.next_hva = next + e.gpa_to_hva, !.restart_gpa = next,
                      !.kpie = Append(e.kpie, Run(type, 1)), !.pie_read = e.pie_read + 1]
    BY DEF NewItem, Advance, ControlBlocks
  <1> HIDE DEF f
  <1>2. /\ f.out = e.out /\ f.kpie = Append(e.kpie, Run(type, 1))
        /\ f.next_hva = next + e.gpa_to_hva /\ f.restart_gpa = next /\ f.full = e.full
        /\ f.pie_read = e.pie_read + 1 /\ e.pie_read \in Nat
    BY <1>1 DEF ControlBlocks
  <1>3. f.pie_read # 0
    BY <1>2
  <1>4. Run(type, 1) \in Items
    BY StreamAssumption, RunItem
  <1>5. Report(f) = ParseItem(Report(e), Run(type, 1), to)
    BY <1>2, <1>4, ReportAppend
  <1>6. to \in Nat /\ Report(e) \in Parsers
    BY ReportType
  <1> HIDE DEF to
  <1>7. Report(e).va + 0 * pagetype_size(type) < to
    <2>1. Report(e).va \in Nat /\ pagetype_size(type) \in Nat
      BY <1>6, PageSizes DEF Parsers
    <2>2. Report(e).va < to
      BY DEF to
    <2> QED
      BY <2>1, <2>2
  <1>8. PageMore(Report(e), ParseItem(Report(e), Run(type, 1), to), type)
    <2>1. LET q == IF 0 = 0 THEN Report(e) ELSE ParseItem(Report(e), Run(type, 0), to) IN
          PageMore(q, ParseItem(Report(e), Run(type, 0 + 1), to), type)
      BY <1>6, <1>7, LongerRun
    <2> QED
      BY <2>1
  <1>9. PageMore(Report(e), Report(f), type)
    BY <1>5, <1>8
  <1> QED
    BY <1>2, <1>3, <1>9 DEF f

\* A page that does not follow the one before is reported where it begins.
LEMMA AddApartReports ==
  ASSUME NEW e \in ControlBlocks, NEW addr, NEW type \in PageTypes,
         e.pie_read = BytesOf(e.kpie), Agrees(e), Mapped(addr, e),
         addr + e.gpa_to_hva < TaskSize
  PROVE  LET size == pagetype_size(type)
             f == AddApart(e, addr, RoundDown(addr, size) + size, type)
         IN  Adds(e, f, addr, type)
  <1> DEFINE size == pagetype_size(type)
             down == RoundDown(addr, size)
             next == down + size
             at == down + e.gpa_to_hva
             reported == eic_report_addr(e, at)
             f == AddApart(e, addr, next, type)
             to == 2 * TaskSize
  <1>1. e.gpa_to_hva \in Int /\ PudPages \in Nat /\ TaskSize \in Nat /\ addr \in Nat
    BY StreamAssumption, WalkAssumption DEF ControlBlocks, Mapped
  <1>2. size \in Nat \ {0} /\ size <= PudPages
    BY PageSizes
  <1> DEFINE nothing == /\ f.out = e.out /\ f.kpie = e.kpie
                        /\ Report(f) = Report(e) /\ f.next_hva = e.next_hva /\ f.pie_read = e.pie_read
                        /\ \/ type \in HoleTypes /\ f.restart_gpa = next /\ f.full = e.full
                           \/ f.full = TRUE /\ f.restart_gpa = addr /\ (e.pie_read # 0 \/ NoRoom(e))
             page == /\ f.next_hva = at + size /\ Report(f).va = f.next_hva
                     /\ Report(f).late = {} /\ f.pie_read # 0 /\ f.full = e.full
                     /\ f.restart_gpa = next
                     /\ Report(f).refs = Report(e).refs \o Counts(type, at)
                     /\ type \in HoleTypes => down = addr
                     /\ f.out \o f.kpie # <<>> /\ NewRun(e, f, at)
                     /\ Grown(e.out \o e.kpie, f.out \o f.kpie, Report(e).va, at, type)
  <1>3. nothing \/ page => Adds(e, f, addr, type)
    BY Zenon DEF Adds
  <1> HIDE DEF size
  <1>4. down \in Nat /\ down <= addr /\ addr < down + size
    BY <1>1, <1>2, Rounds
  <1> HIDE DEF down
  <1>5. at \in Nat /\ at < TaskSize /\ next \in Nat /\ next + e.gpa_to_hva = at + size
    BY <1>1, <1>2, <1>4 DEF Mapped
  <1>6. f = IF type \in HoleTypes THEN [e EXCEPT !.restart_gpa = next]
            ELSE IF e.pie_read + AddrBytes + 2 >= e.pie_read_max
              THEN [e EXCEPT !.full = TRUE, !.restart_gpa = addr]
            ELSE NewItem(reported, next, type)
    BY Zenon DEF AddApart, KbufFull, down, size
  <1> HIDE DEF at, f, next
  <1>7. ASSUME type \in HoleTypes PROVE nothing
    <2>1. f = [e EXCEPT !.restart_gpa = next]
      BY <1>6, <1>7
    <2>2. /\ f.out = e.out /\ f.kpie = e.kpie /\ f.next_hva = e.next_hva
          /\ f.pie_read = e.pie_read /\ f.restart_gpa = next /\ f.full = e.full
      BY <2>1 DEF ControlBlocks
    <2>3. Report(f) = Report(e)
      BY <2>2 DEF Report
    <2> QED
      BY <1>7, <2>2, <2>3
  <1>8. ASSUME type \notin HoleTypes /\ e.pie_read + AddrBytes + 2 >= e.pie_read_max PROVE nothing
    <2>4. e.pie_read # 0 \/ NoRoom(e)
      <3>1. e.pie_read_max \in Int /\ AddrBytes \in Nat
        BY StreamAssumption DEF ControlBlocks
      <3> QED
        BY <1>8, <3>1 DEF NoRoom
    <2>1. f = [e EXCEPT !.full = TRUE, !.restart_gpa = addr]
      BY <1>6, <1>8
    <2>2. /\ f.out = e.out /\ f.kpie = e.kpie /\ f.next_hva = e.next_hva
          /\ f.pie_read = e.pie_read /\ f.restart_gpa = addr /\ f.full = TRUE
      BY <2>1 DEF ControlBlocks
    <2>3. Report(f) = Report(e)
      BY <2>2 DEF Report
    <2> QED
      BY <2>2, <2>3, <2>4
  <1>9. ASSUME type \notin HoleTypes /\ ~(e.pie_read + AddrBytes + 2 >= e.pie_read_max) PROVE page
    <2>1. f = NewItem(reported, next, type)
      BY <1>6, <1>9
    <2>2. /\ reported \in ControlBlocks
          /\ reported = [e EXCEPT !.kpie = Append(e.kpie, SetHva(at)),
                                  !.pie_read = e.pie_read + AddrBytes + 1]
      BY <1>5, ReportAddr
    <2>3. /\ reported.out = e.out /\ reported.kpie = Append(e.kpie, SetHva(at))
          /\ reported.gpa_to_hva = e.gpa_to_hva /\ reported.full = e.full
      BY <2>2 DEF ControlBlocks
    <2> HIDE DEF reported
    <2>4. SetHva(at) \in Items
      BY <1>5 DEF SetHva, Items
    <2>5. Report(reported) = ParseItem(Report(e), SetHva(at), to)
      BY <2>3, <2>4, ReportAppend
    <2>6. to \in Nat /\ Report(e) \in Parsers /\ Report(e).late = {}
      BY ReportType DEF Agrees
    <2> HIDE DEF to
    <2>7. LET q == ParseItem(Report(e), SetHva(at), to) IN
          q \in Parsers /\ q.va = at /\ q.refs = Report(e).refs /\ q.late = {}
      BY <1>5, <2>6, ParserMoves
    <2>8. /\ Report(reported).va = at /\ Report(reported).refs = Report(e).refs
          /\ Report(reported).late = {}
      BY <2>5, <2>7
    <2>9. Report(reported).va < 2 * TaskSize
      BY <1>1, <1>5, <2>8
    <2>10. LET h == NewItem(reported, next, type) IN
           /\ PageMore(Report(reported), Report(h), type)
           /\ h.next_hva = next + reported.gpa_to_hva /\ h.restart_gpa = next
           /\ h.pie_read # 0 /\ h.full = reported.full
           /\ h.out = reported.out /\ h.kpie = Append(reported.kpie, Run(type, 1))
      BY <1>5, <2>2, <2>8, <2>9, NewItemReports, Zenon
    <2>11. /\ PageMore(Report(reported), Report(f), type)
           /\ f.next_hva = next + e.gpa_to_hva /\ f.restart_gpa = next
           /\ f.pie_read # 0 /\ f.full = e.full
           /\ f.out = reported.out /\ f.kpie = Append(reported.kpie, Run(type, 1))
      BY <2>1, <2>3, <2>10
    <2>12. /\ Report(f).late = {} /\ Report(f).va = at + size
           /\ Report(f).refs = Report(e).refs \o Counts(type, at)
      BY <2>8, <2>11 DEF PageMore, size
    <2>13. /\ reported.out \o reported.kpie # <<>>
           /\ \A list : RunsSettle(e.out \o e.kpie, 0, list) => RunsSettle(reported.out \o reported.kpie, 0, list)
      BY <1>5, <2>3, AddressBehind
    <2>14. f.out \o f.kpie # <<>> /\ NewRun(reported, f, Report(reported).va)
      BY <2>2, <2>11, <2>13, RunBehind
    <2>15. NewRun(e, f, at)
      BY <2>8, <2>13, <2>14, Zenon DEF NewRun
    <2>16. Grown(e.out \o e.kpie, f.out \o f.kpie, Report(e).va, at, type)
      <3>1. reported.out \o reported.kpie = Append(e.out \o e.kpie, SetHva(at))
        BY <2>3, <2>4, ItemMore
      <3>2. Run(type, 1) \in Items
        BY StreamAssumption, RunItem
      <3>3. f.out \o f.kpie = Append(reported.out \o reported.kpie, Run(type, 1))
        BY <2>2, <2>11, <3>2, ItemMore
      <3> QED
        BY <3>1, <3>3, Zenon DEF Grown
    <2> QED
      BY <1>5, <1>9, <2>11, <2>12, <2>14, <2>15, <2>16
  <1> HIDE DEF nothing, page
  <1>10. nothing \/ page
    BY <1>7, <1>8, <1>9, Zenon
  <1>11. Adds(e, f, addr, type)
    BY <1>3, <1>10, Zenon
  <1> QED
    BY <1>11, Zenon DEF f, next, down, size

\* A page that follows the one before joins its run, or a new run behind it.
LEMMA AddNextReports ==
  ASSUME NEW e \in ControlBlocks, NEW addr, NEW type \in PageTypes,
         e.pie_read = BytesOf(e.kpie), e.pie_read # 0, Agrees(e), Mapped(addr, e),
         addr + e.gpa_to_hva = e.next_hva, addr + e.gpa_to_hva < TaskSize,
         addr % pagetype_size(type) = 0
  PROVE  LET size == pagetype_size(type)
             f == AddNext(e, addr, RoundDown(addr, size) + size, type)
         IN  Adds(e, f, addr, type)
  <1> DEFINE size == pagetype_size(type)
             down == RoundDown(addr, size)
             next == down + size
             at == down + e.gpa_to_hva
             n == Len(e.kpie)
             last == e.kpie[n]
             longer == Run(type, last.arg + 1)
             f == AddNext(e, addr, next, type)
             nothing == /\ f.out = e.out /\ f.kpie = e.kpie
                        /\ Report(f) = Report(e) /\ f.next_hva = e.next_hva /\ f.pie_read = e.pie_read
                        /\ \/ type \in HoleTypes /\ f.restart_gpa = next /\ f.full = e.full
                           \/ f.full = TRUE /\ f.restart_gpa = addr /\ (e.pie_read # 0 \/ NoRoom(e))
             page == /\ f.next_hva = at + size /\ Report(f).va = f.next_hva
                     /\ Report(f).late = {} /\ f.pie_read # 0 /\ f.full = e.full
                     /\ f.restart_gpa = next
                     /\ Report(f).refs = Report(e).refs \o Counts(type, at)
                     /\ type \in HoleTypes => down = addr
                     /\ f.out \o f.kpie # <<>> /\ NewRun(e, f, at)
                     /\ Grown(e.out \o e.kpie, f.out \o f.kpie, Report(e).va, at, type)
  <1>1. /\ e.gpa_to_hva \in Int /\ TaskSize \in Nat /\ addr \in Nat /\ e.pie_read \in Nat
        /\ e.kpie \in Seq(Items) /\ e.next_hva \in Nat
    BY WalkAssumption DEF ControlBlocks, Mapped
  <1>2. size \in Nat \ {0} /\ down = addr
    BY <1>1, PageSizes, AlignedDown
  <1>3. nothing \/ page => Adds(e, f, addr, type)
    BY Zenon DEF Adds
  <1>4. f = IF last.type = type /\ last.arg < MaxRun
              THEN [Advance(e, next) EXCEPT !.kpie = [e.kpie EXCEPT ![n] = longer]]
            ELSE IF e.pie_read >= e.pie_read_max
              THEN [e EXCEPT !.full = TRUE, !.restart_gpa = addr]
            ELSE NewItem(e, next, type)
    BY Zenon DEF AddNext, KbufFull
  <1>5. Report(e).va = at /\ Report(e).late = {} /\ at < 2 * TaskSize
    BY <1>1, <1>2 DEF Agrees
  <1>6. next \in Nat /\ next + e.gpa_to_hva = at + size
    BY <1>1, <1>2
  <1>7. e.kpie # <<>> /\ last \in Items
    <2>1. e.kpie # <<>>
      BY NoBytes
    <2> QED
      BY <1>1, <2>1, LastItem
  <1> HIDE DEF size, down, f
  <1>8. ASSUME PageMore(Report(e), Report(f), type), f.next_hva = next + e.gpa_to_hva,
               f.restart_gpa = next, f.pie_read # 0, f.full = e.full,
               f.out \o f.kpie # <<>>, NewRun(e, f, at),
               Grown(e.out \o e.kpie, f.out \o f.kpie, Report(e).va, Report(e).va, type)
        PROVE  page
    BY <1>2, <1>5, <1>6, <1>8 DEF PageMore, size
  <1>9. ASSUME last.type = type /\ last.arg < MaxRun PROVE page
    <2>1. last.arg \in 1 .. MaxRun /\ last.arg + 1 \in 1 .. MaxRun
      BY <1>7, <1>9, StreamAssumption DEF Items, PageTypes, PteTypes, PmdTypes
    <2>2. longer \in Items
      BY <2>1, RunItem
    <2>3. f = [e EXCEPT !.next_hva = next + e.gpa_to_hva, !.restart_gpa = next,
                        !.kpie = [e.kpie EXCEPT ![n] = longer]]
      BY <1>4, <1>9 DEF Advance, ControlBlocks
    <2> HIDE DEF next
    <2>4. /\ f.out = e.out /\ f.kpie = [e.kpie EXCEPT ![n] = longer]
          /\ f.next_hva = next + e.gpa_to_hva /\ f.restart_gpa = next /\ f.full = e.full
          /\ f.pie_read = e.pie_read
      BY <2>3 DEF ControlBlocks
    <2>5. PageMore(Report(e), Report(f), type) /\ f.out \o f.kpie # <<>> /\ NewRun(e, f, at)
      BY <1>5, <1>7, <1>9, <2>2, <2>4, ReportLonger
    <2>6. Grown(e.out \o e.kpie, f.out \o f.kpie, Report(e).va, Report(e).va, type)
      BY <1>7, <1>9, <2>2, <2>4, RunGrows
    <2> QED
      BY <1>8, <2>4, <2>5, <2>6
  <1>10. ASSUME ~(last.type = type /\ last.arg < MaxRun), e.pie_read >= e.pie_read_max PROVE nothing
    <2>1. f = [e EXCEPT !.full = TRUE, !.restart_gpa = addr]
      BY <1>4, <1>10
    <2>2. /\ f.out = e.out /\ f.kpie = e.kpie /\ f.next_hva = e.next_hva
          /\ f.pie_read = e.pie_read /\ f.restart_gpa = addr /\ f.full = TRUE
      BY <2>1 DEF ControlBlocks
    <2>3. Report(f) = Report(e)
      BY <2>2 DEF Report
    <2> QED
      BY <2>2, <2>3
  <1>11. ASSUME ~(last.type = type /\ last.arg < MaxRun), ~(e.pie_read >= e.pie_read_max) PROVE page
    <2>1. f = NewItem(e, next, type)
      BY <1>4, <1>11
    <2>2. Report(e).va < 2 * TaskSize
      BY <1>5
    <2> HIDE DEF next
    <2>3. LET h == NewItem(e, next, type) IN
          /\ PageMore(Report(e), Report(h), type)
          /\ h.next_hva = next + e.gpa_to_hva /\ h.restart_gpa = next
          /\ h.pie_read # 0 /\ h.full = e.full
          /\ h.out = e.out /\ h.kpie = Append(e.kpie, Run(type, 1))
      BY <1>5, <1>6, <2>2, NewItemReports, Zenon
    <2>4. e.out \o e.kpie # <<>>
      <3>1. e.out \in Seq(Items)
        BY DEF ControlBlocks
      <3> QED
        BY <1>1, <1>7, <3>1
    <2>5. f.out \o f.kpie # <<>> /\ NewRun(e, f, Report(e).va)
      <3>1. f.out = e.out /\ f.kpie = Append(e.kpie, Run(type, 1))
        BY <2>1, <2>3
      <3> QED
        BY <2>4, <3>1, RunBehind
    <2>6. Grown(e.out \o e.kpie, f.out \o f.kpie, Report(e).va, Report(e).va, type)
      <3>1. f.out = e.out /\ f.kpie = Append(e.kpie, Run(type, 1)) /\ Run(type, 1) \in Items
        BY <2>1, <2>3, StreamAssumption, RunItem
      <3>2. f.out \o f.kpie = Append(e.out \o e.kpie, Run(type, 1))
        BY <3>1, ItemMore
      <3> QED
        BY <2>4, <3>2, Zenon DEF Grown
    <2> QED
      BY <1>5, <1>8, <2>1, <2>3, <2>5, <2>6
  <1> HIDE DEF nothing, page
  <1>12. nothing \/ page
    BY <1>9, <1>10, <1>11, Zenon
  <1>13. Adds(e, f, addr, type)
    BY <1>3, <1>12, Zenon
  <1> QED
    BY <1>13, Zenon DEF f, down, size

\* What eic_add_page() makes of a page: where it follows the page before it has
\* to be aligned, or the parser would be a part of a page behind.
LEMMA AddPageReports ==
  ASSUME NEW e, Fit(e), Agrees(e), NEW addr, NEW next, NEW type \in PageTypes,
         Mapped(addr, e), next \in Nat, addr + e.gpa_to_hva < TaskSize,
         addr < next, next <= RoundDown(addr, pagetype_size(type)) + pagetype_size(type),
         e.pie_read # 0 /\ addr + e.gpa_to_hva = e.next_hva => addr % pagetype_size(type) = 0
  PROVE  Adds(e, eic_add_page(e, addr, next, type), addr, type)
  <1> DEFINE size == pagetype_size(type)
             upto == RoundUp(next, size)
  <1>1. e \in ControlBlocks /\ e.pie_read = BytesOf(e.kpie)
    BY DEF Fit
  <1>2. addr \in Nat /\ size \in Nat \ {0}
    BY PageSizes DEF Mapped
  <1>3. upto = RoundDown(addr, size) + size
    BY <1>2, OnePage
  <1>4. eic_add_page(e, addr, next, type)
          = IF e.pie_read = 0 \/ addr + e.gpa_to_hva # e.next_hva
              THEN AddApart(e, addr, upto, type) ELSE AddNext(e, addr, upto, type)
    BY DEF eic_add_page
  <1> HIDE DEF upto
  <1>5. CASE e.pie_read = 0 \/ addr + e.gpa_to_hva # e.next_hva
    <2>1. Adds(e, AddApart(e, addr, RoundDown(addr, size) + size, type), addr, type)
      BY <1>1, AddApartReports
    <2> QED
      BY <1>3, <1>4, <1>5, <2>1
  <1>6. CASE ~(e.pie_read = 0 \/ addr + e.gpa_to_hva # e.next_hva)
    <2>1. Adds(e, AddNext(e, addr, RoundDown(addr, size) + size, type), addr, type)
      BY <1>1, <1>6, AddNextReports
    <2> QED
      BY <1>3, <1>4, <1>6, <2>1
  <1> QED
    BY <1>5, <1>6

-----------------------------------------------------------------------------
(* Where the report stands in the page table.                              *)

\* The address of a report, the cursor of the walk and the PMD walked last: the
\* report ends at a PUD or below a PUD of smaller pages, at a PMD or not ahead of
\* the cursor; where the cursor meets it, a PMD begins or was walked before.
StandsAt(h, cur, last, pages) ==
  /\ h \in Nat
  /\ h % PudPages = 0 \/ pud[PudOf(h)] = "table"
  /\ h % PmdPages = 0 \/ h <= cur
  /\ pages /\ h = cur => h % PmdPages = 0 \/ (~Kvm /\ PmdOf(h) = PmdOf(last))

\* A cursor that moves leaves the report behind.
LEMMA CursorMoves ==
  ASSUME NEW h, NEW cur \in Int, NEW last, NEW pages, StandsAt(h, cur, last, pages),
         NEW next \in Int, next > cur, NEW other, NEW on
  PROVE  StandsAt(h, next, other, on)
  <1>1. h \in Nat
    BY DEF StandsAt
  <1> QED
    BY <1>1 DEF StandsAt

\* A number times a divisor.
LEMMA Multiple ==
  ASSUME NEW s \in Nat \ {0}, NEW q \in Nat
  PROVE  s * q \in Nat /\ (s * q) % s = 0 /\ (s * q) \div s = q
  <1> DEFINE a == s * q
  <1>1. a \in Nat /\ a = s * q + 0 /\ 0 \in 0 .. s - 1
    OBVIOUS
  <1> HIDE DEF a
  <1>2. a \div s = q /\ a % s = 0
    BY <1>1, DivisionUnique
  <1> QED
    BY <1>1, <1>2 DEF a

\* A page ends at a multiple of its size.
LEMMA PageEnd ==
  ASSUME NEW a \in Nat, NEW s \in Nat \ {0}
  PROVE  /\ RoundDown(a, s) = s * (a \div s) /\ RoundDown(a, s) + s = s * ((a \div s) + 1)
         /\ RoundDown(a, s) + s = ((a \div s) + 1) * s
         /\ a \div s \in Nat /\ (a \div s) + 1 \in Nat
  <1> DEFINE d == a \div s
             t == a % s
  <1>1. d \in Nat /\ t \in 0 .. s - 1 /\ a = s * d + t
    BY Division
  <1>2. RoundDown(a, s) = a - t
    BY DEF RoundDown
  <1> HIDE DEF d, t
  <1>3. s * d \in Nat /\ s * (d + 1) = s * d + s /\ (d + 1) * s = s * d + s
    BY <1>1
  <1>4. RoundDown(a, s) = s * d
    BY <1>1, <1>2, <1>3
  <1> QED
    BY <1>1, <1>3, <1>4 DEF d

\* A PUD holds a whole number of PMDs.
LEMMA PudOfPmds ==
  \E k \in Nat \ {0} : PudPages = PmdPages * k
  <1>1. PudPages \in Nat \ {0} /\ PmdPages \in Nat \ {0} /\ PudPages % PmdPages = 0
    BY StreamAssumption
  <1> DEFINE k == PudPages \div PmdPages
  <1>2. k \in Nat /\ PudPages = PmdPages * k + 0
    BY <1>1, Division
  <1> HIDE DEF k
  <1>3. PmdPages * k \in Nat
    BY <1>1, <1>2
  <1>4. PudPages = PmdPages * k /\ k # 0
    BY <1>1, <1>2, <1>3
  <1> QED
    BY <1>2, <1>4

\* The end of a PUD is the beginning of a PMD.
LEMMA PudStands ==
  ASSUME NEW a \in Nat, NEW cur, NEW last, NEW pages
  PROVE  StandsAt(RoundDown(a, PudPages) + PudPages, cur, last, pages)
  <1> DEFINE q == (a \div PudPages) + 1
             h == RoundDown(a, PudPages) + PudPages
  <1>1. PudPages \in Nat \ {0} /\ PmdPages \in Nat \ {0}
    BY StreamAssumption
  <1>2. h = PudPages * q /\ q \in Nat
    BY <1>1, PageEnd
  <1> HIDE DEF q, h
  <1>3. h \in Nat /\ h % PudPages = 0
    BY <1>1, <1>2, Multiple
  <1>4. PICK k \in Nat \ {0} : PudPages = PmdPages * k
    BY PudOfPmds
  <1> DEFINE m == k * q
  <1>5. m \in Nat /\ h = PmdPages * m
    BY <1>1, <1>2, <1>4
  <1> HIDE DEF m
  <1>6. h % PmdPages = 0
    BY <1>1, <1>5, Multiple
  <1> QED
    BY <1>3, <1>6 DEF StandsAt, h

\* An address behind another, at most where its page ends, is in the same page or
\* that end.
LEMMA NearPage ==
  ASSUME NEW a \in Nat, NEW s \in Nat \ {0}, NEW h \in Nat, h >= a, h <= RoundDown(a, s) + s
  PROVE  (h = RoundDown(a, s) + s /\ h % s = 0) \/ (h < RoundDown(a, s) + s /\ h \div s = a \div s)
  <1> DEFINE d == a \div s
             t == a % s
             r == h - s * d
             up == RoundDown(a, s) + s
  <1>1. d \in Nat /\ t \in 0 .. s - 1 /\ a = s * d + t
    BY Division
  <1>2. up = s * (d + 1) /\ RoundDown(a, s) = s * d
    BY PageEnd
  <1> HIDE DEF d, t, up
  <1>3. s * d \in Nat /\ s * (d + 1) = s * d + s
    BY <1>1
  <1>4. h <= s * d + s
    BY <1>2, <1>3 DEF up
  <1>5. r \in 0 .. s /\ h = s * d + r
    BY <1>1, <1>3, <1>4
  <1> HIDE DEF r
  <1>6. CASE r = s
    <2>1. h = s * (d + 1) /\ d + 1 \in Nat
      BY <1>1, <1>3, <1>5, <1>6
    <2>2. h % s = 0
      BY <2>1, Multiple
    <2> QED
      BY <1>2, <2>1, <2>2 DEF up
  <1>7. CASE r # s
    <2>1. r \in 0 .. s - 1
      BY <1>5, <1>7
    <2>2. h \div s = d
      BY <1>1, <1>5, <2>1, DivisionUnique
    <2>3. h < up
      BY <1>2, <1>3, <1>5, <2>1
    <2> QED
      BY <2>2, <2>3 DEF d, up
  <1> QED
    BY <1>6, <1>7

\* A PMD ends at the latest where its PUD does.
LEMMA PmdInPud ==
  ASSUME NEW a \in Nat
  PROVE  RoundDown(a, PmdPages) + PmdPages <= RoundDown(a, PudPages) + PudPages
  <1> DEFINE q == a \div PmdPages
             u == a % PmdPages
             d == a \div PudPages
             t == a % PudPages
  <1>1. PudPages \in Nat \ {0} /\ PmdPages \in Nat \ {0}
    BY StreamAssumption
  <1>2. q \in Nat /\ u \in 0 .. PmdPages - 1 /\ a = PmdPages * q + u
    BY <1>1, Division
  <1>3. d \in Nat /\ t \in 0 .. PudPages - 1 /\ a = PudPages * d + t
    BY <1>1, Division
  <1>4. RoundDown(a, PmdPages) + PmdPages = PmdPages * (q + 1)
    BY <1>1, PageEnd
  <1>5. RoundDown(a, PudPages) + PudPages = PudPages * (d + 1)
    BY <1>1, PageEnd
  <1>6. PICK k \in Nat \ {0} : PudPages = PmdPages * k
    BY PudOfPmds
  <1> HIDE DEF q, u, d, t
  <1> DEFINE m == k * (d + 1)
  <1>7. PudPages * (d + 1) = PmdPages * m /\ m \in Nat
    BY <1>1, <1>3, <1>6
  <1> HIDE DEF m
  <1>8. PudPages * (d + 1) = PudPages * d + PudPages /\ PudPages * d \in Nat
    BY <1>1, <1>3
  <1>9. a < PmdPages * m
    BY <1>1, <1>3, <1>7, <1>8
  <1>10. q + 1 <= m
    <2>1. CASE m <= q
      <3>1. PICK j \in Nat : q = m + j
        <4>1. q - m \in Nat /\ q = m + (q - m)
          BY <1>2, <1>7, <2>1
        <4> QED
          BY <4>1
      <3>2. PmdPages * (m + j) = PmdPages * m + PmdPages * j /\ PmdPages * j \in Nat /\ PmdPages * m \in Nat
        BY <1>1, <1>7
      <3> QED
        BY <1>2, <1>9, <3>1, <3>2
    <2> QED
      BY <1>2, <1>7, <2>1
  <1>11. PICK j \in Nat : m = (q + 1) + j
    <2>1. m - (q + 1) \in Nat /\ m = (q + 1) + (m - (q + 1))
      BY <1>2, <1>7, <1>10
    <2> QED
      BY <2>1
  <1>12. /\ PmdPages * ((q + 1) + j) = PmdPages * (q + 1) + PmdPages * j
         /\ PmdPages * j \in Nat /\ PmdPages * (q + 1) \in Nat
    BY <1>1, <1>2
  <1> QED
    BY <1>4, <1>5, <1>7, <1>11, <1>12

\* The end of a PMD, below a PUD of smaller pages.
LEMMA PmdStands ==
  ASSUME NEW a \in Nat, pud[PudOf(a)] = "table", NEW cur, NEW last, NEW pages
  PROVE  StandsAt(RoundDown(a, PmdPages) + PmdPages, cur, last, pages)
  <1> DEFINE h == RoundDown(a, PmdPages) + PmdPages
             q == (a \div PmdPages) + 1
  <1>1. PudPages \in Nat \ {0} /\ PmdPages \in Nat \ {0}
    BY StreamAssumption
  <1>2. h = PmdPages * q /\ q \in Nat
    BY <1>1, PageEnd
  <1>3. a < h
    BY <1>1, Rounds
  <1>4. h <= RoundDown(a, PudPages) + PudPages
    BY PmdInPud
  <1> HIDE DEF h, q
  <1>5. h \in Nat /\ h % PmdPages = 0
    BY <1>1, <1>2, Multiple
  <1>6. h % PudPages = 0 \/ PudOf(h) = PudOf(a)
    <2>1. h >= a
      BY <1>3, <1>5
    <2>2. h % PudPages = 0 \/ h \div PudPages = a \div PudPages
      BY <1>1, <1>4, <1>5, <2>1, NearPage
    <2> QED
      BY <2>2 DEF PudOf
  <1> QED
    BY <1>5, <1>6 DEF StandsAt, h

-----------------------------------------------------------------------------
(* The cursors of the kernel and of the parser.                            *)

\* In the kernel the parser of the report stands at next_hva; when the read is
\* over, at f_pos.
Together ==
  /\ pc \in InTheKernel => Agrees(eic)
  /\ pc = "parse" /\ eic.out # <<>> => Decoded.va = pos
  /\ pc = "range" => eic.pie_read = 0 /\ w.start < w.end

\* The entries of a PMD that are walked.
EntriesTo(cur, b, stop, last, g) ==
  /\ cur < b /\ b <= (PmdOf(cur) + 1) * PmdPages /\ b + g <= TaskSize
  /\ pud[PudOf(cur)] = "table"
  /\ ~Kvm => PmdOf(cur) = PmdOf(last)
  /\ b % PmdPages = 0 \/ ~Kvm \/ b = stop

\* What is walked ends below TASK_SIZE.
Ranges ==
  /\ pc = "pages" => w.cur < w.stop
  /\ pc = "ptes" => EntriesTo(w.cur, w.pte_end, w.stop, eic.last_va, eic.gpa_to_hva)
  /\ pc \in {"pages", "ptes"} /\ Kvm => w.stop + eic.gpa_to_hva <= TaskSize

Stands ==
  pc \in {"pages", "ptes"} /\ eic.pie_read # 0 =>
    StandsAt(eic.next_hva - eic.gpa_to_hva, w.cur, eic.last_va, pc = "pages")

CursorInv == Together /\ Ranges /\ Stands

\* The PMD at the cursor was not walked before (mm_idle_pmd_entry).
Fresh == pc = "ptes" \/ Kvm \/ PmdOf(w.cur) # PmdOf(eic.last_va)

\* The cursor moves on, or into a PMD of small pages; a hole may move the restart
\* address along.
Onward ==
  /\ eic'.restart_gpa = eic.restart_gpa \/ (Kvm /\ eic'.restart_gpa >= w.cur)
  /\ pc' = "pages" => w'.cur > w.cur /\ eic'.last_va = eic.last_va
  /\ pc' = "ptes" => Fresh /\ w'.cur = w.cur

\* The cursor moves behind a page of a size, or to the end of a VMA within its PMD.
Ahead(size) ==
  LET behind == RoundDown(w.cur, size) + size IN
  \/ w'.cur >= behind
  \/ /\ pc' = "pages" /\ ~Kvm /\ PmdOf(w'.cur) = PmdOf(eic'.last_va)
     /\ behind = (PmdOf(w'.cur) + 1) * PmdPages

\* A large page at the cursor.
LargePage(type) ==
  /\ pc = "pages"
  /\ \/ type = "PUD_PRESENT" /\ pud[PudOf(w.cur)] = "present"
     \/ type \in PmdTypes /\ pmd[PmdOf(w.cur)] \in {"idle", "accessed"}

\* The cursor moves over what is not there, or counts as done already.
PassesOver ==
  /\ pc' = "ptes" => pmd[PmdOf(w.cur)] = "table" /\ eic'.restart_gpa = eic.restart_gpa
  /\ pc' # "ptes" =>
       /\ \/ ~Kvm /\ w'.cur \in PassedOver(w.cur)
          \/ ~Kvm /\ w.cur .. w'.cur - 1 \subseteq skipped'
          \/ Kvm /\ pud[PudOf(w.cur)] = "none" /\ w'.cur = PudEnd(w.cur, w.stop)
       /\ eic'.restart_gpa = IF Kvm THEN w'.cur ELSE eic.restart_gpa
  /\ pc' = "copy" => w'.cur >= w.stop \/ (~Kvm /\ w.cur .. w.stop - 1 \subseteq skipped')

\* A hole is one entry of the page table, and only a full buffer ends the walk there.
HoleAt(type) ==
  /\ \/ type = "PTE_HOLE" /\ pc = "ptes" /\ pte[w.cur] = "none"
     \/ type = "PMD_HOLE" /\ pc = "pages" /\ pmd[PmdOf(w.cur)] \in {"none", "swapped"}
  /\ pc' = "copy" => eic'.full \/ w'.cur >= w.stop

\* A step of the page walk that finds no page for the report.
Nothing ==
  /\ eic'.out = eic.out /\ eic'.kpie = eic.kpie
  /\ Report(eic') = Report(eic) /\ eic'.next_hva = eic.next_hva
  /\ eic'.pie_read = eic.pie_read /\ eic'.full = eic.full /\ cleared' = cleared
  /\ Onward /\ PassesOver /\ eic'.pie_read_max = eic.pie_read_max

\* A step that finds a page at the cursor and tests its accessed bit.
Finds(type) ==
  /\ Fresh /\ (pc' # "copy" => Ahead(pagetype_size(type)))
  /\ type \in PteTypes \cup HoleTypes \/ LargePage(type)
  /\ type \in PageTypes /\ Adds(eic, eic', w.cur, type)
  /\ \/ cleared' = cleared
     \/ /\ type \in AccessedTypes
        /\ cleared' = cleared \cup {[type |-> type,
                                     va |-> RoundDown(w.cur, pagetype_size(type)) + eic.gpa_to_hva]}
  /\ type \in PmdTypes => pud[PudOf(w.cur)] = "table"
  /\ type \in HoleTypes => HoleAt(type)
  /\ ~eic'.full => w'.cur <= RoundDown(w.cur, pagetype_size(type)) + pagetype_size(type)
  /\ eic'.pie_read_max = eic.pie_read_max

PageStep == Nothing \/ \E type \in PageTypes : Finds(type)

\* The sizes of pages.
LEMMA TypeSizes ==
  /\ \A type \in PteTypes : pagetype_size(type) = 1
  /\ \A type \in PmdTypes : pagetype_size(type) = PmdPages
  /\ pagetype_size("PUD_PRESENT") = PudPages
  BY DEF pagetype_size, PteTypes, PmdTypes

\* last_va is not part of the report.
LEMMA LastVaKept ==
  ASSUME NEW e \in ControlBlocks, NEW last \in Int
  PROVE  LET f == [e EXCEPT !.last_va = last] IN
         /\ f \in ControlBlocks /\ f.last_va = last /\ f.out = e.out /\ f.kpie = e.kpie
         /\ Report(f) = Report(e) /\ f.next_hva = e.next_hva /\ f.pie_read = e.pie_read
         /\ f.full = e.full /\ f.restart_gpa = e.restart_gpa /\ f.gpa_to_hva = e.gpa_to_hva
         /\ f.pie_read_max = e.pie_read_max /\ (Agrees(f) <=> Agrees(e))
  <1> DEFINE f == [e EXCEPT !.last_va = last]
  <1>1. /\ f \in ControlBlocks /\ f.last_va = last /\ f.out = e.out /\ f.kpie = e.kpie
        /\ f.next_hva = e.next_hva /\ f.pie_read = e.pie_read
        /\ f.full = e.full /\ f.restart_gpa = e.restart_gpa /\ f.gpa_to_hva = e.gpa_to_hva
        /\ f.pie_read_max = e.pie_read_max
    BY DEF ControlBlocks
  <1> HIDE DEF f
  <1>2. Report(f) = Report(e)
    BY <1>1 DEF Report
  <1>3. Agrees(f) <=> Agrees(e)
    BY <1>1, <1>2, Zenon DEF Agrees
  <1> QED
    BY <1>1, <1>2, <1>3 DEF f

\* After a page was added the parser still stands where the kernel does.
LEMMA AddsAgree ==
  ASSUME NEW e, NEW f, NEW addr, NEW type, Agrees(e), Adds(e, f, addr, type)
  PROVE  Agrees(f)
  BY Zenon DEF Adds, Agrees

\* Where a report stands after a large page was added and the cursor moved.
LEMMA AddedStands ==
  ASSUME NEW e \in ControlBlocks, NEW f, NEW a \in Nat, NEW type,
         Adds(e, f, a, type),
         type = "PUD_PRESENT" \/ (type \in PmdTypes /\ pud[PudOf(a)] = "table"),
         NEW last, NEW pages,
         e.pie_read # 0 => StandsAt(e.next_hva - e.gpa_to_hva, a, last, pages),
         NEW next \in Int, next > a, NEW other, NEW on,
         f.pie_read # 0
  PROVE  StandsAt(f.next_hva - e.gpa_to_hva, next, other, on)
  <1> DEFINE size == pagetype_size(type)
             down == RoundDown(a, size)
             h == f.next_hva - e.gpa_to_hva
  <1>1. \/ f.next_hva = e.next_hva /\ f.pie_read = e.pie_read
        \/ f.next_hva = down + e.gpa_to_hva + size
    BY Zenon DEF Adds
  <1>2. e.gpa_to_hva \in Int /\ e.next_hva \in Nat
    BY DEF ControlBlocks
  <1>3. CASE f.next_hva = e.next_hva /\ f.pie_read = e.pie_read
    <2> DEFINE h0 == e.next_hva - e.gpa_to_hva
    <2>1. StandsAt(h0, a, last, pages) /\ h = h0
      BY <1>3
    <2> HIDE DEF h0
    <2>2. StandsAt(h0, next, other, on)
      BY <2>1, CursorMoves
    <2> QED
      BY <2>1, <2>2
  <1>4. CASE f.next_hva = down + e.gpa_to_hva + size
    <2>1. size \in Nat \ {0}
      BY PageSizes
    <2> HIDE DEF size
    <2>2. down \in Nat
      BY <2>1, Rounds
    <2> HIDE DEF down
    <2>3. h = down + size
      BY <1>2, <1>4, <2>1, <2>2
    <2>4. CASE type = "PUD_PRESENT"
      <3>1. StandsAt(RoundDown(a, PudPages) + PudPages, next, other, on)
        BY PudStands
      <3>2. size = PudPages
        BY <2>4, TypeSizes DEF size
      <3> QED
        BY <2>3, <3>1, <3>2 DEF down, size
    <2>5. CASE type \in PmdTypes /\ pud[PudOf(a)] = "table"
      <3>1. StandsAt(RoundDown(a, PmdPages) + PmdPages, next, other, on)
        BY <2>5, PmdStands
      <3>2. size = PmdPages
        BY <2>5, TypeSizes DEF size
      <3> QED
        BY <2>3, <3>1, <3>2 DEF down, size
    <2> QED
      BY <2>4, <2>5
  <1> QED
    BY <1>1, <1>3, <1>4

\* The invariant of a walk that goes on.
LEMMA WalkFrame ==
  ASSUME UNCHANGED <<layout, pud>>, pc' \in {"pages", "ptes", "copy"}, Agrees(eic'),
         pc' = "pages" => w'.cur < w'.stop,
         pc' = "ptes" => EntriesTo(w'.cur, w'.pte_end, w'.stop, eic'.last_va, eic'.gpa_to_hva),
         pc' \in {"pages", "ptes"} /\ Kvm => w'.stop + eic'.gpa_to_hva <= TaskSize,
         pc' \in {"pages", "ptes"} /\ eic'.pie_read # 0 =>
           StandsAt(eic'.next_hva - eic'.gpa_to_hva, w'.cur, eic'.last_va, pc' = "pages")
  PROVE  CursorInv'
  <1>1. Kvm' <=> Kvm
    BY DEF Kvm
  <1>2. Together'
    BY DEF Together
  <1>3. Ranges'
    BY <1>1 DEF Ranges, EntriesTo
  <1>4. Stands'
    BY <1>1 DEF Stands, StandsAt
  <1> QED
    BY <1>2, <1>3, <1>4 DEF CursorInv

\* What a page walk finds.
LEMMA InPages ==
  ASSUME Inv, CursorInv, pc \in {"pages", "ptes"}
  PROVE  /\ pc \in InTheKernel /\ Mapped(w.cur, eic) /\ Mapped(w.stop, eic)
         /\ w.cur \in Nat /\ w.stop \in Nat /\ w \in Cursors /\ eic \in ControlBlocks /\ Fit(eic)
         /\ eic.gpa_to_hva \in Int /\ (~Kvm => eic.gpa_to_hva = 0) /\ eic.last_va \in Int
         /\ Agrees(eic) /\ (Kvm => w.stop + eic.gpa_to_hva <= TaskSize)
         /\ eic.pie_read # 0 =>
              StandsAt(eic.next_hva - eic.gpa_to_hva, w.cur, eic.last_va, pc = "pages")
  <1>1. pc \in InTheKernel
    BY DEF InTheKernel
  <1>2. Mapped(w.cur, eic) /\ Mapped(w.stop, eic)
    BY DEF Inv, TypeInv
  <1>3. /\ w \in Cursors /\ eic \in ControlBlocks /\ Fit(eic) /\ eic.gpa_to_hva \in Int
        /\ (~Kvm => eic.gpa_to_hva = 0)
    BY <1>1, InKernel
  <1>4. w.cur \in Nat /\ w.stop \in Nat /\ eic.last_va \in Int
    BY <1>2, <1>3 DEF Mapped, ControlBlocks
  <1>5. Agrees(eic)
    BY <1>1 DEF CursorInv, Together
  <1>6. /\ Kvm => w.stop + eic.gpa_to_hva <= TaskSize
        /\ eic.pie_read # 0 =>
             StandsAt(eic.next_hva - eic.gpa_to_hva, w.cur, eic.last_va, pc = "pages")
    BY DEF CursorInv, Ranges, Stands
  <1> QED
    BY <1>1, <1>2, <1>3, <1>4, <1>5, <1>6

\* The walk goes on behind what it found.
LEMMA GoOnFrame ==
  ASSUME Inv, CursorInv, pc \in {"pages", "ptes"}, UNCHANGED <<layout, pud>>,
         Agrees(eic'), eic'.gpa_to_hva = eic.gpa_to_hva,
         NEW next \in Int, NEW over, GoOn(next, over),
         pc' = "pages" /\ eic'.pie_read # 0 =>
           StandsAt(eic'.next_hva - eic'.gpa_to_hva, next, eic'.last_va, TRUE)
  PROVE  CursorInv'
  <1>1. /\ w \in Cursors /\ w.stop \in Nat
        /\ Kvm => w.stop + eic.gpa_to_hva <= TaskSize
    BY InPages
  <1>2. w' = [w EXCEPT !.cur = next] /\ pc' = IF over \/ next >= w.stop THEN "copy" ELSE "pages"
    BY DEF GoOn
  <1>3. w'.cur = next /\ w'.stop = w.stop
    BY <1>1, <1>2 DEF Cursors
  <1>4. pc' \in {"pages", "copy"} /\ (pc' = "pages" => w'.cur < w'.stop)
    BY <1>1, <1>2, <1>3
  <1>5. pc' # "ptes"
    BY <1>4
  <1>6. pc' \in {"pages", "ptes"} /\ eic'.pie_read # 0 =>
           StandsAt(eic'.next_hva - eic'.gpa_to_hva, w'.cur, eic'.last_va, pc' = "pages")
    <2> SUFFICES ASSUME pc' = "pages", eic'.pie_read # 0
                 PROVE  StandsAt(eic'.next_hva - eic'.gpa_to_hva, w'.cur, eic'.last_va, pc' = "pages")
      BY <1>5
    <2>1. (pc' = "pages") = TRUE
      OBVIOUS
    <2> QED
      BY <1>3, <2>1
  <1> QED
    BY <1>1, <1>3, <1>4, <1>5, <1>6, WalkFrame

\* A page that is added where last_va was set is added to the report as it was.
LEMMA AddsLastVa ==
  ASSUME NEW e \in ControlBlocks, NEW last \in Int, NEW f, NEW a, NEW type,
         Adds([e EXCEPT !.last_va = last], f, a, type)
  PROVE  Adds(e, f, a, type)
  <1> DEFINE g == [e EXCEPT !.last_va = last]
  <1>1. /\ g.out = e.out /\ g.kpie = e.kpie
        /\ Report(g) = Report(e) /\ g.next_hva = e.next_hva /\ g.pie_read = e.pie_read
        /\ g.full = e.full /\ g.gpa_to_hva = e.gpa_to_hva /\ g.pie_read_max = e.pie_read_max
    BY LastVaKept
  <1>2. Adds(g, f, a, type)
    OBVIOUS
  <1> HIDE DEF g
  <1>3. \A at : NewRun(g, f, at) <=> NewRun(e, f, at)
    BY <1>1, Zenon DEF NewRun
  <1>4. NoRoom(g) <=> NoRoom(e)
    BY <1>1 DEF NoRoom
  <1> QED
    BY <1>1, <1>2, <1>3, <1>4, Zenon DEF Adds

\* What eic_add_page() leaves alone.
Kept(e, f) == f.last_va = e.last_va /\ f.gpa_to_hva = e.gpa_to_hva

\* eic_add_page() does not move the walk to another PMD or slot.
LEMMA AddKeepsLast ==
  ASSUME NEW e \in ControlBlocks, NEW addr, NEW next, NEW type
  PROVE  Kept(e, eic_add_page(e, addr, next, type))
  <1> DEFINE upto == RoundUp(next, pagetype_size(type))
             at == RoundDown(addr, pagetype_size(type)) + e.gpa_to_hva
             reported == eic_report_addr(e, at)
  <1>1. eic_add_page(e, addr, next, type)
          = IF e.pie_read = 0 \/ addr + e.gpa_to_hva # e.next_hva
              THEN AddApart(e, addr, upto, type) ELSE AddNext(e, addr, upto, type)
    BY DEF eic_add_page
  <1> HIDE DEF upto, at
  <1>2. reported = [e EXCEPT !.kpie = Append(e.kpie, SetHva(at)),
                             !.pie_read = e.pie_read + AddrBytes + 1]
    BY DEF eic_report_addr, ControlBlocks
  <1>3. ASSUME NEW f, f = [e EXCEPT !.kpie = f.kpie, !.pie_read = f.pie_read]
        PROVE  Kept(e, NewItem(f, upto, type))
    <2>1. DOMAIN f = DOMAIN e /\ f.last_va = e.last_va /\ f.gpa_to_hva = e.gpa_to_hva
      BY <1>3 DEF ControlBlocks
    <2>2. NewItem(f, upto, type)
            = [f EXCEPT !.next_hva = upto + f.gpa_to_hva, !.restart_gpa = upto,
                        !.kpie = Append(f.kpie, Run(type, 1)), !.pie_read = f.pie_read + 1]
      BY <1>3 DEF NewItem, Advance, ControlBlocks
    <2> QED
      BY <2>1, <2>2 DEF ControlBlocks, Kept
  <1>4. Kept(e, AddApart(e, addr, upto, type))
    <2>1. AddApart(e, addr, upto, type)
            = IF type \in HoleTypes THEN [e EXCEPT !.restart_gpa = upto]
              ELSE IF e.pie_read + AddrBytes + 2 >= e.pie_read_max
                THEN [e EXCEPT !.full = TRUE, !.restart_gpa = addr]
              ELSE NewItem(reported, upto, type)
      BY Zenon DEF AddApart, KbufFull, at
    <2>2. reported = [e EXCEPT !.kpie = reported.kpie, !.pie_read = reported.pie_read]
      BY <1>2 DEF ControlBlocks
    <2> HIDE DEF reported
    <2>3. Kept(e, NewItem(reported, upto, type))
      BY <1>3, <2>2
    <2>4. /\ Kept(e, [e EXCEPT !.restart_gpa = upto])
          /\ Kept(e, [e EXCEPT !.full = TRUE, !.restart_gpa = addr])
      BY DEF ControlBlocks, Kept
    <2> QED
      BY <2>1, <2>3, <2>4
  <1>5. Kept(e, AddNext(e, addr, upto, type))
    <2> DEFINE items == [e.kpie EXCEPT ![Len(e.kpie)] = Run(type, e.kpie[Len(e.kpie)].arg + 1)]
               hva == upto + e.gpa_to_hva
    <2>1. \/ AddNext(e, addr, upto, type) = [[e EXCEPT !.next_hva = hva, !.restart_gpa = upto] EXCEPT !.kpie = items]
          \/ AddNext(e, addr, upto, type) = [e EXCEPT !.full = TRUE, !.restart_gpa = addr]
          \/ AddNext(e, addr, upto, type) = NewItem(e, upto, type)
      BY Zenon DEF AddNext, Advance, KbufFull
    <2> HIDE DEF items, hva
    <2>2. e = [e EXCEPT !.kpie = e.kpie, !.pie_read = e.pie_read]
      BY DEF ControlBlocks
    <2>3. Kept(e, NewItem(e, upto, type))
      BY <1>3, <2>2
    <2>4. /\ Kept(e, [[e EXCEPT !.next_hva = hva, !.restart_gpa = upto] EXCEPT !.kpie = items])
          /\ Kept(e, [e EXCEPT !.full = TRUE, !.restart_gpa = addr])
      BY DEF ControlBlocks, Kept
    <2> QED
      BY <2>1, <2>3, <2>4
  <1> QED
    BY <1>1, <1>4, <1>5

\* A negative number has a negative quotient.
LEMMA NegativeQuotient ==
  ASSUME NEW a \in Int, NEW s \in Nat \ {0}, a < 0
  PROVE  a \div s < 0
  <1>1. a \div s \in Int /\ a % s \in 0 .. s - 1 /\ a = s * (a \div s) + (a % s)
    OBVIOUS
  <1>2. PICK q \in Int, r \in 0 .. s - 1 : q = a \div s /\ r = a % s /\ a = s * q + r
    BY <1>1
  <1>3. ASSUME q >= 0 PROVE FALSE
    <2>1. s * q >= 0
      BY <1>3
    <2> QED
      BY <1>2, <2>1
  <1> QED
    BY <1>2, <1>3

\* Addresses in the same PMD are in the same PUD.
LEMMA SamePud ==
  ASSUME NEW a \in Nat, NEW last \in Int, PmdOf(a) = PmdOf(last)
  PROVE  PudOf(a) = PudOf(last)
  <1>1. PudPages \in Nat \ {0} /\ PmdPages \in Nat \ {0}
    BY StreamAssumption
  <1>2. last \in Nat
    <2>1. a \div PmdPages \in Nat
      BY <1>1, Division
    <2> QED
      BY <1>1, <2>1, NegativeQuotient DEF PmdOf
  <1>3. ASSUME NEW b \in Nat, NEW h \in Nat, h >= b, PmdOf(h) = PmdOf(b)
        PROVE  PudOf(h) = PudOf(b)
    <2>1. RoundDown(b, PmdPages) + PmdPages <= RoundDown(b, PudPages) + PudPages
      BY PmdInPud
    <2>2. h < RoundDown(b, PmdPages) + PmdPages
      <3>1. RoundDown(b, PmdPages) = RoundDown(h, PmdPages)
        <4>1. RoundDown(b, PmdPages) = PmdPages * (b \div PmdPages) /\ RoundDown(h, PmdPages) = PmdPages * (h \div PmdPages)
          BY <1>1, PageEnd
        <4> QED
          BY <1>3, <4>1 DEF PmdOf
      <3>2. h < RoundDown(h, PmdPages) + PmdPages
        BY <1>1, Rounds
      <3> QED
        BY <3>1, <3>2
    <2> DEFINE x == RoundDown(b, PmdPages)
               y == RoundDown(b, PudPages)
    <2>3. x \in Nat /\ y \in Nat
      BY <1>1, Rounds
    <2>6. x + PmdPages <= y + PudPages /\ h < x + PmdPages
      BY <2>1, <2>2
    <2> HIDE DEF x, y
    <2>4. h <= y + PudPages /\ h # y + PudPages
      BY <1>1, <2>3, <2>6
    <2>5. h \div PudPages = b \div PudPages
      BY <1>1, <1>3, <2>4, NearPage DEF y
    <2> QED
      BY <2>5 DEF PudOf
  <1>4. a >= last \/ last >= a
    BY <1>2
  <1> QED
    BY <1>2, <1>3, <1>4

\* Where the cursor is after GoOn().
LEMMA GoOnMoves ==
  ASSUME w \in Cursors, NEW next, NEW over, GoOn(next, over)
  PROVE  w'.cur = next /\ pc' \in {"pages", "copy"} /\ (pc' = "pages" => ~(next >= w.stop))
  <1>1. w' = [w EXCEPT !.cur = next] /\ pc' = IF over \/ next >= w.stop THEN "copy" ELSE "pages"
    BY DEF GoOn
  <1> QED
    BY <1>1 DEF Cursors

\* Behind a PMD, or at the end of a VMA within it.
LEMMA PmdAhead ==
  ASSUME w \in Cursors, w.cur \in Nat, w.stop \in Nat, NEW b \in Nat, b > w.cur,
         b <= (PmdOf(w.cur) + 1) * PmdPages, b % PmdPages = 0 \/ ~Kvm \/ b = w.stop,
         NEW over, GoOn(b, over), ~Kvm => eic'.last_va = w.cur, pc' # "copy"
  PROVE  Ahead(PmdPages)
  <1> DEFINE a == w.cur
             down == RoundDown(a, PmdPages)
  <1>1. w'.cur = b /\ pc' = "pages" /\ ~(b >= w.stop)
    BY GoOnMoves
  <1>2. PmdPages \in Nat \ {0}
    BY StreamAssumption
  <1>3. down + PmdPages = (PmdOf(a) + 1) * PmdPages /\ down = PmdPages * (a \div PmdPages)
    BY <1>2, PageEnd DEF PmdOf
  <1>4. down \in Nat /\ down <= a
    BY <1>2, Rounds
  <1>5. b <= down + PmdPages
    BY <1>3
  <1>6. \/ b = down + PmdPages
        \/ b < down + PmdPages /\ b \div PmdPages = a \div PmdPages
    BY <1>2, <1>5, NearPage
  <1>7. CASE b = down + PmdPages
    BY <1>1, <1>2, <1>4, <1>7 DEF Ahead
  <1>8. CASE b < down + PmdPages /\ b \div PmdPages = a \div PmdPages
    <2>1. ~(b % PmdPages = 0)
      <3> SUFFICES ASSUME b % PmdPages = 0 PROVE FALSE
        OBVIOUS
      <3>1. b = PmdPages * (b \div PmdPages) + (b % PmdPages) /\ b \div PmdPages \in Nat
        BY <1>2, Division
      <3>2. PICK q \in Nat : q = b \div PmdPages
        BY <3>1
      <3>3. b = PmdPages * q /\ down = PmdPages * q
        BY <1>2, <1>3, <1>8, <3>1, <3>2
      <3> QED
        BY <1>4, <3>3
    <2>2. ~Kvm /\ eic'.last_va = a
      BY <1>1, <2>1
    <2>3. PmdOf(w'.cur) = PmdOf(a)
      BY <1>1, <1>8 DEF PmdOf
    <2> QED
      BY <1>1, <1>3, <2>2, <2>3 DEF Ahead
  <1> QED
    BY <1>6, <1>7, <1>8

\* A large page or a hole of a PMD at the cursor, and the walk goes on behind it.
LEMMA LargeTogether ==
  ASSUME Inv, CursorInv, pc = "pages", UNCHANGED <<layout, pud>>,
         NEW last \in Int, NEW b \in Nat, NEW type \in PageTypes, NEW over,
         b > w.cur, b + eic.gpa_to_hva <= TaskSize,
         b <= RoundDown(w.cur, pagetype_size(type)) + pagetype_size(type), Mapped(b, eic),
         type = "PUD_PRESENT" \/ (type \in PmdTypes /\ pud[PudOf(w.cur)] = "table"),
         eic.pie_read # 0 /\ w.cur + eic.gpa_to_hva = eic.next_hva => w.cur % pagetype_size(type) = 0,
         eic' = eic_add_page([eic EXCEPT !.last_va = last], w.cur, b, type), GoOn(b, over)
  PROVE  CursorInv' /\ Adds(eic, eic', w.cur, type) /\ eic'.last_va = last
         /\ eic'.pie_read_max = eic.pie_read_max
  <1> DEFINE a == w.cur
             e == [eic EXCEPT !.last_va = last]
  <1>1. /\ Mapped(a, eic) /\ a \in Nat /\ eic \in ControlBlocks /\ Fit(eic) /\ Agrees(eic)
        /\ eic.gpa_to_hva \in Int
        /\ eic.pie_read # 0 =>
             StandsAt(eic.next_hva - eic.gpa_to_hva, a, eic.last_va, pc = "pages")
    BY InPages
  <1>2. /\ e \in ControlBlocks /\ e.next_hva = eic.next_hva /\ e.pie_read = eic.pie_read
        /\ e.gpa_to_hva = eic.gpa_to_hva /\ Agrees(e) /\ e.pie_read_max = eic.pie_read_max
    BY <1>1, LastVaKept
  <1>12. e.last_va = last
    BY <1>1 DEF ControlBlocks
  <1>3. Fit(e)
    <2>1. /\ e.kpie = eic.kpie /\ e.out = eic.out /\ e.bytes_copied = eic.bytes_copied
          /\ e.pie_read_max = eic.pie_read_max /\ e.buf_size = eic.buf_size
      BY <1>1 DEF ControlBlocks
    <2> QED
      BY <1>1, <1>2, <2>1 DEF Fit
  <1>4. eic' = eic_add_page(e, a, b, type)
    OBVIOUS
  <1>5. ASSUME Adds(e, eic', a, type) PROVE Adds(eic, eic', a, type)
    BY <1>1, <1>5, AddsLastVa
  <1> HIDE DEF e
  <1>6. Mapped(a, e) /\ Mapped(b, e) /\ a + e.gpa_to_hva < TaskSize
    <2>1. a + eic.gpa_to_hva < TaskSize
      BY <1>1, WalkAssumption
    <2> QED
      BY <1>1, <1>2, <2>1 DEF Mapped
  <1>7. Adds(e, eic_add_page(e, a, b, type), a, type)
    BY <1>1, <1>2, <1>3, <1>6, AddPageReports
  <1>8. Adds(eic, eic', a, type)
    BY <1>4, <1>5, <1>7
  <1>9. Agrees(eic') /\ eic'.gpa_to_hva = eic.gpa_to_hva /\ eic'.pie_read_max = eic.pie_read_max
    <2>1. Agrees(eic')
      BY <1>1, <1>8, AddsAgree
    <2>2. /\ eic_add_page(e, a, b, type).gpa_to_hva = e.gpa_to_hva
          /\ eic_add_page(e, a, b, type).pie_read_max = e.pie_read_max
      BY <1>3, <1>6, FitAdd
    <2> QED
      BY <1>2, <1>4, <2>1, <2>2
  <1>10. eic'.pie_read # 0 =>
           StandsAt(eic'.next_hva - eic'.gpa_to_hva, b, eic'.last_va, TRUE)
    <2> SUFFICES ASSUME eic'.pie_read # 0
                 PROVE  StandsAt(eic'.next_hva - eic'.gpa_to_hva, b, eic'.last_va, TRUE)
      OBVIOUS
    <2>1. b \in Int /\ b > a
      OBVIOUS
    <2>2. \E p : eic.pie_read # 0 => StandsAt(eic.next_hva - eic.gpa_to_hva, a, eic.last_va, p)
      BY <1>1
    <2>3. PICK p : eic.pie_read # 0 => StandsAt(eic.next_hva - eic.gpa_to_hva, a, eic.last_va, p)
      BY <2>2
    <2>4. StandsAt(eic'.next_hva - eic.gpa_to_hva, b, eic'.last_va, TRUE)
      BY <1>1, <1>8, <2>1, <2>3, AddedStands
    <2> QED
      BY <1>9, <2>4
  <1>11. CursorInv'
    <2>1. b \in Int /\ pc \in {"pages", "ptes"}
      OBVIOUS
    <2> QED
      BY <1>9, <1>10, <2>1, GoOnFrame
  <1>13. eic'.last_va = last
    <2>1. Kept(e, eic_add_page(e, a, b, type))
      BY <1>2, AddKeepsLast
    <2> QED
      BY <1>4, <1>12, <2>1, Zenon DEF Kept
  <1> QED
    BY <1>8, <1>9, <1>11, <1>13

\* The walk of a PMD at the cursor, into its pages or as one.
LEMMA PmdTogether ==
  ASSUME Inv, CursorInv, pc = "pages", UNCHANGED <<layout, pud>>,
         NEW last \in Int, ~Kvm => last = w.cur, NEW b \in Nat,
         b > w.cur, b + eic.gpa_to_hva <= TaskSize, b <= (PmdOf(w.cur) + 1) * PmdPages,
         Mapped(b, eic), b % PmdPages = 0 \/ ~Kvm \/ b = w.stop,
         pud[PudOf(w.cur)] = "table", Kvm \/ PmdOf(w.cur) # PmdOf(eic.last_va),
         eic.pie_read # 0 /\ w.cur + eic.gpa_to_hva = eic.next_hva => w.cur % PmdPages = 0,
         AddPmd([eic EXCEPT !.last_va = last], w.cur, b)
  PROVE  CursorInv' /\ PageStep
  <1> DEFINE a == w.cur
             e == [eic EXCEPT !.last_va = last]
  <1>1. /\ Mapped(a, eic) /\ a \in Nat /\ eic \in ControlBlocks /\ Agrees(eic) /\ w \in Cursors
        /\ eic.gpa_to_hva \in Int /\ w.stop \in Nat
        /\ Kvm => w.stop + eic.gpa_to_hva <= TaskSize
        /\ eic.pie_read # 0 =>
             StandsAt(eic.next_hva - eic.gpa_to_hva, a, eic.last_va, pc = "pages")
    BY InPages
  <1>7. Fresh
    BY DEF Fresh
  <1>2. /\ e \in ControlBlocks /\ e.last_va = last /\ Report(e) = Report(eic)
        /\ e.out = eic.out /\ e.kpie = eic.kpie /\ e.restart_gpa = eic.restart_gpa
        /\ e.next_hva = eic.next_hva /\ e.pie_read = eic.pie_read /\ e.full = eic.full
        /\ e.gpa_to_hva = eic.gpa_to_hva /\ Agrees(e) /\ e.pie_read_max = eic.pie_read_max
    BY <1>1, LastVaKept
  <1>3. CASE EnterPtes(e, a, b)
    <2>1. /\ eic' = e /\ w' = [w EXCEPT !.pte_end = b] /\ pc' = "ptes" /\ cleared' = cleared
          /\ pmd[PmdOf(a)] = "table"
      BY <1>3 DEF EnterPtes
    <2> HIDE DEF e
    <2>2. w'.cur = a /\ w'.stop = w.stop /\ w'.pte_end = b
      BY <1>1, <2>1 DEF Cursors
    <2>3. EntriesTo(w'.cur, w'.pte_end, w'.stop, eic'.last_va, eic'.gpa_to_hva)
      BY <1>2, <2>1, <2>2 DEF EntriesTo
    <2>4. eic'.pie_read # 0 =>
             StandsAt(eic'.next_hva - eic'.gpa_to_hva, w'.cur, eic'.last_va, pc' = "pages")
      BY <1>1, <1>2, <2>1, <2>2 DEF StandsAt
    <2>5. CursorInv'
      BY <1>1, <1>2, <2>1, <2>2, <2>3, <2>4, WalkFrame
    <2>7. Onward
      BY <1>2, <1>7, <2>1, <2>2 DEF Onward
    <2>8. PassesOver
      BY <1>2, <2>1 DEF PassesOver
    <2>6. Nothing
      BY <1>2, <2>1, <2>7, <2>8 DEF Nothing
    <2> QED
      BY <2>5, <2>6 DEF PageStep
  <1>4. ASSUME NEW type \in PmdTypes, eic' = eic_add_page(e, a, b, type), GoOn(b, eic'.full),
               type \in HoleTypes \/ pmd[PmdOf(a)] \in {"idle", "accessed"},
               type \in HoleTypes => type = "PMD_HOLE" /\ pmd[PmdOf(a)] \in {"none", "swapped"},
               \/ cleared' = cleared
               \/ /\ type \in AccessedTypes
                  /\ cleared' = cleared \cup {[type |-> type, va |-> RoundDown(a, PmdPages) + eic.gpa_to_hva]}
        PROVE  CursorInv' /\ PageStep
    <2>1. type \in PageTypes /\ pagetype_size(type) = PmdPages
      BY TypeSizes DEF PageTypes
    <2>2. b <= RoundDown(a, PmdPages) + PmdPages
      <3>1. RoundDown(a, PmdPages) + PmdPages = (PmdOf(a) + 1) * PmdPages
        BY <1>1, StreamAssumption, PageEnd DEF PmdOf
      <3> QED
        BY <3>1
    <2>3. CursorInv' /\ Adds(eic, eic', a, type) /\ eic'.last_va = last /\ eic'.pie_read_max = eic.pie_read_max
      BY <1>4, <2>1, <2>2, LargeTogether
    <2>5. pc' # "copy" => Ahead(pagetype_size(type))
      BY <1>1, <1>4, <2>1, <2>3, PmdAhead
    <2>6. type \in HoleTypes \/ LargePage(type)
      BY <1>4 DEF LargePage
    <2>7. w'.cur = b /\ (pc' = "copy" => eic'.full \/ b >= w.stop)
      <3>1. w'.cur = b
        BY <1>1, <1>4, GoOnMoves
      <3> QED
        BY <1>4, <3>1 DEF GoOn
    <2>8. type \in HoleTypes => HoleAt(type)
      BY <1>4, <2>7 DEF HoleAt
    <2>4. Finds(type)
      BY <1>4, <1>7, <2>1, <2>2, <2>3, <2>5, <2>6, <2>7, <2>8 DEF Finds
    <2> QED
      BY <2>1, <2>3, <2>4 DEF PageStep
  <1> HIDE DEF e
  <1>5. CASE AddHuge(e, a, b)
    <2> DEFINE hot == pmd[PmdOf(a)] = "accessed"
               type == IF hot THEN "PMD_ACCESSED" ELSE "PMD_IDLE"
    <2>1. /\ eic' = eic_add_page(e, a, b, type) /\ GoOn(b, eic'.full)
          /\ cleared' = IF hot THEN cleared \cup {[type |-> "PMD_ACCESSED",
                                          va |-> RoundDown(a, PmdPages) + eic.gpa_to_hva]}
                        ELSE cleared
      BY <1>5, Zenon DEF AddHuge
    <2>2. /\ type \in PmdTypes /\ (hot => type = "PMD_ACCESSED") /\ (type \in AccessedTypes <=> hot)
          /\ type \notin HoleTypes
      BY DEF PmdTypes, AccessedTypes, HoleTypes
    <2>4. pmd[PmdOf(a)] \in {"idle", "accessed"}
      BY <1>5, Zenon DEF AddHuge
    <2>3. \/ cleared' = cleared
          \/ /\ type \in AccessedTypes
             /\ cleared' = cleared \cup {[type |-> type, va |-> RoundDown(a, PmdPages) + eic.gpa_to_hva]}
      BY <2>1, <2>2
    <2> HIDE DEF type
    <2> QED
      BY <1>4, <2>1, <2>2, <2>3, <2>4
  <1>6. CASE AddHole(e, a, b)
    <2>1. /\ eic' = eic_add_page(e, a, b, "PMD_HOLE") /\ GoOn(b, eic'.full) /\ cleared' = cleared
          /\ pmd[PmdOf(a)] \in {"none", "swapped"}
      BY <1>6 DEF AddHole
    <2>2. "PMD_HOLE" \in PmdTypes /\ "PMD_HOLE" \notin AccessedTypes /\ "PMD_HOLE" \in HoleTypes
      BY DEF PmdTypes, AccessedTypes, HoleTypes
    <2> QED
      BY <1>4, <2>1, <2>2
  <1> QED
    BY <1>3, <1>5, <1>6 DEF AddPmd, e

\* Where a page of the page table ends within a range (PudEnd, PmdEnd).
LEMMA EndBounds ==
  ASSUME NEW a \in Nat, NEW b \in Nat, b > a
  PROVE  /\ PudEnd(a, b) \in Nat /\ PudEnd(a, b) > a /\ PudEnd(a, b) <= b
         /\ PudEnd(a, b) <= RoundDown(a, PudPages) + PudPages
         /\ PudEnd(a, b) = RoundDown(a, PudPages) + PudPages \/ PudEnd(a, b) = b
         /\ PmdEnd(a, b) \in Nat /\ PmdEnd(a, b) > a /\ PmdEnd(a, b) <= b
         /\ PmdEnd(a, b) <= (PmdOf(a) + 1) * PmdPages
         /\ PmdEnd(a, b) % PmdPages = 0 \/ PmdEnd(a, b) = b
  <1>1. PudPages \in Nat \ {0} /\ PmdPages \in Nat \ {0}
    BY StreamAssumption
  <1> DEFINE q == a \div PmdPages
             big == (PudOf(a) + 1) * PudPages
             upto == (q + 1) * PmdPages
  <1>2. big = RoundDown(a, PudPages) + PudPages /\ big \in Nat /\ big > a
    <2>1. RoundDown(a, PudPages) + PudPages = (a \div PudPages + 1) * PudPages
      BY <1>1, PageEnd
    <2>2. RoundDown(a, PudPages) \in Nat /\ a < RoundDown(a, PudPages) + PudPages
      BY <1>1, Rounds
    <2> QED
      BY <1>1, <2>1, <2>2 DEF PudOf
  <1>3. upto \in Nat /\ upto > a /\ upto % PmdPages = 0
    <2>1. RoundDown(a, PmdPages) + PmdPages = (q + 1) * PmdPages /\ q + 1 \in Nat
      BY <1>1, PageEnd
    <2>2. RoundDown(a, PmdPages) \in Nat /\ a < RoundDown(a, PmdPages) + PmdPages
      BY <1>1, Rounds
    <2> HIDE DEF q
    <2>3. (PmdPages * (q + 1)) % PmdPages = 0 /\ PmdPages * (q + 1) = (q + 1) * PmdPages
      BY <1>1, <2>1, Multiple
    <2> QED
      BY <1>1, <2>1, <2>2, <2>3
  <1>4. PudEnd(a, b) = Least(big, b) /\ PmdEnd(a, b) = Least(upto, b) /\ (PmdOf(a) + 1) * PmdPages = upto
    BY Zenon DEF PudEnd, PmdEnd, PmdOf
  <1> HIDE DEF big, upto, q
  <1>5. /\ Least(big, b) \in Nat /\ Least(big, b) > a /\ Least(big, b) <= b /\ Least(big, b) <= big
        /\ Least(upto, b) \in Nat /\ Least(upto, b) > a /\ Least(upto, b) <= b /\ Least(upto, b) <= upto
        /\ Least(upto, b) = upto \/ Least(upto, b) = b
        /\ Least(big, b) = big \/ Least(big, b) = b
    BY <1>2, <1>3 DEF Least
  <1> QED
    BY <1>2, <1>3, <1>4, <1>5

\* A VMA found ends above the address, at TASK_SIZE at the latest.
LEMMA FoundEnd ==
  ASSUME vmas \in Seq(VmaType), NEW at, FindVma(at) # 0
  PROVE  /\ vmas[FindVma(at)].start \in Nat /\ vmas[FindVma(at)].end \in Nat
         /\ vmas[FindVma(at)].end > at /\ vmas[FindVma(at)].end <= TaskSize
  <1> DEFINE ends == {i \in DOMAIN vmas : vmas[i].end > at}
             i == FindVma(at)
  <1>1. i = IF ends = {} THEN 0 ELSE LowestOf(ends)
    BY Zenon DEF FindVma
  <1>2. ends \subseteq Nat /\ \A j \in ends : j \in DOMAIN vmas /\ vmas[j].end > at
    OBVIOUS
  <1> HIDE DEF ends
  <1>3. i \in DOMAIN vmas /\ vmas[i].end > at
    BY <1>1, <1>2, LowestIsOne
  <1> HIDE DEF i
  <1>4. vmas[i] \in VmaType
    BY <1>3
  <1> QED
    BY <1>3, <1>4, WalkAssumption DEF i, VmaType

\* A cursor that moves over addresses without a page.
LEMMA OverTogether ==
  ASSUME Inv, CursorInv, pc = "pages", UNCHANGED <<layout, pud>>,
         Report(eic') = Report(eic), eic'.next_hva = eic.next_hva, eic'.pie_read = eic.pie_read,
         eic'.gpa_to_hva = eic.gpa_to_hva,
         NEW next \in Int, next > w.cur, NEW over, GoOn(next, over)
  PROVE  CursorInv'
  <1>1. /\ Agrees(eic) /\ w.cur \in Nat
        /\ eic.pie_read # 0 =>
             StandsAt(eic.next_hva - eic.gpa_to_hva, w.cur, eic.last_va, pc = "pages")
    BY InPages
  <1>2. Agrees(eic')
    BY <1>1, Zenon DEF Agrees
  <1>3. eic'.pie_read # 0 => StandsAt(eic'.next_hva - eic'.gpa_to_hva, next, eic'.last_va, TRUE)
    <2> SUFFICES ASSUME eic'.pie_read # 0
                 PROVE  StandsAt(eic'.next_hva - eic'.gpa_to_hva, next, eic'.last_va, TRUE)
      OBVIOUS
    <2> DEFINE h == eic.next_hva - eic.gpa_to_hva
    <2>1. \E p : StandsAt(h, w.cur, eic.last_va, p)
      BY <1>1
    <2>2. eic'.next_hva - eic'.gpa_to_hva = h
      OBVIOUS
    <2> HIDE DEF h
    <2>4. PICK p : StandsAt(h, w.cur, eic.last_va, p)
      BY <2>1
    <2>5. w.cur \in Int
      BY <1>1
    <2>3. StandsAt(h, next, eic'.last_va, TRUE)
      BY <2>4, <2>5, CursorMoves
    <2> QED
      BY <2>2, <2>3
  <1>4. pc \in {"pages", "ptes"}
    OBVIOUS
  <1> QED
    BY <1>2, <1>3, <1>4, GoOnFrame

\* The page table of a guest (ept_page_range and below).
LEMMA KvmTogether ==
  ASSUME Inv, CursorInv, KvmPages
  PROVE  CursorInv' /\ PageStep
  <1> DEFINE a == w.cur
             big == PudEnd(a, w.stop)
             upto == PmdEnd(a, w.stop)
             g == eic.gpa_to_hva
  <1>1. /\ pc = "pages" /\ Kvm /\ UNCHANGED <<layout, pud>>
        /\ \/ /\ pud[PudOf(a)] = "none" /\ eic' = [eic EXCEPT !.restart_gpa = big]
              /\ GoOn(big, FALSE) /\ cleared' = cleared
           \/ /\ pud[PudOf(a)] = "present" /\ eic' = eic_add_page(eic, a, big, "PUD_PRESENT")
              /\ GoOn(big, eic'.full) /\ cleared' = cleared
           \/ pud[PudOf(a)] = "table" /\ AddPmd(eic, a, upto)
    BY Zenon DEF KvmPages
  <1>2. /\ Mapped(a, eic) /\ Mapped(w.stop, eic) /\ a \in Nat /\ w.stop \in Nat /\ w \in Cursors
        /\ eic \in ControlBlocks /\ g \in Int /\ eic.last_va \in Int /\ w.stop + g <= TaskSize
        /\ eic.pie_read # 0 => StandsAt(eic.next_hva - g, a, eic.last_va, pc = "pages")
    BY <1>1, InPages
  <1>3. a < w.stop
    BY <1>1 DEF CursorInv, Ranges
  <1>4. /\ big \in Nat /\ big > a /\ big <= w.stop /\ big <= RoundDown(a, PudPages) + PudPages
        /\ big = RoundDown(a, PudPages) + PudPages \/ big = w.stop
        /\ upto \in Nat /\ upto > a /\ upto <= w.stop /\ upto <= (PmdOf(a) + 1) * PmdPages
        /\ upto % PmdPages = 0 \/ upto = w.stop
    BY <1>2, <1>3, EndBounds
  <1>5. Mapped(big, eic) /\ Mapped(upto, eic)
    BY <1>2, MappedOn
  <1> HIDE DEF big, upto
  <1>6. big + g <= TaskSize /\ upto + g <= TaskSize
    BY <1>2, <1>4, WalkAssumption
  <1>7. eic.pie_read # 0 /\ a + g = eic.next_hva =>
          /\ a % PudPages = 0 \/ pud[PudOf(a)] = "table"
          /\ a % PmdPages = 0
    <2> SUFFICES ASSUME eic.pie_read # 0, a + g = eic.next_hva
                 PROVE  /\ a % PudPages = 0 \/ pud[PudOf(a)] = "table"
                        /\ a % PmdPages = 0
      OBVIOUS
    <2>1. eic.next_hva - g = a
      BY <1>2
    <2>2. StandsAt(a, a, eic.last_va, pc = "pages")
      BY <1>2, <2>1
    <2> QED
      BY <1>1, <2>2 DEF StandsAt
  <1>8. eic = [eic EXCEPT !.last_va = eic.last_va]
    BY <1>2 DEF ControlBlocks
  <1>9. CASE /\ pud[PudOf(a)] = "none" /\ eic' = [eic EXCEPT !.restart_gpa = big]
             /\ GoOn(big, FALSE) /\ cleared' = cleared
    <2>1. /\ eic'.out = eic.out /\ eic'.kpie = eic.kpie /\ eic'.next_hva = eic.next_hva
          /\ eic'.pie_read = eic.pie_read /\ eic'.full = eic.full /\ eic'.gpa_to_hva = eic.gpa_to_hva
          /\ eic'.restart_gpa = big /\ eic'.last_va = eic.last_va /\ eic'.pie_read_max = eic.pie_read_max
      BY <1>2, <1>9 DEF ControlBlocks
    <2>2. Report(eic') = Report(eic)
      BY <2>1 DEF Report
    <2>5. big \in Int /\ big > w.cur
      BY <1>4
    <2>6. \E over : GoOn(big, over)
      BY <1>9, Zenon
    <2>3. CursorInv'
      BY <1>1, <2>1, <2>2, <2>5, <2>6, OverTogether
    <2>7. w'.cur = big /\ pc' # "ptes"
      BY <1>2, <2>6, GoOnMoves
    <2>8. Onward
      BY <1>1, <1>2, <1>4, <2>1, <2>7 DEF Onward
    <2>9. PassesOver
      <3>1. pc' = "copy" => big >= w.stop
        BY <1>9 DEF GoOn
      <3> QED
        BY <1>1, <1>9, <2>1, <2>7, <3>1 DEF PassesOver, big
    <2>4. Nothing
      BY <1>9, <2>1, <2>2, <2>8, <2>9 DEF Nothing
    <2> QED
      BY <2>3, <2>4 DEF PageStep
  <1>10. CASE /\ pud[PudOf(a)] = "present" /\ eic' = eic_add_page(eic, a, big, "PUD_PRESENT")
              /\ GoOn(big, eic'.full) /\ cleared' = cleared
    <2> DEFINE type == "PUD_PRESENT"
    <2>1. /\ type \in PageTypes /\ pagetype_size(type) = PudPages /\ type \notin PmdTypes
          /\ type \notin AccessedTypes /\ type \notin HoleTypes
      BY TypeSizes DEF PageTypes, PmdTypes, AccessedTypes, HoleTypes
    <2>2. eic.pie_read # 0 /\ a + g = eic.next_hva => a % pagetype_size(type) = 0
      BY <1>7, <1>10, <2>1
    <2>3. eic' = eic_add_page([eic EXCEPT !.last_va = eic.last_va], a, big, type)
      BY <1>8, <1>10
    <2>4. CursorInv' /\ Adds(eic, eic', a, type) /\ eic'.pie_read_max = eic.pie_read_max
      BY <1>1, <1>2, <1>4, <1>5, <1>6, <1>10, <2>1, <2>2, <2>3, LargeTogether
    <2>6. pc' # "copy" => Ahead(pagetype_size(type))
      <3>1. w'.cur = big /\ (pc' # "copy" => ~(big >= w.stop))
        BY <1>2, <1>10, GoOnMoves
      <3>2. pc' # "copy" => w'.cur = RoundDown(a, PudPages) + PudPages /\ w'.cur \in Nat
        BY <1>2, <1>4, <3>1
      <3> QED
        BY <2>1, <3>2 DEF Ahead
    <2>7. LargePage(type) /\ Fresh
      BY <1>1, <1>10 DEF LargePage, Fresh
    <2>8. w'.cur <= RoundDown(a, pagetype_size(type)) + pagetype_size(type)
      BY <1>2, <1>4, <1>10, <2>1, GoOnMoves
    <2>5. Finds(type)
      BY <1>10, <2>1, <2>4, <2>6, <2>7, <2>8 DEF Finds
    <2> QED
      BY <2>1, <2>4, <2>5 DEF PageStep
  <1>11. CASE pud[PudOf(a)] = "table" /\ AddPmd(eic, a, upto)
    <2>1. AddPmd([eic EXCEPT !.last_va = eic.last_va], a, upto)
      BY <1>8, <1>11
    <2> QED
      BY <1>1, <1>2, <1>4, <1>5, <1>6, <1>7, <1>11, <2>1, PmdTogether
  <1> QED
    BY <1>1, <1>9, <1>10, <1>11

\* What is passed over lies behind the cursor (PassedOver).
LEMMA PassedBehind ==
  ASSUME Inv, CursorInv, pc = "pages", ~Kvm, NEW next \in PassedOver(w.cur)
  PROVE  next \in Nat /\ next > w.cur
  <1> DEFINE a == w.cur
             i == FindVma(a)
             b == Least(w.stop, vmas[i].end)
  <1>1. a \in Nat /\ w.stop \in Nat /\ vmas \in Seq(VmaType)
    BY InMmPages
  <1>2. a < w.stop
    BY DEF CursorInv, Ranges
  <1>3. PassedOver(a) =
          CASE i = 0 -> {w.stop}
            [] i # 0 /\ a < vmas[i].start -> {Least(w.stop, vmas[i].start)}
            [] i # 0 /\ a >= vmas[i].start /\ test_walk_skips(vmas[i]) -> {b}
            [] OTHER -> IF pud[PudOf(a)] = "none" THEN {PudEnd(a, b)}
                        ELSE IF pud[PudOf(a)] = "table" /\ pmd[PmdOf(a)] = "none" THEN {PmdEnd(a, b)}
                        ELSE {}
    BY Zenon DEF PassedOver
  <1>4. CASE i = 0
    BY <1>1, <1>2, <1>3, <1>4
  <1>5. CASE i # 0
    <2> DEFINE from == vmas[i].start
               to == vmas[i].end
    <2>1. from \in Nat /\ to \in Nat /\ to > a
      BY <1>1, <1>5, FoundEnd
    <2> HIDE DEF from, to
    <2>2. Least(w.stop, to) \in Nat /\ Least(w.stop, to) > a
      BY <1>1, <1>2, <2>1 DEF Least
    <2>3. b \in Nat /\ b > a
      BY <2>2 DEF to
    <2> HIDE DEF b
    <2>4. PudEnd(a, b) \in Nat /\ PudEnd(a, b) > a /\ PmdEnd(a, b) \in Nat /\ PmdEnd(a, b) > a
      BY <1>1, <2>3, EndBounds
    <2>5. CASE a < from
      <3> DEFINE first == {Least(w.stop, vmas[i].start)}
      <3>3. i # 0 /\ a < vmas[i].start /\ ~(a >= vmas[i].start)
        BY <1>1, <1>5, <2>1, <2>5 DEF from
      <3>4. PassedOver(a) = first
        <4> HIDE DEF first, i
        <4> QED
          BY <1>3, <3>3 DEF first
      <3>1. PassedOver(a) = {Least(w.stop, from)}
        BY <3>4 DEF from
      <3>2. Least(w.stop, from) \in Nat /\ Least(w.stop, from) > a
        BY <1>1, <1>2, <2>1, <2>5 DEF Least
      <3> QED
        BY <3>1, <3>2
    <2>6. CASE ~(a < from)
      <3>1. PassedOver(a) \in {{b}, {PudEnd(a, b)}, {PmdEnd(a, b)}, {}}
        BY <1>1, <1>3, <1>5, <2>1, <2>6 DEF from
      <3> QED
        BY <2>3, <2>4, <3>1
    <2> QED
      BY <2>5, <2>6
  <1> QED
    BY <1>4, <1>5

\* The cursor is in a VMA that is walked, and not under an empty PUD.
LEMMA InVma ==
  ASSUME Inv, CursorInv, pc = "pages", ~Kvm, PassedOver(w.cur) = {}
  PROVE  LET b == Least(w.stop, vmas[FindVma(w.cur)].end) IN
         b \in Nat /\ b > w.cur /\ b <= TaskSize /\ b <= w.stop
  <1> DEFINE a == w.cur
             to == vmas[FindVma(a)].end
  <1>1. a \in Nat /\ w.stop \in Nat /\ vmas \in Seq(VmaType)
    BY InMmPages
  <1>2. a < w.stop
    BY DEF CursorInv, Ranges
  <1>3. FindVma(a) # 0
    BY DEF PassedOver
  <1>4. to \in Nat /\ to > a /\ to <= TaskSize
    BY <1>1, <1>3, FoundEnd
  <1> HIDE DEF to
  <1>5. Least(w.stop, to) \in Nat /\ Least(w.stop, to) > a /\ Least(w.stop, to) <= TaskSize
        /\ Least(w.stop, to) <= w.stop
    BY <1>1, <1>2, <1>4, WalkAssumption DEF Least
  <1> QED
    BY <1>5 DEF to

\* Addresses without anything to test.
LEMMA PassOverTogether ==
  ASSUME Inv, CursorInv, MmPassOver
  PROVE  CursorInv' /\ PageStep
  <1>1. /\ pc = "pages" /\ ~Kvm /\ UNCHANGED <<layout, pud, eic, cleared>>
        /\ \E next \in PassedOver(w.cur) : \E over : GoOn(next, over)
    BY Zenon DEF MmPassOver, tableVars
  <1>2. PICK next \in PassedOver(w.cur) : \E over : GoOn(next, over)
    BY <1>1
  <1>3. next \in Nat /\ next > w.cur
    BY <1>1, PassedBehind
  <1>4. Report(eic') = Report(eic) /\ eic'.therehva = eic.therehva /\ eic'.pie_read = eic.pie_read
        /\ eic'.gpa_to_hva = eic.gpa_to_hva /\ eic'.full = eic.full
    BY <1>1
  <1>5. CursorInv'
    <2>1. next \in Int
      BY <1>3
    <2> QED
      BY <1>1, <1>2, <1>3, <1>4, <2>1, OverTogether
  <1>7. w'.cur = next /\ pc' # "ptes" /\ w.cur \in Nat
    <2>1. w \in Cursors /\ w.cur \in Nat
      BY <1>1, InPages
    <2> QED
      BY <1>2, <2>1, GoOnMoves
  <1>8. Onward
    BY <1>1, <1>3, <1>7 DEF Onward
  <1>9. PassesOver
    <2>1. /\ pc = "pages" /\ ~Kvm /\ \E there \in PassedOver(w.cur) : GoOn(there, FALSE)
      BY Zenon DEF MmPassOver
    <2>2. PICK there \in PassedOver(w.cur) : GoOn(there, FALSE)
      BY <2>1
    <2>3. w'.cur = there
      <3>1. w \in Cursors
        BY <1>1, InPages
      <3> QED
        BY <2>2, <3>1, GoOnMoves
    <2>4. pc' = "copy" => there >= w.stop
      BY <2>2 DEF GoOn
    <2> QED
      BY <1>1, <1>7, <2>2, <2>3, <2>4 DEF PassesOver
  <1>6. Nothing
    BY <1>1, <1>4, <1>8, <1>9 DEF Nothing
  <1> QED
    BY <1>5, <1>6 DEF PageStep

\* Where the report meets the cursor of the walk of a process.
LEMMA MeetsCursor ==
  ASSUME Inv, CursorInv, pc = "pages", eic.pie_read # 0,
         w.cur + eic.gpa_to_hva = eic.next_hva
  PROVE  /\ w.cur % PudPages = 0 \/ pud[PudOf(w.cur)] = "table"
         /\ w.cur % PmdPages = 0 \/ (~Kvm /\ PmdOf(w.cur) = PmdOf(eic.last_va))
  <1>1. /\ w.cur \in Nat /\ eic.gpa_to_hva \in Int
        /\ StandsAt(eic.next_hva - eic.gpa_to_hva, w.cur, eic.last_va, pc = "pages")
    BY InPages
  <1>2. eic.next_hva - eic.gpa_to_hva = w.cur
    BY <1>1
  <1>3. StandsAt(w.cur, w.cur, eic.last_va, pc = "pages")
    BY <1>1, <1>2
  <1> QED
    BY <1>3 DEF StandsAt

\* A large page of a process (mm_idle_pud_entry): reported once, and the walk ends.
LEMMA MmPudTogether ==
  ASSUME Inv, CursorInv, MmPudEntry
  PROVE  CursorInv' /\ PageStep
  <1> DEFINE a == w.cur
             b0 == Least(w.stop, vmas[FindVma(a)].end)
             big == PudEnd(a, b0)
             type == "PUD_PRESENT"
             f == eic_add_page(eic, a, big, type)
  <1>1. /\ pc = "pages" /\ ~Kvm /\ PassedOver(a) = {} /\ UNCHANGED <<layout, pud, cleared>>
        /\ pc' = "copy" /\ pud[PudOf(a)] = "present"
        /\ \/ eic' = [f EXCEPT !.last_va = a] /\ w' = w /\ PudOf(a) # PudOf(eic.last_va)
           \/ eic' = eic /\ w' = w /\ skipped' = skipped \cup (a .. w.stop - 1)
    BY Zenon DEF MmPudEntry, tableVars
  <1>2. /\ Mapped(a, eic) /\ a \in Nat /\ eic \in ControlBlocks /\ Fit(eic) /\ Agrees(eic)
        /\ eic.gpa_to_hva = 0
    BY <1>1, InPages
  <1>3. b0 \in Nat /\ b0 > a /\ b0 <= TaskSize
    BY <1>1, InVma
  <1> HIDE DEF b0
  <1>4. big \in Nat /\ big > a /\ big <= b0 /\ big <= RoundDown(a, PudPages) + PudPages
    BY <1>2, <1>3, EndBounds
  <1> HIDE DEF big
  <1>5. a + eic.gpa_to_hva < TaskSize /\ Mapped(big, eic)
    BY <1>2, <1>3, <1>4, WalkAssumption DEF Mapped
  <1>6. type \in PageTypes /\ pagetype_size(type) = PudPages /\ type \notin PmdTypes /\ type \notin HoleTypes
    BY TypeSizes DEF PageTypes, PmdTypes, HoleTypes
  <1> HIDE DEF type
  <1>7. eic.pie_read # 0 /\ a + eic.gpa_to_hva = eic.next_hva => a % pagetype_size(type) = 0
    BY <1>1, <1>6, MeetsCursor
  <1>8. Adds(eic, f, a, type)
    BY <1>2, <1>4, <1>5, <1>6, <1>7, AddPageReports
  <1>9. Fit(f) /\ f.pie_read_max = eic.pie_read_max
    BY <1>2, <1>5, <1>6, FitAdd
  <1> HIDE DEF f
  <1>10. f \in ControlBlocks /\ Agrees(f)
    BY <1>2, <1>8, <1>9, AddsAgree DEF Fit
  <1>11. CASE eic' = [f EXCEPT !.last_va = a] /\ w' = w /\ PudOf(a) # PudOf(eic.last_va)
    <2>8. Fresh /\ LargePage(type)
      <3>1. eic.last_va \in Int
        BY <1>2 DEF ControlBlocks
      <3>2. PmdOf(a) # PmdOf(eic.last_va)
        BY <1>2, <1>11, <3>1, SamePud
      <3> QED
        BY <1>1, <3>2 DEF Fresh, LargePage, type
    <2>1. a \in Int
      BY <1>2
    <2>2. /\ eic'.out = f.out /\ eic'.kpie = f.kpie
          /\ Report(eic') = Report(f) /\ eic'.next_hva = f.next_hva /\ eic'.pie_read = f.pie_read
          /\ eic'.full = f.full /\ eic'.restart_gpa = f.restart_gpa /\ eic'.pie_read_max = f.pie_read_max
          /\ Agrees(eic') <=> Agrees(f)
      BY <1>10, <1>11, <2>1, LastVaKept
    <2>3. Agrees(eic')
      BY <1>10, <2>2, Zenon
    <2>7. \A at : NewRun(eic, f, at) <=> NewRun(eic, eic', at)
      BY <2>2, Zenon DEF NewRun
    <2>4. Adds(eic, eic', a, type)
      BY <1>8, <2>2, <2>7, Zenon DEF Adds
    <2>5. CursorInv'
      BY <1>1, <2>3, WalkFrame
    <2>9. w'.cur <= RoundDown(a, pagetype_size(type)) + pagetype_size(type)
      <3>1. PudPages \in Nat \ {0}
        BY StreamAssumption
      <3>2. a < RoundDown(a, PudPages) + PudPages /\ RoundDown(a, PudPages) \in Nat
        BY <1>2, <3>1, Rounds
      <3> PICK b \in Nat : b = RoundDown(a, PudPages)
        BY <3>2
      <3>3. a <= b + PudPages
        BY <1>2, <3>1, <3>2
      <3> QED
        BY <1>6, <1>11, <3>3
    <2>6. Finds(type)
      BY <1>1, <1>6, <1>9, <2>2, <2>4, <2>8, <2>9, Zenon DEF Finds
    <2> QED
      BY <1>6, <2>5, <2>6 DEF PageStep
  <1>12. CASE eic' = eic /\ w' = w /\ skipped' = skipped \cup (a .. w.stop - 1)
    <2>1. Agrees(eic')
      BY <1>2, <1>12
    <2>2. CursorInv'
      BY <1>1, <2>1, WalkFrame
    <2>4. Onward
      BY <1>1, <1>12 DEF Onward
    <2>5. a .. a - 1 = {}
      BY <1>2
    <2>6. PassesOver
      BY <1>1, <1>12, <2>5 DEF PassesOver
    <2>3. Nothing
      BY <1>1, <1>12, <2>4, <2>6 DEF Nothing
    <2> QED
      BY <2>2, <2>3 DEF PageStep
  <1> QED
    BY <1>1, <1>11, <1>12

\* A PMD of a process (mm_idle_pmd_entry).
LEMMA MmPmdTogether ==
  ASSUME Inv, CursorInv, MmPmdEntry
  PROVE  CursorInv' /\ PageStep
  <1> DEFINE a == w.cur
             b0 == Least(w.stop, vmas[FindVma(a)].end)
             upto == PmdEnd(a, b0)
  <1>1. /\ pc = "pages" /\ ~Kvm /\ PassedOver(a) = {} /\ pud[PudOf(a)] = "table"
        /\ UNCHANGED <<layout, pud>>
        /\ \/ GoOn(upto, FALSE) /\ eic' = eic /\ cleared' = cleared /\ skipped' = skipped \cup (a .. upto - 1)
           \/ PmdOf(a) # PmdOf(eic.last_va) /\ AddPmd([eic EXCEPT !.last_va = a], a, upto)
    BY Zenon DEF MmPmdEntry
  <1>2. /\ Mapped(a, eic) /\ a \in Nat /\ eic \in ControlBlocks /\ eic.gpa_to_hva = 0
    BY <1>1, InPages
  <1>3. b0 \in Nat /\ b0 > a /\ b0 <= TaskSize
    BY <1>1, InVma
  <1> HIDE DEF b0
  <1>4. upto \in Nat /\ upto > a /\ upto <= b0 /\ upto <= (PmdOf(a) + 1) * PmdPages
    BY <1>2, <1>3, EndBounds
  <1> HIDE DEF upto
  <1>5. CASE GoOn(upto, FALSE) /\ eic' = eic /\ cleared' = cleared /\ skipped' = skipped \cup (a .. upto - 1)
    <2>1. Report(eic') = Report(eic) /\ eic'.next_hva = eic.next_hva /\ eic'.pie_read = eic.pie_read
          /\ eic'.gpa_to_hva = eic.gpa_to_hva /\ eic'.full = eic.full
      BY <1>5
    <2>2. upto \in Int
      BY <1>4
    <2>3. CursorInv'
      BY <1>1, <1>4, <1>5, <2>1, <2>2, OverTogether
    <2>5. w'.cur = upto /\ pc' # "ptes"
      <3>1. w \in Cursors
        BY <1>1, InPages
      <3> QED
        BY <1>5, <3>1, GoOnMoves
    <2>6. Onward
      BY <1>2, <1>4, <1>5, <2>5 DEF Onward
    <2>7. PassesOver
      <3>1. pc' = "copy" => upto >= w.stop
        BY <1>5 DEF GoOn
      <3> QED
        BY <1>1, <1>5, <2>5, <3>1 DEF PassesOver
    <2>4. Nothing
      BY <1>5, <2>1, <2>6, <2>7 DEF Nothing
    <2> QED
      BY <2>3, <2>4 DEF PageStep
  <1>6. CASE PmdOf(a) # PmdOf(eic.last_va) /\ AddPmd([eic EXCEPT !.last_va = a], a, upto)
    <2>1. eic.pie_read # 0 /\ a + eic.gpa_to_hva = eic.next_hva => a % PmdPages = 0
      BY <1>1, <1>6, MeetsCursor
    <2>2. upto + eic.gpa_to_hva <= TaskSize /\ Mapped(upto, eic) /\ a \in Int
      BY <1>2, <1>3, <1>4, WalkAssumption DEF Mapped
    <2> QED
      BY <1>1, <1>4, <1>6, <2>1, <2>2, PmdTogether
  <1> QED
    BY <1>1, <1>5, <1>6

\* The page at the cursor is a page of its own.
LEMMA SmallPage ==
  ASSUME NEW a \in Nat
  PROVE  a % 1 = 0 /\ RoundDown(a, 1) = a
  <1>1. a % 1 = 0
    OBVIOUS
  <1> QED
    BY <1>1, AlignedDown

\* Where a report stands after a page was added and the cursor moved.
LEMMA EntryStands ==
  ASSUME NEW a \in Nat, NEW b \in Nat, NEW stop, NEW last, NEW g \in Int,
         EntriesTo(a, b, stop, last, g), NEW next \in Nat,
         next = a + 1 \/ next = b, NEW on,
         on => (next = b) /\ (next # stop \/ ~Kvm)
  PROVE  StandsAt(a + 1, next, last, on)
  <1> DEFINE h == a + 1
             end1 == RoundDown(a, PmdPages) + PmdPages
             end2 == RoundDown(a, PudPages) + PudPages
  <1>1. PudPages \in Nat \ {0} /\ PmdPages \in Nat \ {0}
    BY StreamAssumption
  <1>2. /\ a < b /\ b <= (PmdOf(a) + 1) * PmdPages /\ pud[PudOf(a)] = "table"
        /\ ~Kvm => PmdOf(a) = PmdOf(last)
        /\ b % PmdPages = 0 \/ ~Kvm \/ b = stop
    BY DEF EntriesTo
  <1>3. end1 = (PmdOf(a) + 1) * PmdPages
    BY <1>1, PageEnd DEF PmdOf
  <1>4. end1 <= end2 /\ RoundDown(a, PmdPages) \in Nat /\ RoundDown(a, PudPages) \in Nat
    BY <1>1, PmdInPud, Rounds
  <1>5. h \in Nat /\ h >= a /\ h <= end1 /\ h <= end2 /\ h <= b /\ h <= next
    BY <1>1, <1>2, <1>3, <1>4
  <1> HIDE DEF h
  <1>6. h % PudPages = 0 \/ h \div PudPages = a \div PudPages
    BY <1>1, <1>5, NearPage
  <1>7. h % PmdPages = 0 \/ h \div PmdPages = a \div PmdPages
    BY <1>1, <1>5, NearPage
  <1>8. h % PudPages = 0 \/ pud[PudOf(h)] = "table"
    BY <1>2, <1>6 DEF PudOf
  <1>9. on /\ h = next => h % PmdPages = 0 \/ (~Kvm /\ PmdOf(h) = PmdOf(last))
    BY <1>2, <1>7 DEF PmdOf
  <1>10. StandsAt(h, next, last, on)
    BY <1>5, <1>8, <1>9 DEF StandsAt
  <1> QED
    BY <1>10 DEF h

\* The next page of the same PMD.
LEMMA EntriesGoOn ==
  ASSUME NEW a \in Nat, NEW b \in Nat, NEW stop, NEW last, NEW g \in Int,
         EntriesTo(a, b, stop, last, g), a + 1 < b
  PROVE  EntriesTo(a + 1, b, stop, last, g)
  <1> DEFINE h == a + 1
             end1 == RoundDown(a, PmdPages) + PmdPages
             end2 == RoundDown(a, PudPages) + PudPages
  <1>1. PudPages \in Nat \ {0} /\ PmdPages \in Nat \ {0}
    BY StreamAssumption
  <1>2. end1 = (PmdOf(a) + 1) * PmdPages
    BY <1>1, PageEnd DEF PmdOf
  <1>3. end1 <= end2 /\ RoundDown(a, PmdPages) \in Nat /\ RoundDown(a, PudPages) \in Nat
    BY <1>1, PmdInPud, Rounds
  <1>4. h \in Nat /\ h >= a /\ h < end1 /\ h < end2 /\ h < b
    BY <1>1, <1>2, <1>3 DEF EntriesTo
  <1> HIDE DEF h
  <1>9. h <= end1 /\ h <= end2 /\ h # end1 /\ h # end2
    BY <1>1, <1>3, <1>4
  <1>5. h \div PudPages = a \div PudPages
    BY <1>1, <1>4, <1>9, NearPage
  <1>6. h \div PmdPages = a \div PmdPages
    BY <1>1, <1>4, <1>9, NearPage
  <1>7. PudOf(h) = PudOf(a) /\ PmdOf(h) = PmdOf(a)
    BY <1>5, <1>6 DEF PudOf, PmdOf
  <1>8. EntriesTo(h, b, stop, last, g)
    BY <1>4, <1>7 DEF EntriesTo
  <1> QED
    BY <1>8 DEF h

\* One page (ept_pte_range, mm_idle_pte_range).
LEMMA PteTogether ==
  ASSUME Inv, CursorInv, AddPte
  PROVE  CursorInv' /\ PageStep
  <1> DEFINE a == w.cur
             b == w.pte_end
             g == eic.gpa_to_hva
             next1 == a + 1
             type == PteType(a)
  <1>1. /\ pc = "ptes" /\ eic' = eic_add_page(eic, a, next1, type)
        /\ UNCHANGED <<layout, pud>>
        /\ IF next1 < b /\ ~eic'.full
             THEN w' = [w EXCEPT !.cur = next1] /\ pc' = pc
             ELSE GoOn(b, eic'.full)
        /\ \/ cleared' = cleared
           \/ /\ pte[a] = "accessed"
              /\ cleared' = cleared \cup {[type |-> "PTE_ACCESSED", va |-> a + g]}
    BY DEF AddPte
  <1>2. /\ Mapped(a, eic) /\ a \in Nat /\ w.stop \in Nat /\ w \in Cursors
        /\ eic \in ControlBlocks /\ Fit(eic) /\ Agrees(eic) /\ g \in Int /\ eic.last_va \in Int
        /\ Kvm => w.stop + g <= TaskSize
        /\ eic.pie_read # 0 => StandsAt(eic.next_hva - g, a, eic.last_va, pc = "pages")
    BY <1>1, InPages
  <1>3. EntriesTo(a, b, w.stop, eic.last_va, g) /\ b \in Nat
    BY <1>1 DEF CursorInv, Ranges, Inv, TypeInv, Mapped
  <1>4. a < b /\ b + g <= TaskSize
    BY <1>3 DEF EntriesTo
  <1>5. /\ type \in PageTypes /\ type \in PteTypes /\ pagetype_size(type) = 1 /\ type \notin PmdTypes
        /\ pte[a] = "accessed" => type = "PTE_ACCESSED" /\ type \in AccessedTypes
        /\ type \in HoleTypes => type = "PTE_HOLE" /\ pte[a] = "none"
    <2>1. /\ type \in PteTypes /\ (pte[a] = "accessed" => type = "PTE_ACCESSED")
          /\ type \in HoleTypes => type = "PTE_HOLE" /\ pte[a] = "none"
      BY DEF PteType, PteTypes, HoleTypes
    <2> QED
      BY <2>1, TypeSizes DEF PageTypes, PteTypes, PmdTypes, AccessedTypes
  <1> HIDE DEF type
  <1>6. RoundDown(a, pagetype_size(type)) = a /\ a % pagetype_size(type) = 0
    BY <1>2, <1>5, SmallPage
  <1>7. /\ next1 \in Nat /\ a < next1 /\ next1 <= RoundDown(a, pagetype_size(type)) + pagetype_size(type)
        /\ a + g < TaskSize /\ Mapped(next1, eic)
    <2>1. a + g < TaskSize
      BY <1>2, <1>3, <1>4, WalkAssumption
    <2>2. Mapped(a + 1, eic)
      BY <1>2, MappedOn
    <2> QED
      BY <1>2, <1>5, <1>6, <2>1, <2>2
  <1> HIDE DEF next1
  <1>8. Adds(eic, eic', a, type)
    BY <1>1, <1>2, <1>5, <1>6, <1>7, AddPageReports
  <1>9. Agrees(eic') /\ eic'.gpa_to_hva = g /\ eic'.last_va = eic.last_va /\ eic'.pie_read_max = eic.pie_read_max
    BY <1>1, <1>2, <1>5, <1>7, <1>8, AddsAgree, FitAdd, AddKeepsLast DEF Kept
  <1>10. ASSUME NEW next \in Nat, next = next1 \/ next = b, NEW on,
                on => (next = b) /\ (next # w.stop \/ ~Kvm), eic'.pie_read # 0
         PROVE  StandsAt(eic'.next_hva - g, next, eic'.last_va, on)
    <2>1. \/ eic'.next_hva = eic.next_hva /\ eic'.pie_read = eic.pie_read
          \/ eic'.next_hva = a + g + 1
      <3>1. \/ eic'.next_hva = eic.next_hva /\ eic'.pie_read = eic.pie_read
            \/ eic'.next_hva = RoundDown(a, pagetype_size(type)) + g + pagetype_size(type)
        BY <1>8, Zenon DEF Adds
      <3> QED
        BY <1>5, <1>6, <3>1
    <2>2. CASE eic'.next_hva = eic.next_hva /\ eic'.pie_read = eic.pie_read
      <3> DEFINE h == eic.next_hva - g
      <3>1. \E p : StandsAt(h, a, eic.last_va, p)
        BY <1>2, <1>10, <2>2
      <3>2. eic'.next_hva - g = h
        BY <2>2
      <3> HIDE DEF h
      <3>3. PICK p : StandsAt(h, a, eic.last_va, p)
        BY <3>1
      <3>4. a \in Int /\ next \in Int /\ next > a
        BY <1>2, <1>4, <1>7, <1>10
      <3>5. StandsAt(h, next, eic'.last_va, on)
        BY <3>3, <3>4, CursorMoves
      <3> QED
        BY <3>2, <3>5
    <2>3. CASE eic'.next_hva = a + g + 1
      <3>1. eic'.next_hva - g = a + 1
        BY <1>2, <2>3
      <3>2. next = a + 1 \/ next = b
        BY <1>10 DEF next1
      <3>3. StandsAt(a + 1, next, eic.last_va, on)
        BY <1>2, <1>3, <1>10, <3>2, EntryStands
      <3> QED
        BY <1>9, <3>1, <3>3
    <2> QED
      BY <2>1, <2>2, <2>3
  <1>14. pc' # "copy" => Ahead(pagetype_size(type))
    <2>1. w'.cur = next1 \/ w'.cur = b
      <3>1. CASE next1 < b /\ ~eic'.full
        <4>1. w' = [w EXCEPT !.cur = next1]
          BY <1>1, <3>1
        <4> QED
          BY <1>2, <4>1 DEF Cursors
      <3>2. CASE ~(next1 < b /\ ~eic'.full)
        BY <1>1, <1>2, <3>2, GoOnMoves
      <3> QED
        BY <3>1, <3>2
    <2>2. w'.cur >= a + 1
      BY <1>2, <1>3, <1>4, <2>1 DEF next1
    <2> QED
      BY <1>5, <1>6, <2>2 DEF Ahead
  <1>11. Finds(type)
    <2>1. Fresh
      BY <1>1 DEF Fresh
    <2>2. ~eic'.full => w'.cur <= RoundDown(a, pagetype_size(type)) + pagetype_size(type)
      <3>1. CASE next1 < b /\ ~eic'.full
        <4>1. w'.cur = next1
          BY <1>1, <1>2, <3>1 DEF Cursors
        <4> QED
          BY <1>7, <4>1
      <3>2. CASE ~(next1 < b /\ ~eic'.full)
        <4>1. GoOn(b, eic'.full) /\ w'.cur = b
          BY <1>1, <1>2, <3>2, GoOnMoves
        <4>3. ~eic'.full => b = next1
          BY <1>2, <1>3, <1>4, <3>2 DEF next1
        <4> QED
          BY <1>7, <4>1, <4>3
      <3> QED
        BY <3>1, <3>2
    <2>3. type \in HoleTypes => HoleAt(type)
      <3>1. pc' = "copy" => eic'.full \/ w'.cur >= w.stop
        <4> SUFFICES ASSUME pc' = "copy" PROVE eic'.full \/ w'.cur >= w.stop
          OBVIOUS
        <4>1. GoOn(b, eic'.full)
          BY <1>1
        <4> QED
          BY <1>2, <4>1, GoOnMoves DEF GoOn
      <3> QED
        BY <1>1, <1>5, <3>1 DEF HoleAt
    <2> QED
      BY <1>1, <1>5, <1>6, <1>8, <1>9, <1>14, <2>1, <2>2, <2>3 DEF Finds
  <1>12. CASE next1 < b /\ ~eic'.full
    <2>1. w' = [w EXCEPT !.cur = next1] /\ pc' = "ptes"
      BY <1>1, <1>12
    <2>2. w'.cur = next1 /\ w'.stop = w.stop /\ w'.pte_end = b
      BY <1>2, <2>1 DEF Cursors
    <2>3. EntriesTo(w'.cur, w'.pte_end, w'.stop, eic'.last_va, eic'.gpa_to_hva)
      <3>1. EntriesTo(a + 1, b, w.stop, eic.last_va, g)
        BY <1>2, <1>3, <1>12, EntriesGoOn DEF next1
      <3> QED
        BY <1>9, <2>2, <3>1 DEF next1
    <2>4. eic'.pie_read # 0 =>
            StandsAt(eic'.next_hva - eic'.gpa_to_hva, w'.cur, eic'.last_va, pc' = "pages")
      <3>1. eic'.pie_read # 0 => StandsAt(eic'.next_hva - g, next1, eic'.last_va, FALSE)
        BY <1>7, <1>10
      <3>2. (pc' = "pages") = FALSE
        BY <2>1
      <3> QED
        BY <1>9, <2>2, <3>1, <3>2
    <2>5. CursorInv'
      BY <1>1, <1>2, <1>9, <2>1, <2>2, <2>3, <2>4, WalkFrame
    <2> QED
      BY <1>5, <1>11, <2>5 DEF PageStep
  <1>13. CASE ~(next1 < b /\ ~eic'.full)
    <2>1. GoOn(b, eic'.full)
      BY <1>1, <1>13
    <2>2. pc' = "pages" => b # w.stop
      BY <1>2, <1>3, <2>1 DEF GoOn
    <2>3. pc' = "pages" /\ eic'.pie_read # 0 =>
            StandsAt(eic'.next_hva - eic'.gpa_to_hva, b, eic'.last_va, TRUE)
      <3>1. pc' = "pages" /\ eic'.pie_read # 0 => StandsAt(eic'.next_hva - g, b, eic'.last_va, TRUE)
        BY <1>3, <1>10, <2>2
      <3> QED
        BY <1>9, <3>1
    <2>4. b \in Int /\ pc \in {"pages", "ptes"}
      BY <1>1, <1>3
    <2>5. CursorInv'
      BY <1>1, <1>9, <2>1, <2>3, <2>4, GoOnFrame
    <2> QED
      BY <1>5, <1>11, <2>5 DEF PageStep
  <1> QED
    BY <1>12, <1>13

\* The distance of a slot's addresses, or of a process's own.
Offset(g) == g = 0 \/ \E s \in layout.slots : g = s.start - s.gpa

\* A control block whose report is that of another.
SameReport(e, f) ==
  /\ Report(f) = Report(e) /\ f.next_hva = e.next_hva /\ f.pie_read = e.pie_read

\* A control block of the next turn: what was found stays, nothing is full.
NextTurn(e) ==
  /\ SameReport(eic, e) /\ e.full = FALSE
  /\ e.gpa_to_hva = eic.gpa_to_hva \/ Offset(e.gpa_to_hva)

\* The search for a range to walk: the report is left as it is, a walk starts in
\* front of its end and ends below TASK_SIZE.
LEMMA RangeTogether ==
  ASSUME Inv, CursorInv, MmRange \/ KvmRange
  PROVE  /\ CursorInv' /\ NextTurn(eic')
         /\ UNCHANGED <<cleared, fulls, layout>> /\ pc = "range" /\ pc' \in {"pages", "copy"}
  <1>1. pc = "range" /\ UNCHANGED <<layout, pud, cleared, fulls>>
    BY DEF MmRange, KvmRange, tableVars
  <1>2. pc \in InTheKernel
    BY <1>1 DEF InTheKernel
  <1>3. /\ eic \in ControlBlocks /\ w \in Cursors /\ w.start \in Int /\ w.end \in Nat
        /\ layout \in Layouts
    BY <1>2, InKernel
  <1>4. Agrees(eic) /\ eic.pie_read = 0 /\ w.start < w.end
    BY <1>1, <1>2 DEF CursorInv, Together
  <1> DEFINE Done == CursorInv' /\ NextTurn(eic') /\ pc' \in {"pages", "copy"}
  <1> SUFFICES Done
    BY <1>1
  <1>5. ASSUME NEW e, NextTurn(e), NEW to, ToCopy(e, to)
        PROVE  Done
    <2>1. pc' = "copy" /\ eic' = e
      BY <1>5 DEF ToCopy
    <2>2. Agrees(e)
      BY <1>4, <1>5, Zenon DEF Agrees, SameReport, NextTurn
    <2>3. CursorInv'
      BY <1>1, <2>1, <2>2, WalkFrame
    <2> QED
      BY <1>5, <2>1, <2>3
  <1>6. ASSUME NEW e, NextTurn(e), NEW to, NEW cur, NEW stop, cur < stop,
               Kvm => stop + e.gpa_to_hva <= TaskSize, ToPages(e, cur, stop, to)
        PROVE  Done
    <2>1. pc' = "pages" /\ eic' = e /\ w' = [w EXCEPT !.cur = cur, !.stop = stop, !.va_end = to]
      BY <1>6 DEF ToPages
    <2>2. Agrees(e) /\ e.pie_read = 0
      BY <1>4, <1>6, Zenon DEF Agrees, SameReport, NextTurn
    <2>3. w'.cur = cur /\ w'.stop = stop
      BY <1>3, <2>1 DEF Cursors
    <2>4. CursorInv'
      BY <1>1, <1>6, <2>1, <2>2, <2>3, WalkFrame
    <2> QED
      BY <1>6, <2>1, <2>4
  <1> HIDE DEF Done
  <1>7. ASSUME NEW e, NEW at, NEW g, NEW last, g = eic.gpa_to_hva \/ Offset(g),
               e = [eic EXCEPT !.restart_gpa = at, !.gpa_to_hva = g, !.last_va = last, !.full = FALSE]
        PROVE  NextTurn(e) /\ e.gpa_to_hva = g
    <2>1. /\ e.out = eic.out /\ e.kpie = eic.kpie /\ e.next_hva = eic.next_hva
          /\ e.pie_read = eic.pie_read /\ e.gpa_to_hva = g /\ e.full = FALSE
      BY <1>3, <1>7 DEF ControlBlocks
    <2>2. SameReport(eic, e)
      BY <2>1 DEF SameReport, Report
    <2> QED
      BY <1>7, <2>1, <2>2 DEF NextTurn
  <1>8. CASE MmRange
    <2> DEFINE e == [eic EXCEPT !.full = FALSE]
    <2>1. /\ ~Kvm
          /\ \/ \E at, to : ToCopy(Restart(at), to)
             \/ ToPages(e, w.start, w.end, w.end)
      BY <1>8, Zenon DEF MmRange
    <2>2. CASE \E at, to : ToCopy(Restart(at), to)
      <3>1. PICK at, to : ToCopy(Restart(at), to)
        BY <2>2
      <3> DEFINE f == Restart(at)
      <3>2. f = [eic EXCEPT !.restart_gpa = at, !.gpa_to_hva = eic.gpa_to_hva,
                            !.last_va = eic.last_va, !.full = FALSE]
        BY <1>3, CursorUpdates, Zenon DEF Restart
      <3>3. ToCopy(f, to)
        BY <3>1
      <3> HIDE DEF f
      <3>4. NextTurn(f)
        BY <1>7, <3>2
      <3> QED
        BY <1>5, <3>3, <3>4
    <2>3. CASE ToPages(e, w.start, w.end, w.end)
      <3>1. e = [eic EXCEPT !.restart_gpa = eic.restart_gpa, !.gpa_to_hva = eic.gpa_to_hva,
                            !.last_va = eic.last_va, !.full = FALSE]
        BY <1>3, CursorUpdates, Zenon
      <3> HIDE DEF e
      <3>2. NextTurn(e)
        BY <1>7, <3>1
      <3> QED
        BY <1>4, <1>6, <2>1, <2>3, <3>2
    <2> QED
      BY <2>1, <2>2, <2>3
  <1>9. CASE KvmRange
    <2> DEFINE noSlot == [Restart(TaskSize) EXCEPT !.gpa_to_hva = 0]
    <2>1. /\ Kvm
          /\ \/ \E to : ToCopy(noSlot, to)
             \/ \E at, to : ToCopy([noSlot EXCEPT !.restart_gpa = at], to)
             \/ \E s \in Slot(w.start) :
                  LET e == [eic EXCEPT !.gpa_to_hva = s.start - s.gpa, !.full = FALSE] IN
                  \/ ToPages(e, w.start - e.gpa_to_hva, s.end - e.gpa_to_hva, s.end)
                  \/ ToCopy(e, s.end)
      <3> HIDE DEF ToCopy, ToPages
      <3> QED
        BY <1>9, Zenon DEF KvmRange
    <2>2. Offset(0)
      BY DEF Offset
    <2>3. CASE \E to : ToCopy(noSlot, to)
      <3>1. noSlot = [eic EXCEPT !.restart_gpa = TaskSize, !.gpa_to_hva = 0, !.last_va = eic.last_va, !.full = FALSE]
        BY <1>3 DEF Restart, ControlBlocks
      <3> HIDE DEF noSlot
      <3>2. PICK to : ToCopy(noSlot, to)
        BY <2>3
      <3>3. NextTurn(noSlot)
        BY <1>7, <2>2, <3>1
      <3> QED
        BY <1>5, <3>2, <3>3
    <2>4. CASE \E at, to : ToCopy([noSlot EXCEPT !.restart_gpa = at], to)
      <3>1. PICK at, to : ToCopy([noSlot EXCEPT !.restart_gpa = at], to)
        BY <2>4
      <3> DEFINE e == [noSlot EXCEPT !.restart_gpa = at]
      <3>2. e = [eic EXCEPT !.restart_gpa = at, !.gpa_to_hva = 0, !.last_va = eic.last_va, !.full = FALSE]
        BY <1>3 DEF Restart, ControlBlocks
      <3>3. ToCopy(e, to)
        BY <3>1
      <3> HIDE DEF e
      <3>4. NextTurn(e)
        BY <1>7, <2>2, <3>2
      <3> QED
        BY <1>5, <3>3, <3>4
    <2>5. CASE \E s \in Slot(w.start) :
                  LET e == [eic EXCEPT !.gpa_to_hva = s.start - s.gpa, !.full = FALSE] IN
                  \/ ToPages(e, w.start - e.gpa_to_hva, s.end - e.gpa_to_hva, s.end)
                  \/ ToCopy(e, s.end)
      <3>1. PICK s \in Slot(w.start) :
                  LET e == [eic EXCEPT !.gpa_to_hva = s.start - s.gpa, !.full = FALSE] IN
                  \/ ToPages(e, w.start - e.gpa_to_hva, s.end - e.gpa_to_hva, s.end)
                  \/ ToCopy(e, s.end)
        BY <2>5
      <3> DEFINE g == s.start - s.gpa
                 e == [eic EXCEPT !.gpa_to_hva = g, !.full = FALSE]
      <3>2. s \in SlotType /\ s \in layout.slots /\ w.start \in s.start .. s.end - 1
        BY <1>3, LayoutTypes DEF Slot, Within
      <3>3. g \in Int /\ w.start < s.end /\ s.end <= TaskSize /\ s.end \in Nat /\ TaskSize \in Nat
        BY <1>3, <3>2, WalkAssumption DEF SlotType
      <3>4. Offset(g)
        BY <3>2 DEF Offset
      <3>5. \/ ToPages(e, w.start - e.gpa_to_hva, s.end - e.gpa_to_hva, s.end)
            \/ ToCopy(e, s.end)
        BY <3>1, Zenon
      <3>6. e = [eic EXCEPT !.restart_gpa = eic.restart_gpa, !.gpa_to_hva = g,
                            !.last_va = eic.last_va, !.full = FALSE]
        BY <1>3, CursorUpdates, Zenon
      <3> HIDE DEF e, g
      <3>7. NextTurn(e) /\ e.gpa_to_hva = g
        BY <1>7, <3>4, <3>6
      <3>8. /\ w.start - e.gpa_to_hva < s.end - e.gpa_to_hva
            /\ (s.end - e.gpa_to_hva) + e.gpa_to_hva <= TaskSize
        BY <1>3, <3>3, <3>7
      <3>9. CASE ToCopy(e, s.end)
        BY <1>5, <3>7, <3>9
      <3>10. CASE ToPages(e, w.start - e.gpa_to_hva, s.end - e.gpa_to_hva, s.end)
        BY <1>6, <3>7, <3>8, <3>10
      <3> QED
        BY <3>5, <3>9, <3>10
    <2> QED
      BY <2>1, <2>3, <2>4, <2>5
  <1> QED
    BY <1>8, <1>9

-----------------------------------------------------------------------------
(* A copy, and the whole walk.                                             *)

\* The SET_HVA that ept_idle_copy_user() adds moves the parser along, and counts
\* no page.
LEMMA TailReports ==
  ASSUME NEW e, Fit(e), Agrees(e), NEW start \in Int, NEW at \in Nat
  PROVE  LET f == WithTailHole(e, start, at) IN
         /\ Agrees(f) /\ Report(f).refs = Report(e).refs
         /\ f.pie_read = 0 => f = e
  <1> DEFINE s == IF e.pie_read = 0 /\ start < at THEN at ELSE start
             f == WithTailHole(e, start, at)
             reported == eic_report_addr(e, s)
  <1>1. e \in ControlBlocks /\ e.pie_read = BytesOf(e.kpie)
    BY DEF Fit
  <1>2. e.pie_read \in Nat /\ e.next_hva \in Nat /\ AddrBytes \in Nat
    BY <1>1, StreamAssumption DEF ControlBlocks
  <1>3. CASE s >= at /\ s > e.next_hva
    <2>1. s \in Nat
      BY <1>3
    <2>2. f = [reported EXCEPT !.next_hva = s]
      BY <1>3 DEF WithTailHole
    <2> HIDE DEF s
    <2>3. /\ reported \in ControlBlocks
          /\ reported = [e EXCEPT !.kpie = Append(e.kpie, SetHva(s)), !.pie_read = e.pie_read + AddrBytes + 1]
      BY <1>1, <2>1, ReportAddr
    <2> HIDE DEF reported, f
    <2>4. /\ reported.kpie = Append(e.kpie, SetHva(s)) /\ reported.pie_read = e.pie_read + AddrBytes + 1
          /\ reported.out = e.out
      BY <1>1, <2>3 DEF ControlBlocks
    <2>5. /\ f.kpie = Append(e.kpie, SetHva(s)) /\ f.pie_read = e.pie_read + AddrBytes + 1
          /\ f.out = e.out /\ f.next_hva = s
      BY <2>1, <2>2, <2>3, <2>4 DEF ControlBlocks
    <2>6. SetHva(s) \in Items
      BY <2>1 DEF SetHva, Items
    <2>7. Report(f) = ParseItem(Report(e), SetHva(s), 2 * TaskSize)
      BY <1>1, <2>5, <2>6, ReportAppend
    <2>8. Report(e) \in Parsers /\ 2 * TaskSize \in Nat /\ Report(e).late = {}
      BY <1>1, ReportType DEF Agrees
    <2>9. /\ Report(f).va = s /\ Report(f).refs = Report(e).refs /\ Report(f).late = {}
      <3>1. PICK p \in Parsers, to \in Nat : p = Report(e) /\ to = 2 * TaskSize /\ p.late = {}
        BY <2>8
      <3>2. \A x \in Nat : LET q == ParseItem(p, SetHva(x), to) IN
              q \in Parsers /\ q.va = x /\ q.refs = p.refs /\ q.late = {}
        BY <3>1, ParserMoves
      <3>3. PICK q : q = ParseItem(p, SetHva(s), to)
        OBVIOUS
      <3>4. q.va = s /\ q.refs = p.refs /\ q.late = {}
        BY <2>1, <3>2, <3>3, Zenon
      <3> QED
        BY <2>7, <3>1, <3>3, <3>4, Zenon
    <2>10. Agrees(f)
      BY <2>5, <2>9, Zenon DEF Agrees
    <2>11. f.pie_read # 0
      BY <1>2, <2>5
    <2> QED
      BY <2>9, <2>10, <2>11 DEF f
  <1>4. CASE ~(s >= at /\ s > e.next_hva)
    <2>1. f = e
      BY <1>4 DEF WithTailHole
    <2> QED
      BY <2>1
  <1> QED
    BY <1>3, <1>4

\* A copy leaves the report as it is: the parser of what has reached the reader
\* stands at next_hva, and nothing is left in the kernel's buffer if the walk
\* goes on.
LEMMA CopyReports ==
  ASSUME NEW e, Fit(e), Agrees(e), NEW start \in Int, NEW at \in Nat
  PROVE  LET r == ept_idle_copy_user(e, start, at)
             p == parse_idlepages(r.eic.out, 0, 2 * TaskSize)
         IN  /\ p.va = r.eic.next_hva /\ p.refs = Report(e).refs /\ p.late = {}
             /\ ~r.stop => Agrees(r.eic) /\ r.eic.pie_read = 0 /\ Report(r.eic).refs = Report(e).refs
  <1> DEFINE tailed == WithTailHole(e, start, at)
             copied == CopyOut(tailed)
             again  == init_ept_idle_ctrl_buffer(copied)
             r == ept_idle_copy_user(e, start, at)
             p == parse_idlepages(r.eic.out, 0, 2 * TaskSize)
  <1>1. e \in ControlBlocks /\ e.pie_read = BytesOf(e.kpie) /\ e.kpie \in Seq(Items) /\ e.out \in Seq(Items)
    BY DEF Fit, ControlBlocks
  <1>2. /\ tailed \in ControlBlocks /\ tailed.out \in Seq(Items) /\ tailed.kpie \in Seq(Items)
    <2>1. tailed \in ControlBlocks
      BY TailFits, Zenon
    <2> QED
      BY <2>1 DEF ControlBlocks
  <1>3. Agrees(tailed) /\ Report(tailed).refs = Report(e).refs /\ (tailed.pie_read = 0 => tailed = e)
    BY TailReports, Zenon
  <1>4. r = IF tailed.pie_read = 0 THEN [eic |-> e, stop |-> TRUE]
            ELSE IF e.pie_read = 0 \/ copied.bytes_copied >= copied.buf_size
              THEN [eic |-> copied, stop |-> TRUE]
            ELSE [eic |-> again, stop |-> NoRoom(again)]
    BY Zenon DEF ept_idle_copy_user
  <1> HIDE DEF tailed, r
  <1>5. copied.out = tailed.out \o tailed.kpie /\ copied.next_hva = tailed.next_hva
    BY <1>2 DEF CopyOut, ControlBlocks
  <1>6. /\ again.out = copied.out /\ again.next_hva = copied.next_hva
        /\ again.kpie = <<>> /\ again.pie_read = 0
    <2>1. again = [copied EXCEPT !.kpie = <<>>, !.pie_read = 0, !.pie_read_max =
                     Least(KBufSize, copied.buf_size - copied.bytes_copied) - (AddrBytes + 1)]
      BY Zenon DEF init_ept_idle_ctrl_buffer
    <2>2. copied = [tailed EXCEPT !.out = tailed.out \o tailed.kpie,
                                  !.bytes_copied = tailed.bytes_copied + tailed.pie_read]
      BY DEF CopyOut
    <2> HIDE DEF again, copied
    <2>3. \E x, y : copied = [tailed EXCEPT !.out = x, !.bytes_copied = y]
      BY <2>2, Zenon
    <2>4. \E m : again = [copied EXCEPT !.kpie = <<>>, !.pie_read = 0, !.pie_read_max = m]
      BY <2>1, Zenon
    <2> QED
      BY <1>2, <2>3, <2>4 DEF ControlBlocks
  <1> HIDE DEF again, copied
  <1>7. CASE tailed.pie_read = 0
    <2>1. r.eic = e /\ r.stop = TRUE
      BY <1>4, <1>7
    <2>2. e.kpie = <<>>
      BY <1>1, <1>3, <1>7, BytesNumber
    <2>3. e.out \o e.kpie = e.out
      BY <1>1, <2>2
    <2>4. p = Report(e)
      BY <2>1, <2>3, Zenon DEF Report
    <2> QED
      BY <2>1, <2>4 DEF Agrees, r
  <1>8. ASSUME tailed.pie_read # 0, r.eic.out = tailed.out \o tailed.kpie, r.eic.next_hva = tailed.next_hva
        PROVE  p.va = r.eic.next_hva /\ p.refs = Report(e).refs /\ p.late = {}
    <2>1. p = Report(tailed)
      BY <1>8, Zenon DEF Report
    <2> QED
      BY <1>3, <1>8, <2>1, Zenon DEF Agrees
  <1>9. CASE tailed.pie_read # 0 /\ (e.pie_read = 0 \/ copied.bytes_copied >= copied.buf_size)
    <2>1. r.eic = copied /\ r.stop = TRUE
      BY <1>4, <1>9
    <2> QED
      BY <1>5, <1>8, <1>9, <2>1 DEF r
  <1>10. CASE tailed.pie_read # 0 /\ ~(e.pie_read = 0 \/ copied.bytes_copied >= copied.buf_size)
    <2>1. r.eic = again
      BY <1>4, <1>10
    <2>2. p.va = r.eic.next_hva /\ p.refs = Report(e).refs /\ p.late = {}
      BY <1>5, <1>6, <1>8, <1>10, <2>1
    <2>3. again.out \o again.kpie = again.out
      BY <1>2, <1>5, <1>6
    <2>4. Report(r.eic) = p
      BY <2>1, <2>3, Zenon DEF Report
    <2>5. Agrees(r.eic) /\ r.eic.pie_read = 0 /\ Report(r.eic).refs = Report(e).refs
      BY <1>6, <2>1, <2>2, <2>4, Zenon DEF Agrees
    <2> QED
      BY <2>2, <2>5 DEF r
  <1> QED
    BY <1>7, <1>9, <1>10

\* A turn ends: the reader gets what was found, and f_pos the address at which its
\* parser will stand.
LEMMA CopyTogether ==
  ASSUME Inv, CursorInv, Copy
  PROVE  /\ CursorInv' /\ Decoded'.refs = Report(eic).refs /\ Decoded'.late = {}
         /\ pc' = "range" => Report(eic').refs = Report(eic).refs
         /\ pc = "copy" /\ pc' \in {"parse", "range"} /\ eic'.gpa_to_hva = eic.gpa_to_hva
         /\ fulls' = IF eic.full THEN fulls + 1 ELSE fulls
         /\ UNCHANGED <<layout, pud, cleared>>
  <1> DEFINE start == eic.restart_gpa + eic.gpa_to_hva
             r == ept_idle_copy_user(eic, start, w.va_end)
             over == r.stop \/ start >= w.end
             p == parse_idlepages(r.eic.out, 0, 2 * TaskSize)
  <1>1. /\ pc = "copy" /\ eic' = r.eic /\ w' = [w EXCEPT !.start = start]
        /\ pc' = (IF over THEN "parse" ELSE "range")
        /\ pos' = (IF over /\ r.eic.bytes_copied > 0 THEN r.eic.next_hva ELSE pos)
        /\ fulls' = IF eic.full THEN fulls + 1 ELSE fulls
        /\ UNCHANGED <<layout, pud, cleared>>
    BY Zenon DEF Copy, tableVars
  <1>2. pc \in InTheKernel
    BY <1>1 DEF InTheKernel
  <1>3. /\ eic.gpa_to_hva \in Int /\ eic.restart_gpa \in Nat /\ Fit(eic)
        /\ w \in Cursors /\ w.va_end \in Nat /\ w.end \in Nat
    BY <1>2, InKernel
  <1>4. start \in Int /\ Agrees(eic)
    BY <1>2, <1>3 DEF CursorInv, Together
  <1> HIDE DEF start
  <1>5. /\ r.stop \in BOOLEAN /\ r.eic \in ControlBlocks /\ r.eic.gpa_to_hva = eic.gpa_to_hva
        /\ r.eic.bytes_copied = BytesOf(r.eic.out)
    BY <1>3, <1>4, CopyFits, Zenon
  <1>6. /\ p.va = r.eic.next_hva /\ p.refs = Report(eic).refs /\ p.late = {}
        /\ ~r.stop => Agrees(r.eic) /\ r.eic.pie_read = 0 /\ Report(r.eic).refs = Report(eic).refs
    <2>1. PICK at \in Nat : at = w.va_end
      BY <1>3
    <2>2. /\ LET r1 == ept_idle_copy_user(eic, start, at)
                 p1 == parse_idlepages(r1.eic.out, 0, 2 * TaskSize)
             IN  /\ p1.va = r1.eic.next_hva /\ p1.refs = Report(eic).refs /\ p1.late = {}
                 /\ ~r1.stop => Agrees(r1.eic) /\ r1.eic.pie_read = 0 /\ Report(r1.eic).refs = Report(eic).refs
      BY <1>3, <1>4, CopyReports
    <2> QED
      BY <2>1, <2>2, Zenon
  <1>7. Decoded' = parse_idlepages(eic'.out, 0, 2 * TaskSize)
    BY DEF Decoded
  <1>8. Decoded' = p
    BY <1>1, <1>7, Zenon
  <1> HIDE DEF r, p
  <1>9. w'.start = start /\ w'.end = w.end
    BY <1>1, <1>3 DEF Cursors
  <1>10. pc' \in {"parse", "range"} /\ (pc' = "range" => ~r.stop /\ start < w.end)
    BY <1>1, <1>3, <1>4
  <1>11. pc' = "parse" => over
    BY <1>1
  <1>12. ASSUME pc' = "parse", eic'.out # <<>>
         PROVE  Decoded'.va = pos'
    <2>1. r.eic.out \in Seq(Items) /\ r.eic.out # <<>>
      BY <1>1, <1>5, <1>12 DEF ControlBlocks
    <2>2. r.eic.bytes_copied \in Nat /\ r.eic.bytes_copied # 0
      BY <1>5, <2>1, BytesNumber
    <2>3. pos' = r.eic.next_hva
      BY <1>1, <1>11, <1>12, <2>2
    <2> QED
      BY <1>6, <1>8, <2>3
  <1>13. Together'
    <2>1. pc' \in InTheKernel => Agrees(eic')
      BY <1>1, <1>6, <1>10 DEF InTheKernel
    <2>2. pc' = "range" => eic'.pie_read = 0 /\ w'.start < w'.end
      BY <1>1, <1>6, <1>9, <1>10
    <2> QED
      BY <1>12, <2>1, <2>2 DEF Together
  <1>14. Ranges' /\ Stands'
    BY <1>10 DEF Ranges, Stands
  <1>15. pc' = "range" => Report(eic').refs = Report(eic).refs
    BY <1>1, <1>6, <1>10
  <1> QED
    BY <1>1, <1>5, <1>6, <1>8, <1>10, <1>13, <1>14, <1>15 DEF CursorInv

\* A read starts with an empty report and the cursor in front of its end.
LEMMA StartTogether ==
  ASSUME Inv, ReadStart
  PROVE  /\ CursorInv' /\ Report(eic').refs = <<>> /\ Decoded'.refs = <<>>
         /\ eic'.gpa_to_hva = 0 /\ eic'.full = FALSE /\ cleared' = {} /\ fulls' = 0
         /\ pc' \in {"parse", "range"} /\ UNCHANGED layout
  <1> DEFINE size == ReadSize
             e0 == setup_ept_idle_ctrl(size)
             e1 == init_ept_idle_ctrl_buffer(e0)
  <1>1. /\ pc = "loop" /\ va < end /\ ~Refused(size) /\ UNCHANGED layout
        /\ eic' = e1 /\ pc' = (IF NoRoom(e1) THEN "parse" ELSE "range")
        /\ pos' = Most(va, pos) /\ cleared' = {} /\ fulls' = 0
        /\ w' = [w EXCEPT !.start = pos', !.end = pos' + size * PagesPerByte]
    BY Zenon DEF ReadStart
  <1>2. size \in Nat /\ va \in Nat /\ pos \in Nat /\ w \in Cursors
    BY <1>1, ReadSizes DEF Inv, TypeInv
  <1>3. size > 0
    <2>1. KernelBufMin \in Nat /\ KernelBufMin > 0
      BY StreamAssumption DEF KernelBufMin
    <2>2. ~(size < KernelBufMin)
      BY <1>1, Zenon DEF Refused
    <2> QED
      BY <1>2, <2>1, <2>2
  <1> HIDE DEF size
  <1>4. <<>> \in Seq(Items) /\ BytesOf(<<>>) = 0
    BY NoBytes
  <1>5. /\ e0 \in ControlBlocks /\ e0.bytes_copied = 0 /\ e0.out = <<>> /\ e0.buf_size = size
        /\ e0.gpa_to_hva = 0 /\ e0.next_hva = 0 /\ e0.full = FALSE
    BY <1>2, <1>4 DEF setup_ept_idle_ctrl, ControlBlocks
  <1> HIDE DEF e0
  <1>6. e0.bytes_copied = BytesOf(e0.out) /\ e0.bytes_copied <= e0.buf_size
    BY <1>2, <1>4, <1>5
  <1>7. /\ e1.pie_read = 0 /\ e1.kpie = <<>> /\ e1.out = e0.out
        /\ e1.gpa_to_hva = e0.gpa_to_hva /\ e1.next_hva = e0.next_hva /\ e1.full = e0.full
    BY <1>5, <1>6, BufferInit, Zenon
  <1> HIDE DEF e1
  <1>8. e1.out \o e1.kpie = <<>> /\ e1.out = <<>>
    BY <1>5, <1>7
  <1>9. parse_idlepages(<<>>, 0, 2 * TaskSize) = [va |-> 0, refs |-> <<>>, late |-> {}]
    BY ParseNothing DEF Start
  <1>10. Report(e1) = [va |-> 0, refs |-> <<>>, late |-> {}]
    BY <1>8, <1>9, Zenon DEF Report
  <1>11. Agrees(e1) /\ Report(e1).refs = <<>>
    BY <1>5, <1>7, <1>10 DEF Agrees
  <1>12. Decoded' = parse_idlepages(eic'.out, 0, 2 * TaskSize)
    BY DEF Decoded
  <1>13. Decoded'.refs = <<>>
    BY <1>1, <1>8, <1>9, <1>12
  <1>14. w'.start < w'.end
    <2> DEFINE from == Most(va, pos)
               more == size * PagesPerByte
    <2>1. from \in Nat
      BY <1>2 DEF Most
    <2>2. more \in Nat /\ more > 0
      BY <1>2, <1>3, WalkAssumption
    <2>3. w' = [w EXCEPT !.start = from, !.end = from + more]
      BY <1>1, Zenon
    <2> HIDE DEF from, more
    <2> QED
      BY <1>2, <2>1, <2>2, <2>3 DEF Cursors
  <1>15. pc' \in {"parse", "range"} /\ eic'.out = <<>>
    BY <1>1, <1>8
  <1>16. Together'
    BY <1>1, <1>7, <1>11, <1>14, <1>15 DEF Together
  <1>17. Ranges' /\ Stands'
    BY <1>15 DEF Ranges, Stands
  <1> QED
    BY <1>1, <1>5, <1>7, <1>11, <1>13, <1>15, <1>16, <1>17 DEF CursorInv

\* Between the reads only the parser moves.
LEMMA UserTogether ==
  ASSUME CursorInv, Walk \/ WalkVma \/ VmaDone \/ ReadFails \/ Parse \/ ReadDone
  PROVE  /\ CursorInv' /\ pc' \in {"vma", "loop", "parse", "done"}
         /\ pc' = "parse" => pc = "parse" /\ UNCHANGED <<eic, pos>>
         /\ UNCHANGED <<layout, eic, cleared, fulls>>
  <1>1. /\ pc' \in {"vma", "loop", "parse", "done"} /\ UNCHANGED <<layout, eic, cleared, fulls>>
        /\ pc' = "parse" => pc = "parse" /\ UNCHANGED <<eic, pos>>
    <2>1. CASE Walk
      BY <2>1 DEF Walk
    <2>2. CASE WalkVma
      BY <2>2 DEF WalkVma
    <2>3. CASE VmaDone
      BY <2>3 DEF VmaDone
    <2>4. CASE ReadFails
      BY <2>4 DEF ReadFails
    <2>5. CASE Parse
      BY <2>5 DEF Parse
    <2>6. CASE ReadDone
      BY <2>6 DEF ReadDone
    <2> QED
      BY <2>1, <2>2, <2>3, <2>4, <2>5, <2>6
  <1>2. Together'
    BY <1>1 DEF CursorInv, Together, InTheKernel, Decoded
  <1>3. Ranges' /\ Stands'
    BY <1>1 DEF Ranges, Stands
  <1> QED
    BY <1>1, <1>2, <1>3 DEF CursorInv

\* What the process does moves no cursor.
LEMMA ProcessTogether ==
  ASSUME CursorInv, Touch \/ Remap \/ ChangeVmas \/ UNCHANGED vars
  PROVE  CursorInv' /\ UNCHANGED <<layout, pud, pc, pos, eic, w, cleared, fulls>>
  <1>1. UNCHANGED <<layout, pud, pc, pos, eic, w, cleared, fulls>>
    <2>1. CASE Touch
      BY <2>1 DEF Touch
    <2>2. CASE Remap
      BY <2>2 DEF Remap
    <2>3. CASE ChangeVmas
      BY <2>3 DEF ChangeVmas
    <2>4. CASE UNCHANGED vars
      BY <2>4 DEF vars, tableVars
    <2> QED
      BY <2>1, <2>2, <2>3, <2>4
  <1>2. Kvm' <=> Kvm
    BY <1>1 DEF Kvm
  <1>3. Together'
    BY <1>1 DEF CursorInv, Together, Decoded
  <1>4. Ranges'
    BY <1>1, <1>2 DEF CursorInv, Ranges, EntriesTo
  <1>5. Stands'
    BY <1>1, <1>2 DEF CursorInv, Stands, StandsAt
  <1> QED
    BY <1>1, <1>3, <1>4, <1>5 DEF CursorInv

\* A step of the page walk, whichever page table it is.
LEMMA WalkTogether ==
  ASSUME Inv, CursorInv, KvmPages \/ AddPte \/ MmPassOver \/ MmPudEntry \/ MmPmdEntry
  PROVE  CursorInv' /\ PageStep
  BY KvmTogether, PteTogether, PassOverTogether, MmPudTogether, MmPmdTogether

\* Every step keeps the cursors of the kernel and of the parser together.
LEMMA NextTogether == Inv /\ CursorInv /\ [Next]_vars => CursorInv'
  <1> SUFFICES ASSUME Inv, CursorInv, [Next]_vars PROVE CursorInv'
    OBVIOUS
  <1>1. CASE ReadStart
    BY <1>1, StartTogether
  <1>2. CASE Walk \/ WalkVma \/ VmaDone \/ ReadFails \/ Parse \/ ReadDone
    BY <1>2, UserTogether
  <1>3. CASE MmRange \/ KvmRange
    BY <1>3, RangeTogether
  <1>4. CASE KvmPages \/ AddPte \/ MmPassOver \/ MmPudEntry \/ MmPmdEntry
    BY <1>4, WalkTogether
  <1>5. CASE Copy
    BY <1>5, CopyTogether
  <1>6. CASE Touch \/ Remap \/ ChangeVmas \/ UNCHANGED vars
    BY <1>6, ProcessTogether
  <1> QED
    BY <1>1, <1>2, <1>3, <1>4, <1>5, <1>6, Zenon DEF Next, UserNext, KernelNext, Finished

\* After a read the parser of its report stands where the kernel left f_pos
\* (ept_idle_copy_user, parse_idlepages): however pages, holes, full buffers and
\* restarts came about in the walk, and whatever the process did meanwhile.
THEOREM CursorsAgreeHolds == Spec => []CursorsAgree
  <1>1. Init => Inv /\ CursorInv
    <2> SUFFICES ASSUME Init PROVE CursorInv
      BY InitInv
    <2>1. pc = "start"
      BY DEF Init
    <2> QED
      BY <2>1 DEF CursorInv, Together, Ranges, Stands, InTheKernel
  <1>2. Inv /\ CursorInv /\ [Next]_vars => (Inv /\ CursorInv)'
    BY NextInv, NextTogether
  <1>3. CursorInv => CursorsAgree
    BY DEF CursorInv, Together, CursorsAgree
  <1> QED
    BY <1>1, <1>2, <1>3, PTL DEF Spec

-----------------------------------------------------------------------------
(* Accessed bits that are cleared and not reported.                        *)

\* KVM maps huge pages in a slot only if its addresses in the guest and in the
\* process are aligned alike.
SlotsAligned ==
  \A l \in Layouts : \A s \in l.slots : s.start % PmdPages = s.gpa % PmdPages

Lost(found) == cleared \ {found[i] : i \in DOMAIN found}

\* While a range is walked every bit cleared is in the report but for one of each
\* turn ended by a full buffer, this turn's included.
LossInv ==
  /\ IsFiniteSet(cleared) /\ fulls \in Nat
  /\ pc \in InTheKernel => Offset(eic.gpa_to_hva)
  /\ pc \in {"range", "pages", "ptes"} => Cardinality(Lost(Report(eic).refs)) <= fulls
  /\ pc \in {"pages", "ptes"} => ~eic.full
  /\ pc = "copy" => Cardinality(Lost(Report(eic).refs)) <= fulls + (IF eic.full THEN 1 ELSE 0)
  /\ pc = "parse" => Cardinality(Lost(Decoded.refs)) <= fulls

\* A step of the page walk that stays in its slot and leaves no full buffer behind.
Walks ==
  /\ pc \in {"pages", "ptes"} /\ pc' \in {"pages", "ptes", "copy"}
  /\ eic'.gpa_to_hva = eic.gpa_to_hva
  /\ pc' # "copy" /\ ~eic.full => ~eic'.full
  /\ UNCHANGED <<layout, fulls>>

\* GoOn() ends the walk of a range when the buffer is full.
LEMMA GoesOn ==
  ASSUME NEW next, NEW over, GoOn(next, over)
  PROVE  pc' \in {"pages", "copy"} /\ (pc' # "copy" => ~over)
  BY DEF GoOn

\* Only a full buffer stops in the middle of a PMD.
LEMMA PmdWalks ==
  ASSUME NEW e \in ControlBlocks, e.gpa_to_hva = eic.gpa_to_hva, e.full = eic.full,
         pc = "pages", UNCHANGED <<layout, fulls>>, NEW a, NEW b, AddPmd(e, a, b)
  PROVE  Walks
  <1>1. CASE EnterPtes(e, a, b)
    BY <1>1 DEF EnterPtes, Walks
  <1>2. ASSUME NEW type, eic' = eic_add_page(e, a, b, type), NEW over, over = eic'.full, GoOn(b, over)
        PROVE  Walks
    <2>1. eic'.gpa_to_hva = eic.gpa_to_hva
      <3>1. Kept(e, eic_add_page(e, a, b, type))
        BY AddKeepsLast
      <3> QED
        BY <1>2, <3>1, Zenon DEF Kept
    <2>2. pc' \in {"pages", "copy"} /\ (pc' # "copy" => ~eic'.full)
      BY <1>2, GoesOn, Zenon
    <2> QED
      BY <2>1, <2>2 DEF Walks
  <1>3. CASE AddHuge(e, a, b)
    <2>1. \E type : eic' = eic_add_page(e, a, b, type)
      BY <1>3, Zenon DEF AddHuge
    <2>2. PICK over : over = eic'.full /\ GoOn(b, over)
      BY <1>3, Zenon DEF AddHuge
    <2> QED
      BY <1>2, <2>1, <2>2
  <1>4. CASE AddHole(e, a, b)
    <2>1. \E type : eic' = eic_add_page(e, a, b, type)
      BY <1>4, Zenon DEF AddHole
    <2>2. PICK over : over = eic'.full /\ GoOn(b, over)
      BY <1>4, Zenon DEF AddHole
    <2> QED
      BY <1>2, <2>1, <2>2
  <1> QED
    BY <1>1, <1>3, <1>4 DEF AddPmd

\* Whatever is found, the walk stops when the buffer is full.
LEMMA StepWalks ==
  ASSUME Inv, CursorInv, KvmPages \/ AddPte \/ MmPassOver \/ MmPudEntry \/ MmPmdEntry
  PROVE  Walks
  <1>1. pc \in {"pages", "ptes"} /\ UNCHANGED <<layout, fulls>>
    BY DEF KvmPages, AddPte, MmPassOver, MmPudEntry, MmPmdEntry
  <1>2. eic \in ControlBlocks
    BY <1>1, InPages
  <1>3. ASSUME NEW a, NEW b, NEW type
        PROVE  eic_add_page(eic, a, b, type).gpa_to_hva = eic.gpa_to_hva
    BY <1>2, AddKeepsLast DEF Kept
  <1>4. CASE KvmPages
    <2> DEFINE a == w.cur
               big == PudEnd(a, w.stop)
    <2>1. pc = "pages"
      BY <1>4 DEF KvmPages
    <2>2. \/ eic' = [eic EXCEPT !.restart_gpa = big] /\ \E over : GoOn(big, over)
          \/ eic' = eic_add_page(eic, a, big, "PUD_PRESENT") /\ \E over : over = eic'.full /\ GoOn(big, over)
          \/ AddPmd(eic, a, PmdEnd(a, w.stop))
      BY <1>4, Zenon DEF KvmPages
    <2> HIDE DEF a, big
    <2>3. CASE eic' = [eic EXCEPT !.restart_gpa = big] /\ \E over : GoOn(big, over)
      <3>1. eic'.gpa_to_hva = eic.gpa_to_hva /\ eic'.full = eic.full
        BY <1>2, <2>3 DEF ControlBlocks
      <3>2. pc' \in {"pages", "copy"}
        BY <2>3, GoesOn
      <3> QED
        BY <1>1, <3>1, <3>2 DEF Walks
    <2>4. CASE eic' = eic_add_page(eic, a, big, "PUD_PRESENT") /\ \E over : over = eic'.full /\ GoOn(big, over)
      <3>1. eic'.gpa_to_hva = eic.gpa_to_hva
        BY <1>3, <2>4
      <3>2. PICK over : over = eic'.full /\ GoOn(big, over)
        BY <2>4
      <3>3. pc' \in {"pages", "copy"} /\ (pc' # "copy" => ~eic'.full)
        BY <3>2, GoesOn, Zenon
      <3> QED
        BY <1>1, <3>1, <3>3 DEF Walks
    <2>5. CASE AddPmd(eic, a, PmdEnd(a, w.stop))
      BY <1>1, <1>2, <2>1, <2>5, PmdWalks
    <2> QED
      BY <2>2, <2>3, <2>4, <2>5
  <1>5. CASE AddPte
    <2>1. /\ eic' = eic_add_page(eic, w.cur, w.cur + 1, PteType(w.cur))
          /\ \/ ~eic'.full /\ UNCHANGED pc
             \/ \E over : over = eic'.full /\ GoOn(w.pte_end, over)
      BY <1>5, Zenon DEF AddPte
    <2>2. eic'.gpa_to_hva = eic.gpa_to_hva
      BY <1>3, <2>1
    <2>3. pc' \in {"pages", "ptes", "copy"} /\ (pc' # "copy" => ~eic'.full)
      <3>1. CASE ~eic'.full /\ UNCHANGED pc
        BY <1>1, <3>1
      <3>2. CASE \E over : over = eic'.full /\ GoOn(w.pte_end, over)
        <4>1. PICK over : over = eic'.full /\ GoOn(w.pte_end, over)
          BY <3>2
        <4> QED
          BY <4>1, GoesOn, Zenon
      <3> QED
        BY <2>1, <3>1, <3>2
    <2> QED
      BY <1>1, <2>2, <2>3 DEF Walks
  <1>6. CASE MmPassOver
    <2>1. UNCHANGED eic /\ \E next : \E over : GoOn(next, over)
      BY <1>6, Zenon DEF MmPassOver
    <2> QED
      BY <1>1, <2>1, GoesOn DEF Walks
  <1>7. CASE MmPudEntry
    <2> DEFINE b == PudEnd(w.cur, Least(w.stop, vmas[FindVma(w.cur)].end))
    <2>1. pc' = "copy" /\ (UNCHANGED eic \/ eic' = [eic_add_page(eic, w.cur, b, "PUD_PRESENT") EXCEPT !.last_va = w.cur])
      BY <1>7, Zenon DEF MmPudEntry
    <2>2. eic'.gpa_to_hva = eic.gpa_to_hva
      <3>1. ~Kvm /\ ~Kvm'
        BY <1>1, <1>7 DEF MmPudEntry, Kvm
      <3>2. Inv'
        BY <1>7, MmEntriesKeep
      <3> QED
        BY <3>1, <3>2 DEF Inv, TypeInv
    <2> QED
      BY <1>1, <2>1, <2>2 DEF Walks
  <1>8. CASE MmPmdEntry
    <2> DEFINE a == w.cur
               b == PmdEnd(a, Least(w.stop, vmas[FindVma(a)].end))
               e == [eic EXCEPT !.last_va = a]
    <2>1. /\ pc = "pages"
          /\ \/ UNCHANGED eic /\ \E over : GoOn(b, over)
             \/ AddPmd(e, a, b)
      BY <1>8, Zenon DEF MmPmdEntry
    <2>2. e \in ControlBlocks /\ e.gpa_to_hva = eic.gpa_to_hva /\ e.full = eic.full
      <3>1. a \in Int
        BY <1>1, InPages
      <3> QED
        BY <1>2, <3>1 DEF ControlBlocks
    <2> HIDE DEF a, b, e
    <2>3. CASE UNCHANGED eic /\ \E over : GoOn(b, over)
      BY <1>1, <2>3, GoesOn DEF Walks
    <2>4. CASE AddPmd(e, a, b)
      BY <1>1, <2>1, <2>2, <2>4, PmdWalks
    <2> QED
      BY <2>1, <2>3, <2>4
  <1> QED
    BY <1>4, <1>5, <1>6, <1>7, <1>8

\* A longer report loses no more.
LEMMA FewerLost ==
  ASSUME NEW C, IsFiniteSet(C), NEW S, NEW T, S \subseteq T
  PROVE  /\ IsFiniteSet(C \ T) /\ Cardinality(C \ S) \in Nat /\ Cardinality(C \ T) \in Nat
         /\ Cardinality(C \ T) <= Cardinality(C \ S)
  <1>1. IsFiniteSet(C \ S)
    BY FS_Difference
  <1>2. C \ T \in SUBSET (C \ S)
    OBVIOUS
  <1> QED
    BY <1>1, <1>2, FS_Subset, FS_CardinalityType

\* One bit more is cleared, and its page is in the report or lost.
LEMMA OneMore ==
  ASSUME NEW C, IsFiniteSet(C), NEW S, NEW x
  PROVE  /\ IsFiniteSet(C \cup {x})
         /\ Cardinality((C \cup {x}) \ S) <= Cardinality(C \ S) + 1
         /\ Cardinality((C \cup {x}) \ (S \cup {x})) <= Cardinality(C \ S)
  <1>1. IsFiniteSet(C \cup {x}) /\ IsFiniteSet(C \ S) /\ Cardinality(C \ S) \in Nat
    BY FS_AddElement, FS_Difference, FS_CardinalityType
  <1>2. /\ IsFiniteSet((C \ S) \cup {x})
        /\ Cardinality((C \ S) \cup {x}) = IF x \in C \ S THEN Cardinality(C \ S) ELSE Cardinality(C \ S) + 1
    BY <1>1, FS_AddElement
  <1>3. (C \cup {x}) \ S \in SUBSET ((C \ S) \cup {x})
    OBVIOUS
  <1>4. Cardinality((C \cup {x}) \ S) <= Cardinality((C \ S) \cup {x})
    BY <1>2, <1>3, FS_Subset
  <1>5. Cardinality((C \cup {x}) \ S) \in Nat
    BY <1>2, <1>3, FS_Subset, FS_CardinalityType
  <1>6. (C \cup {x}) \ (S \cup {x}) \in SUBSET (C \ S)
    OBVIOUS
  <1>7. Cardinality((C \cup {x}) \ (S \cup {x})) <= Cardinality(C \ S)
    BY <1>1, <1>6, FS_Subset
  <1> QED
    BY <1>1, <1>2, <1>4, <1>5, <1>7

\* A sum of multiples.
LEMMA AlignedSum ==
  ASSUME NEW s \in Nat \ {0}, NEW k \in Nat, NEW a \in Nat, NEW b \in Nat,
         s * k + s * a - s * b >= 0
  PROVE  (s * k + s * a - s * b) % s = 0
  <1> DEFINE q == k + a - b
  <1>1. q \in Int /\ s * q = s * k + s * a - s * b
    OBVIOUS
  <1> HIDE DEF q
  <1>2. q \in Nat
    <2> SUFFICES ASSUME q <= -1 PROVE FALSE
      BY <1>1
    <2>1. s * q <= s * (-1)
      BY <1>1
    <2>2. s * (-1) < 0
      OBVIOUS
    <2> QED
      BY <1>1, <2>1, <2>2
  <1>3. (s * q) % s = 0
    BY <1>2, Multiple
  <1> QED
    BY <1>1, <1>3

\* A huge page of a process, or of a guest whose slots are aligned, is aligned
\* where the report says it is.
LEMMA HugeAligned ==
  ASSUME SlotsAligned, layout \in Layouts, NEW g \in Int, Offset(g), NEW a \in Nat,
         g = 0 \/ a + g >= PudPages
  PROVE  (RoundDown(a, PmdPages) + g) % PmdPages = 0
  <1> DEFINE k == a \div PmdPages
             down == RoundDown(a, PmdPages)
  <1>1. PmdPages \in Nat \ {0}
    BY StreamAssumption
  <1>2. k \in Nat /\ down = PmdPages * k /\ down <= a /\ a < down + PmdPages
    <2>1. k \in Nat /\ down = PmdPages * k
      BY <1>1, PageEnd
    <2>2. down <= a /\ a < down + PmdPages
      BY <1>1, Rounds
    <2> QED
      BY <2>1, <2>2
  <1> HIDE DEF k, down
  <1>3. CASE g = 0
    <2>1. (PmdPages * k) % PmdPages = 0 /\ down \in Nat
      BY <1>1, <1>2, Multiple
    <2>2. down + g = PmdPages * k
      BY <1>2, <1>3, <2>1
    <2> QED
      BY <2>1, <2>2 DEF down
  <1>4. CASE g # 0
    <2>1. PICK s \in layout.slots : g = s.start - s.gpa
      BY <1>4 DEF Offset
    <2>2. s.start \in Nat /\ s.gpa \in Nat /\ s.start % PmdPages = s.gpa % PmdPages
      BY <2>1, LayoutTypes DEF SlotType, SlotsAligned
    <2>3. PICK m \in Nat, n \in Nat, r \in 0 .. PmdPages - 1 :
            s.start = PmdPages * m + r /\ s.gpa = PmdPages * n + r
      <3>1. /\ s.start \div PmdPages \in Nat /\ s.start % PmdPages \in 0 .. PmdPages - 1
            /\ s.start = PmdPages * (s.start \div PmdPages) + (s.start % PmdPages)
        BY <1>1, <2>2, Division
      <3>2. /\ s.gpa \div PmdPages \in Nat
            /\ s.gpa = PmdPages * (s.gpa \div PmdPages) + (s.gpa % PmdPages)
        BY <1>1, <2>2, Division
      <3> QED
        BY <2>2, <3>1, <3>2
    <2>4. PmdPages * k \in Nat /\ PmdPages * m \in Nat /\ PmdPages * n \in Nat
      BY <1>1, <1>2, Multiple
    <2>5. down + g = PmdPages * k + PmdPages * m - PmdPages * n
      BY <1>2, <2>1, <2>2, <2>3, <2>4
    <2>6. down + g >= 0
      <3>1. a + g >= PudPages /\ PudPages >= PmdPages
        BY <1>4, PageSizes, StreamAssumption
      <3> QED
        BY <1>1, <1>2, <2>4, <3>1, StreamAssumption
    <2>7. (PmdPages * k + PmdPages * m - PmdPages * n) % PmdPages = 0
      BY <1>1, <1>2, <2>5, <2>6, AlignedSum
    <2> QED
      BY <2>5, <2>7 DEF down
  <1> QED
    BY <1>3, <1>4

\* The page of an accessed bit is counted when there is room for it.
LEMMA AccessedCounts ==
  ASSUME SlotsAligned, layout \in Layouts, NEW g \in Int, Offset(g), NEW a \in Nat,
         g = 0 \/ a + g >= PudPages, NEW type \in AccessedTypes
  PROVE  LET at == RoundDown(a, pagetype_size(type)) + g IN
         Counts(type, at) = <<[type |-> type, va |-> at]>>
  <1> DEFINE at == RoundDown(a, pagetype_size(type)) + g
  <1>1. type \notin HoleTypes
    BY DEF AccessedTypes, HoleTypes
  <1>2. at % pagetype_size(type) = 0
    <2>1. CASE type = "PTE_ACCESSED"
      <3>1. pagetype_size(type) = 1
        BY <2>1, TypeSizes DEF PteTypes
      <3>2. RoundDown(a, 1) = a
        BY SmallPage
      <3>3. (a + g) % 1 = 0
        <4>1. a + g \in Int
          OBVIOUS
        <4> QED
          BY <4>1
      <3> QED
        BY <3>1, <3>2, <3>3
    <2>2. CASE type = "PMD_ACCESSED"
      <3>1. pagetype_size(type) = PmdPages
        BY <2>2, TypeSizes DEF PmdTypes
      <3> QED
        BY <3>1, HugeAligned
    <2> QED
      BY <2>1, <2>2 DEF AccessedTypes
  <1> QED
    BY <1>1, <1>2 DEF Counts

\* What is found in a list and in one element more.
LEMMA FoundMore ==
  ASSUME NEW list \in Seq(Counted), NEW x
  PROVE  LET more == list \o <<x>> IN
         {more[i] : i \in DOMAIN more} = {list[i] : i \in DOMAIN list} \cup {x}
  <1> DEFINE more == list \o <<x>>
  <1>1. /\ Len(list) \in Nat /\ DOMAIN list = 1 .. Len(list) /\ DOMAIN more = 1 .. Len(list) + 1
        /\ more[Len(list) + 1] = x /\ \A i \in 1 .. Len(list) : more[i] = list[i]
    OBVIOUS
  <1> HIDE DEF more
  <1>2. {more[i] : i \in DOMAIN more} = {list[i] : i \in DOMAIN list} \cup {x}
    BY <1>1
  <1> QED
    BY <1>2 DEF more

\* The page at a cursor begins at or above address 0.
LEMMA ReportedAt ==
  ASSUME NEW a \in Nat, NEW g \in Int, g = 0 \/ a + g >= PudPages, NEW type
  PROVE  RoundDown(a, pagetype_size(type)) + g \in Nat
  <1> DEFINE size == pagetype_size(type)
             down == RoundDown(a, size)
  <1>1. size \in Nat \ {0} /\ size <= PudPages /\ PudPages \in Nat
    BY PageSizes, StreamAssumption
  <1> HIDE DEF size
  <1>2. down \in Nat /\ a < down + size
    BY <1>1, Rounds
  <1> HIDE DEF down
  <1>3. down + g \in Nat
    BY <1>1, <1>2
  <1> QED
    BY <1>3 DEF down, size

\* A step of the page walk: what it clears and finds no room for is lost, and ends
\* the turn.
LEMMA WalkLoses ==
  ASSUME SlotsAligned, Inv, CursorInv, LossInv,
         KvmPages \/ AddPte \/ MmPassOver \/ MmPudEntry \/ MmPmdEntry
  PROVE  LossInv'
  <1> DEFINE R == Report(eic).refs
             R1 == Report(eic').refs
  <1>1. Walks /\ PageStep
    BY StepWalks, WalkTogether
  <1>2. pc \in {"pages", "ptes"} /\ pc' \in {"pages", "ptes", "copy"} /\ UNCHANGED <<layout, fulls>>
    BY <1>1 DEF Walks
  <1>3. /\ eic \in ControlBlocks /\ w.cur \in Nat /\ eic.gpa_to_hva \in Int /\ layout \in Layouts
        /\ eic.gpa_to_hva = 0 \/ w.cur + eic.gpa_to_hva >= PudPages
    <2>1. eic \in ControlBlocks /\ w.cur \in Nat /\ eic.gpa_to_hva \in Int /\ Mapped(w.cur, eic)
      BY <1>2, InPages
    <2> QED
      BY <2>1 DEF Mapped, Inv, TypeInv
  <1>4. /\ IsFiniteSet(cleared) /\ fulls \in Nat /\ ~eic.full /\ Offset(eic.gpa_to_hva)
        /\ Cardinality(Lost(R)) <= fulls
    <2>1. pc \in InTheKernel
      BY <1>2 DEF InTheKernel
    <2> QED
      BY <1>2, <2>1 DEF LossInv
  <1>5. R \in Seq(Counted)
    <2>1. Report(eic) \in Parsers
      BY <1>3, ReportType
    <2> QED
      BY <2>1 DEF Parsers
  <1> DEFINE lost == Cardinality(cleared' \ {R1[i] : i \in DOMAIN R1})
  <1>6. ASSUME IsFiniteSet(cleared'), lost <= fulls \/ (eic'.full /\ lost <= fulls + 1)
        PROVE  LossInv'
    <2>2. Cardinality(Lost(Report(eic).refs))' = lost
      BY DEF Lost
    <2>3. lost \in Nat
      BY <1>6, FS_Difference, FS_CardinalityType
    <2> HIDE DEF lost
    <2>4. pc' # "copy" => ~eic'.full
      BY <1>1, <1>4 DEF Walks
    <2>5. pc' # "range" /\ pc' # "parse"
      BY <1>2
    <2>6. Offset(eic.gpa_to_hva)'
      BY <1>1, <1>2, <1>4 DEF Walks, Offset
    <2> QED
      BY <1>2, <1>4, <1>6, <2>2, <2>3, <2>4, <2>5, <2>6 DEF LossInv
  <1> HIDE DEF R, R1
  <1>7. CASE Nothing
    <2>1. cleared' = cleared /\ R1 = R
      BY <1>7, Zenon DEF Nothing, R, R1
    <2>2. lost = Cardinality(Lost(R))
      BY <2>1 DEF Lost
    <2> QED
      BY <1>4, <1>6, <2>1, <2>2
  <1>8. ASSUME NEW type \in PageTypes, Finds(type)
        PROVE  LossInv'
    <2> DEFINE x == [type |-> type, va |-> RoundDown(w.cur, pagetype_size(type)) + eic.gpa_to_hva]
               found == {R[i] : i \in DOMAIN R}
    <2>1. \/ cleared' = cleared
          \/ type \in AccessedTypes /\ cleared' = cleared \cup {x}
      BY <1>8, Zenon DEF Finds
    <2>2. \/ R1 = R /\ (type \in HoleTypes \/ eic'.full = TRUE)
          \/ R1 = R \o Counts(type, RoundDown(w.cur, pagetype_size(type)) + eic.gpa_to_hva)
      BY <1>8, Zenon DEF Finds, Adds, R, R1
    <2>3. type \in AccessedTypes => type \notin HoleTypes
      BY DEF AccessedTypes, HoleTypes
    <2>4. Cardinality(cleared \ found) <= fulls
      BY <1>4 DEF Lost
    <2>5. ASSUME NEW S, S = {R1[i] : i \in DOMAIN R1}, IsFiniteSet(cleared'),
                 Cardinality(cleared' \ S) <= fulls \/ (eic'.full /\ Cardinality(cleared' \ S) <= fulls + 1)
          PROVE  LossInv'
      BY <1>6, <2>5
    <2>6. CASE R1 = R /\ (type \in HoleTypes \/ eic'.full = TRUE)
      <3>1. found = {R1[i] : i \in DOMAIN R1}
        BY <2>6
      <3> HIDE DEF found, x
      <3>2. CASE cleared' = cleared
        BY <1>4, <2>4, <2>5, <3>1, <3>2
      <3>3. CASE type \in AccessedTypes /\ cleared' = cleared \cup {x}
        <4>1. eic'.full = TRUE
          BY <2>3, <2>6, <3>3
        <4>2. IsFiniteSet(cleared') /\ Cardinality(cleared' \ found) <= Cardinality(cleared \ found) + 1
          BY <1>4, <3>3, OneMore
        <4>3. Cardinality(cleared \ found) \in Nat /\ Cardinality(cleared' \ found) \in Nat
          BY <1>4, <4>2, FewerLost
        <4>4. Cardinality(cleared' \ found) <= fulls + 1
          BY <1>4, <2>4, <4>2, <4>3
        <4> QED
          BY <2>5, <3>1, <4>1, <4>2, <4>4
      <3> QED
        BY <2>1, <3>2, <3>3
    <2>7. CASE R1 = R \o Counts(type, RoundDown(w.cur, pagetype_size(type)) + eic.gpa_to_hva)
      <3>1. CASE cleared' = cleared
        <4> DEFINE more == {R1[i] : i \in DOMAIN R1}
        <4>1. found \subseteq more
          <5>1. PICK counted \in Seq(Counted) : R1 = R \o counted
            <6>1. Counts(type, RoundDown(w.cur, pagetype_size(type)) + eic.gpa_to_hva) \in Seq(Counted)
              <7> DEFINE at == RoundDown(w.cur, pagetype_size(type)) + eic.gpa_to_hva
              <7>1. at \in Nat
                BY <1>3, ReportedAt
              <7> HIDE DEF at
              <7>2. [type |-> type, va |-> at] \in Counted
                BY <7>1 DEF Counted
              <7> QED
                BY <7>2 DEF Counts, at
            <6> QED
              BY <2>7, <6>1
          <5>2. \A i \in DOMAIN R : i \in DOMAIN R1 /\ R1[i] = R[i]
            BY <1>5, <5>1
          <5> QED
            BY <5>2
        <4>2. /\ Cardinality(cleared \ found) \in Nat /\ Cardinality(cleared \ more) \in Nat
              /\ Cardinality(cleared \ more) <= Cardinality(cleared \ found)
          <5> HIDE DEF found, more
          <5> QED
            BY <1>4, <4>1, FewerLost
        <4>3. Cardinality(cleared' \ more) <= fulls
          <5> HIDE DEF found, more
          <5> QED
            BY <1>4, <2>4, <3>1, <4>2
        <4> QED
          BY <1>4, <2>5, <3>1, <4>3
      <3>2. CASE type \in AccessedTypes /\ cleared' = cleared \cup {x}
        <4>1. R1 = R \o <<x>>
          BY <1>3, <1>4, <2>7, <3>2, AccessedCounts, Zenon
        <4>2. {R1[i] : i \in DOMAIN R1} = found \cup {x}
          <5>1. LET more == R \o <<x>> IN {more[i] : i \in DOMAIN more} = {R[i] : i \in DOMAIN R} \cup {x}
            <6> HIDE DEF x
            <6> QED
              BY <1>5, FoundMore
          <5> QED
            BY <4>1, <5>1, Zenon
        <4> HIDE DEF found, x
        <4>3. /\ IsFiniteSet(cleared')
              /\ Cardinality(cleared' \ (found \cup {x})) <= Cardinality(cleared \ found)
          BY <1>4, <3>2, OneMore
        <4>4. Cardinality(cleared \ found) \in Nat /\ Cardinality(cleared' \ (found \cup {x})) \in Nat
          BY <1>4, <4>3, FewerLost
        <4>5. Cardinality(cleared' \ (found \cup {x})) <= fulls
          BY <1>4, <2>4, <4>3, <4>4
        <4> QED
          BY <2>5, <4>2, <4>3, <4>5
      <3> QED
        BY <2>1, <3>1, <3>2
    <2> QED
      BY <2>2, <2>6, <2>7
  <1> QED
    BY <1>1, <1>7, <1>8 DEF PageStep

\* Every step loses at most the bit of the page that found the buffer full.
LEMMA NextLoses ==
  ASSUME SlotsAligned, Inv, CursorInv, LossInv, [Next]_vars
  PROVE  LossInv'
  <1>1. IsFiniteSet(cleared) /\ fulls \in Nat
    BY DEF LossInv
  <1>2. CASE ReadStart
    <2>1. /\ Report(eic').refs = <<>> /\ Decoded'.refs = <<>> /\ eic'.gpa_to_hva = 0
          /\ cleared' = {} /\ fulls' = 0 /\ pc' \in {"parse", "range"}
      BY <1>2, StartTogether
    <2>2. \A S : Cardinality(cleared' \ S) = 0
      <3>1. \A S : {} \ S = {}
        OBVIOUS
      <3>2. Cardinality({}) = 0
        BY FS_EmptySet
      <3> QED
        BY <2>1, <3>1, <3>2
    <2>3. Offset(eic.gpa_to_hva)'
      BY <2>1 DEF Offset
    <2>4. IsFiniteSet(cleared')
      BY <2>1, FS_EmptySet
    <2> QED
      BY <2>1, <2>2, <2>3, <2>4 DEF LossInv, Lost
  <1>3. CASE Walk \/ WalkVma \/ VmaDone \/ ReadFails \/ Parse \/ ReadDone
    <2>1. /\ pc' \in {"vma", "loop", "parse", "done"} /\ UNCHANGED <<cleared, fulls>>
          /\ pc' = "parse" => pc = "parse" /\ UNCHANGED eic
      BY <1>3, UserTogether
    <2> QED
      BY <1>1, <2>1 DEF LossInv, Lost, Decoded, InTheKernel
  <1>4. CASE MmRange \/ KvmRange
    <2>1. /\ NextTurn(eic') /\ UNCHANGED <<cleared, fulls, layout>> /\ pc = "range"
          /\ pc' \in {"pages", "copy"}
      BY <1>4, RangeTogether
    <2>2. /\ Report(eic') = Report(eic) /\ ~eic'.full
          /\ eic'.gpa_to_hva = eic.gpa_to_hva \/ Offset(eic'.gpa_to_hva)
      BY <2>1, Zenon DEF NextTurn, SameReport
    <2>3. Cardinality(Lost(Report(eic).refs)) <= fulls /\ Offset(eic.gpa_to_hva)
      BY <2>1 DEF LossInv, InTheKernel
    <2>4. Offset(eic.gpa_to_hva)'
      BY <2>1, <2>2, <2>3 DEF Offset
    <2>5. Cardinality(Lost(Report(eic).refs)) \in Nat
      BY <1>1, FewerLost DEF Lost
    <2>6. Cardinality(Lost(Report(eic).refs))' <= fulls'
      BY <2>1, <2>2, <2>3 DEF Lost
    <2> QED
      BY <1>1, <2>1, <2>2, <2>4, <2>6 DEF LossInv
  <1>5. CASE KvmPages \/ AddPte \/ MmPassOver \/ MmPudEntry \/ MmPmdEntry
    BY <1>5, WalkLoses
  <1>6. CASE Copy
    <2>1. /\ Decoded'.refs = Report(eic).refs
          /\ pc' = "range" => Report(eic').refs = Report(eic).refs
          /\ pc = "copy" /\ pc' \in {"parse", "range"} /\ eic'.gpa_to_hva = eic.gpa_to_hva
          /\ fulls' = IF eic.full THEN fulls + 1 ELSE fulls
          /\ UNCHANGED <<layout, cleared>>
      BY <1>6, CopyTogether
    <2>2. Cardinality(Lost(Report(eic).refs)) <= fulls + (IF eic.full THEN 1 ELSE 0)
      BY <2>1 DEF LossInv
    <2>3. Offset(eic.gpa_to_hva)'
      BY <2>1 DEF LossInv, InTheKernel, Offset
    <2>4. fulls' \in Nat /\ Cardinality(Lost(Report(eic).refs)) <= fulls'
      BY <1>1, <2>1, <2>2
    <2>5. /\ pc' = "range" => Cardinality(Lost(Report(eic).refs))' <= fulls'
          /\ pc' = "parse" => Cardinality(Lost(Decoded.refs))' <= fulls'
      BY <2>1, <2>4 DEF Lost
    <2> QED
      BY <1>1, <2>1, <2>3, <2>4, <2>5 DEF LossInv
  <1>7. CASE Touch \/ Remap \/ ChangeVmas \/ UNCHANGED vars
    <2>1. UNCHANGED <<layout, pc, eic, cleared, fulls>>
      BY <1>7, ProcessTogether
    <2> QED
      BY <2>1 DEF LossInv, Lost, Decoded, Offset
  <1> QED
    BY <1>2, <1>3, <1>4, <1>5, <1>6, <1>7, Zenon DEF Next, UserNext, KernelNext, Finished

\* Testing a page clears its accessed bit before it is known to fit into the
\* buffer (ept_idle.c, eic_add_page): in a read no more of them go unreported than
\* turns were ended by a full buffer, whatever was walked before and after.
THEOREM LosesOnePerFullBufferHolds ==
  ASSUME SlotsAligned
  PROVE  Spec => []LosesOnePerFullBuffer
  <1>1. Init => Inv /\ CursorInv /\ LossInv
    <2> SUFFICES ASSUME Init PROVE CursorInv /\ LossInv
      BY InitInv
    <2>1. pc = "start" /\ cleared = {} /\ fulls = 0
      BY DEF Init
    <2>2. CursorInv
      BY <2>1 DEF CursorInv, Together, Ranges, Stands, InTheKernel
    <2>3. LossInv
      BY <2>1, FS_EmptySet DEF LossInv, InTheKernel
    <2> QED
      BY <2>2, <2>3
  <1>2. Inv /\ CursorInv /\ LossInv /\ [Next]_vars => (Inv /\ CursorInv /\ LossInv)'
    BY NextInv, NextTogether, NextLoses
  <1>3. LossInv => LosesOnePerFullBuffer
    BY DEF LossInv, LosesOnePerFullBuffer, Lost
  <1> QED
    BY <1>1, <1>2, <1>3, PTL DEF Spec

-----------------------------------------------------------------------------
(* Lists of pages.                                                         *)

\* The pages of a size are in increasing order, none of them twice.
InOrder(list) ==
  \A i, j \in 1 .. Len(list) :
    i < j /\ pagetype_size(list[i].type) = pagetype_size(list[j].type) => list[i].va < list[j].va

\* Every page ends before an address; every page is aligned.
Behind(list, at) == \A i \in 1 .. Len(list) : EndOf(list[i]) <= at
Aligned(list) == \A i \in 1 .. Len(list) : list[i].va % pagetype_size(list[i].type) = 0

\* A size of pages divides a larger one.
LEMMA SizesDivide ==
  ASSUME NEW t \in {1, PmdPages, PudPages}, NEW s \in {1, PmdPages, PudPages}
  PROVE  (\E k \in Nat : s = t * k) \/ (\E k \in Nat : t = s * k)
  <1>1. PudPages \in Nat \ {0} /\ PmdPages \in Nat \ {0}
    BY StreamAssumption
  <1>2. PICK n \in Nat : PudPages = PmdPages * n
    BY PudOfPmds
  <1>3. \A x \in Nat : x = 1 * x /\ x = x * 1
    OBVIOUS
  <1>4. CASE t = s
    BY <1>1, <1>3, <1>4
  <1>5. CASE t = 1 \/ s = 1
    BY <1>1, <1>3, <1>5
  <1>6. CASE t = PmdPages /\ s = PudPages
    BY <1>2, <1>6
  <1>7. CASE s = PmdPages /\ t = PudPages
    BY <1>2, <1>7
  <1> QED
    BY <1>4, <1>5, <1>6, <1>7

\* The size of a page.
LEMMA SizesOfPages ==
  ASSUME NEW type \in PageTypes
  PROVE  /\ pagetype_size(type) \in {1, PmdPages, PudPages}
         /\ pagetype_size(type) \in Nat \ {0}
  BY TypeSizes, StreamAssumption DEF PageTypes

\* Multiples that differ, differ by the divisor.
LEMMA Apart ==
  ASSUME NEW s \in Nat \ {0}, NEW m \in Nat, NEW k \in Nat, s * m < s * k
  PROVE  s * m + s <= s * k
  <1>1. m < k
    <2> SUFFICES ASSUME m >= k PROVE FALSE
      OBVIOUS
    <2>1. s * m >= s * k
      OBVIOUS
    <2> QED
      BY <2>1
  <1>2. s * (m + 1) <= s * k /\ s * (m + 1) = s * m + s
    BY <1>1
  <1> QED
    BY <1>2

\* An aligned number is a multiple.
LEMMA MultipleOf ==
  ASSUME NEW a \in Nat, NEW s \in Nat \ {0}, a % s = 0
  PROVE  \E m \in Nat : a = s * m
  <1>1. a \div s \in Nat /\ a = s * (a \div s) + (a % s)
    BY Division
  <1>2. PICK m \in Nat : m = a \div s
    BY <1>1
  <1>3. s * m \in Nat
    OBVIOUS
  <1>4. a = s * m
    BY <1>1, <1>2, <1>3
  <1> QED
    BY <1>4

\* An aligned page that begins before another, and does not reach over its end, ends
\* where the other begins at the latest.
LEMMA AlignedApart ==
  ASSUME NEW s \in {1, PmdPages, PudPages}, NEW t \in {1, PmdPages, PudPages},
         NEW va0 \in Nat, NEW at \in Nat, va0 % t = 0, at % s = 0,
         va0 < at, va0 + t < at + s
  PROVE  va0 + t <= at
  <1>1. s \in Nat \ {0} /\ t \in Nat \ {0}
    BY StreamAssumption
  <1>2. PICK m \in Nat : va0 = t * m
    BY <1>1, MultipleOf
  <1>3. PICK k \in Nat : at = s * k
    BY <1>1, MultipleOf
  <1>4. CASE \E n \in Nat : s = t * n
    <2>1. PICK n \in Nat : s = t * n
      BY <1>4
    <2>2. PICK j \in Nat : j = n * k
      OBVIOUS
    <2>3. at = t * j
      <3>1. (t * n) * k = t * (n * k)
        BY <1>1
      <3> QED
        BY <1>3, <2>1, <2>2, <3>1
    <2> QED
      BY <1>1, <1>2, <2>3, Apart
  <1>5. CASE \E n \in Nat : t = s * n
    <2>1. PICK n \in Nat : t = s * n
      BY <1>5
    <2>2. PICK j \in Nat : j = n * m + n
      OBVIOUS
    <2>3. va0 + t = s * j
      <3>1. s * (n * m + n) = (s * n) * m + s * n
        BY <1>1
      <3> QED
        BY <1>2, <2>1, <2>2, <3>1
    <2>4. s * j < s * k + s /\ s * k + s = s * (k + 1)
      BY <1>1, <1>3, <2>3
    <2>5. s * k \in Nat /\ s * j \in Nat
      BY <1>1
    <2> SUFFICES ASSUME s * k < s * j PROVE FALSE
      BY <1>3, <2>3, <2>5
    <2>6. s * k + s <= s * j
      BY <1>1, Apart
    <2> QED
      BY <1>1, <2>4, <2>5, <2>6
  <1> QED
    BY <1>4, <1>5, SizesDivide

\* The elements of a list of pages.
LEMMA PagesOfList ==
  ASSUME NEW list \in Seq(Counted)
  PROVE  \A i \in 1 .. Len(list) :
           /\ list[i].va \in Nat /\ list[i].type \in PageTypes
           /\ pagetype_size(list[i].type) \in {1, PmdPages, PudPages}
           /\ pagetype_size(list[i].type) \in Nat \ {0} /\ EndOf(list[i]) \in Nat
           /\ list[i].va < EndOf(list[i])
  <1> SUFFICES ASSUME NEW i \in 1 .. Len(list)
               PROVE  /\ list[i].va \in Nat /\ list[i].type \in PageTypes
                      /\ pagetype_size(list[i].type) \in {1, PmdPages, PudPages}
                      /\ pagetype_size(list[i].type) \in Nat \ {0} /\ EndOf(list[i]) \in Nat
                      /\ list[i].va < EndOf(list[i])
    OBVIOUS
  <1>1. list[i] \in Counted
    OBVIOUS
  <1>2. list[i].va \in Nat /\ list[i].type \in PageTypes
    BY <1>1 DEF Counted
  <1> QED
    BY <1>2, SizesOfPages DEF EndOf

\* What ends before an address ends before a later one.
LEMMA BehindMore ==
  ASSUME NEW list \in Seq(Counted), NEW a \in Int, NEW b \in Int, Behind(list, a), a <= b
  PROVE  Behind(list, b)
  <1> SUFFICES ASSUME NEW i \in 1 .. Len(list) PROVE EndOf(list[i]) <= b
    BY DEF Behind
  <1>1. EndOf(list[i]) \in Nat /\ EndOf(list[i]) <= a
    BY PagesOfList DEF Behind
  <1> QED
    BY <1>1

\* What holds of a list holds of its parts.
LEMMA Parts ==
  ASSUME NEW a \in Seq(Counted), NEW b \in Seq(Counted)
  PROVE  /\ a \o b \in Seq(Counted) /\ Len(a \o b) = Len(a) + Len(b)
         /\ Len(a) \in Nat /\ Len(b) \in Nat
         /\ \A i \in 1 .. Len(a) : i \in 1 .. Len(a \o b) /\ (a \o b)[i] = a[i]
         /\ \A i \in 1 .. Len(b) : Len(a) + i \in 1 .. Len(a \o b) /\ (a \o b)[Len(a) + i] = b[i]
         /\ \A k \in 1 .. Len(a \o b) : k \in 1 .. Len(a) \/ \E i \in 1 .. Len(b) : k = Len(a) + i
  <1> DEFINE c == a \o b
             n == Len(a)
             m == Len(b)
  <1>1. /\ c \in Seq(Counted) /\ Len(c) = n + m /\ n \in Nat /\ m \in Nat
        /\ \A i \in 1 .. n : c[i] = a[i]
        /\ \A i \in 1 .. m : c[n + i] = b[i]
    OBVIOUS
  <1> HIDE DEF c, n, m
  <1>2. ASSUME NEW k \in 1 .. Len(c), k \notin 1 .. n
        PROVE  \E i \in 1 .. m : k = n + i
    <2>1. k - n \in 1 .. m /\ k = n + (k - n)
      BY <1>1, <1>2
    <2> QED
      BY <2>1
  <1>3. \A i \in 1 .. n : i \in 1 .. Len(c)
    BY <1>1
  <1>4. \A i \in 1 .. m : n + i \in 1 .. Len(c)
    BY <1>1
  <1> QED
    BY <1>1, <1>2, <1>3, <1>4 DEF c, n, m

\* What ends before an address, of two lists.
LEMMA BehindBoth ==
  ASSUME NEW a \in Seq(Counted), NEW b \in Seq(Counted), NEW at
  PROVE  Behind(a \o b, at) <=> Behind(a, at) /\ Behind(b, at)
  <1> DEFINE c == a \o b
             n == Len(a)
  <1>1. /\ \A i \in 1 .. n : i \in 1 .. Len(c) /\ c[i] = a[i]
        /\ \A i \in 1 .. Len(b) : n + i \in 1 .. Len(c) /\ c[n + i] = b[i]
        /\ \A k \in 1 .. Len(c) : k \in 1 .. n \/ \E i \in 1 .. Len(b) : k = n + i
    BY Parts
  <1> HIDE DEF c, n
  <1>2. Behind(c, at) <=> (\A i \in 1 .. n : EndOf(a[i]) <= at) /\ Behind(b, at)
    BY <1>1 DEF Behind
  <1> QED
    BY <1>2 DEF Behind, c, n

\* Two lists of aligned pages.
LEMMA AlignedBoth ==
  ASSUME NEW a \in Seq(Counted), NEW b \in Seq(Counted)
  PROVE  Aligned(a \o b) <=> Aligned(a) /\ Aligned(b)
  <1> DEFINE c == a \o b
             n == Len(a)
             Is(x) == x.va % pagetype_size(x.type) = 0
  <1>1. /\ \A i \in 1 .. n : i \in 1 .. Len(c) /\ c[i] = a[i]
        /\ \A i \in 1 .. Len(b) : n + i \in 1 .. Len(c) /\ c[n + i] = b[i]
        /\ \A k \in 1 .. Len(c) : k \in 1 .. n \/ \E i \in 1 .. Len(b) : k = n + i
    BY Parts
  <1>2. /\ Aligned(c) <=> \A i \in 1 .. Len(c) : Is(c[i])
        /\ Aligned(a) <=> \A i \in 1 .. n : Is(a[i])
        /\ Aligned(b) <=> \A i \in 1 .. Len(b) : Is(b[i])
    BY DEF Aligned
  <1> HIDE DEF c, n, Is
  <1>3. Aligned(c) <=> Aligned(a) /\ Aligned(b)
    BY <1>1, <1>2
  <1> QED
    BY <1>3 DEF c

\* Two lists in order.
LEMMA OrderBoth ==
  ASSUME NEW a \in Seq(Counted), NEW b \in Seq(Counted)
  PROVE  InOrder(a \o b) <=>
           /\ InOrder(a) /\ InOrder(b)
           /\ \A i \in 1 .. Len(a), j \in 1 .. Len(b) :
                pagetype_size(a[i].type) = pagetype_size(b[j].type) => a[i].va < b[j].va
  <1> DEFINE c == a \o b
             n == Len(a)
             m == Len(b)
             Less(x, y) == pagetype_size(x.type) = pagetype_size(y.type) => x.va < y.va
  <1>1. /\ n \in Nat /\ m \in Nat
        /\ \A i \in 1 .. n : i \in 1 .. Len(c) /\ c[i] = a[i]
        /\ \A i \in 1 .. m : n + i \in 1 .. Len(c) /\ c[n + i] = b[i]
        /\ \A k \in 1 .. Len(c) : k \in 1 .. n \/ \E i \in 1 .. m : k = n + i
    BY Parts
  <1>2. /\ InOrder(c) <=> \A i, j \in 1 .. Len(c) : i < j => Less(c[i], c[j])
        /\ InOrder(a) <=> \A i, j \in 1 .. n : i < j => Less(a[i], a[j])
        /\ InOrder(b) <=> \A i, j \in 1 .. m : i < j => Less(b[i], b[j])
    BY DEF InOrder
  <1>3. SUFFICES InOrder(c) <=> InOrder(a) /\ InOrder(b) /\ \A i \in 1 .. n, j \in 1 .. m : Less(a[i], b[j])
    OBVIOUS
  <1> HIDE DEF c, n, m, Less
  <1>4. ASSUME InOrder(c) PROVE InOrder(a) /\ InOrder(b) /\ \A i \in 1 .. n, j \in 1 .. m : Less(a[i], b[j])
    <2>1. InOrder(a)
      BY <1>1, <1>2, <1>4
    <2>2. ASSUME NEW i \in 1 .. m, NEW j \in 1 .. m, i < j PROVE Less(b[i], b[j])
      <3>1. n + i < n + j
        BY <1>1, <2>2
      <3> QED
        BY <1>1, <1>2, <1>4, <3>1
    <2>3. ASSUME NEW i \in 1 .. n, NEW j \in 1 .. m PROVE Less(a[i], b[j])
      <3>1. i < n + j
        BY <1>1
      <3> QED
        BY <1>1, <1>2, <1>4, <3>1
    <2> QED
      BY <1>2, <2>1, <2>2, <2>3
  <1>5. ASSUME InOrder(a), InOrder(b), \A i \in 1 .. n, j \in 1 .. m : Less(a[i], b[j]) PROVE InOrder(c)
    <2> SUFFICES ASSUME NEW i \in 1 .. Len(c), NEW j \in 1 .. Len(c), i < j PROVE Less(c[i], c[j])
      BY <1>2
    <2>1. CASE j \in 1 .. n
      <3>1. i \in 1 .. n
        BY <1>1, <2>1
      <3> QED
        BY <1>1, <1>2, <1>5, <2>1, <3>1
    <2>2. CASE j \notin 1 .. n
      <3>1. PICK l \in 1 .. m : j = n + l
        BY <1>1, <2>2
      <3>2. CASE i \in 1 .. n
        BY <1>1, <1>5, <3>1, <3>2
      <3>3. CASE i \notin 1 .. n
        <4>1. PICK k \in 1 .. m : i = n + k
          BY <1>1, <3>3
        <4>2. k < l
          BY <1>1, <3>1, <4>1
        <4> QED
          BY <1>1, <1>2, <1>5, <3>1, <4>1, <4>2
      <3> QED
        BY <3>2, <3>3
    <2> QED
      BY <2>1, <2>2
  <1> QED
    BY <1>4, <1>5

-----------------------------------------------------------------------------
(* Pages are counted in order.                                             *)

\* The pages counted by the walk and those of the report that is being written.
Found == refs \o Report(eic).refs

\* What was found lies behind the cursor, or a PMD that counts as done does.
AtCursor ==
  \/ Behind(Found, w.cur + eic.gpa_to_hva)
  \/ /\ pc = "pages" /\ ~Kvm /\ PmdOf(w.cur) = PmdOf(eic.last_va)
     /\ Behind(Found, (PmdOf(w.cur) + 1) * PmdPages)

\* During a read: what was found is in order and lies behind the parser of the
\* report, the cursor and the address at which the next turn starts.
KernelOrder ==
  /\ InOrder(Found) /\ Aligned(Found)
  /\ RunsSettle(eic.out \o eic.kpie, 0, refs)
  /\ parsed = 0 /\ va < end /\ Behind(refs, va)
  /\ eic.out \o eic.kpie # <<>> => Behind(Found, eic.next_hva)
  /\ pc = "range" \/ eic.out \o eic.kpie = <<>> => Behind(Found, w.start)
  /\ pc # "range" => w.start <= w.va_end
  /\ pc \in {"pages", "ptes"} => AtCursor
  /\ pc # "range" /\ eic.pie_read # 0 => Behind(Found, eic.restart_gpa + eic.gpa_to_hva)

\* While the report is parsed: what of it is not counted yet is in order, also with
\* what is counted.
ParseOrder ==
  /\ parsed <= Len(eic.out) /\ Decoded.late = {}
  /\ InOrder(Decoded.refs) /\ Aligned(Decoded.refs)
  /\ \A i \in 1 .. Len(refs), j \in Len(Upto(eic.out, parsed).refs) + 1 .. Len(Decoded.refs) :
       pagetype_size(refs[i].type) = pagetype_size(Decoded.refs[j].type) =>
         refs[i].va < Decoded.refs[j].va
  /\ eic.out # <<>> => Behind(refs, pos) /\ Behind(Decoded.refs, pos)
  /\ parsed # 0 /\ parsed < Len(eic.out) => va = Upto(eic.out, parsed).va
  /\ parsed = Len(eic.out) => Behind(refs, va)
  /\ \A i \in 1 .. Len(refs) : refs[i].va < end
  /\ RunsSettle(eic.out, parsed, refs)

\* Between the reads: what is counted is in order and lies behind the cursor.
UserOrder ==
  /\ refs \in Seq(Counted) /\ InOrder(refs) /\ Aligned(refs)
  /\ pc = "start" => refs = <<>>
  /\ pc = "vma" => Behind(refs, next_va)
  /\ pc = "loop" => Behind(refs, va)
  /\ pc \in AtVma => end <= TaskSize

OrderInv == UserOrder /\ (pc \in InTheKernel => KernelOrder) /\ (pc = "parse" => ParseOrder)

\* What is asked of huge pages: the address that is reported is aligned.
HugePagesAligned ==
  pc = "pages" =>
    /\ pud[PudOf(w.cur)] = "present" => (RoundDown(w.cur, PudPages) + eic.gpa_to_hva) % PudPages = 0
    /\ pmd[PmdOf(w.cur)] \in {"idle", "accessed"} =>
         (RoundDown(w.cur, PmdPages) + eic.gpa_to_hva) % PmdPages = 0

\* A page counted.
LEMMA CountsList ==
  ASSUME NEW type \in PageTypes, NEW at \in Nat
  PROVE  /\ Counts(type, at) \in Seq(Counted)
         /\ \/ Counts(type, at) = <<>>
            \/ Counts(type, at) = <<[type |-> type, va |-> at]>> /\ at % pagetype_size(type) = 0
  <1>1. [type |-> type, va |-> at] \in Counted
    BY DEF Counted
  <1> QED
    BY <1>1 DEF Counts

\* One page in order, aligned, and behind its end.
LEMMA OnePageOrder ==
  ASSUME NEW x \in Counted
  PROVE  /\ <<x>> \in Seq(Counted) /\ InOrder(<<x>>) /\ Behind(<<x>>, EndOf(x))
         /\ x.va % pagetype_size(x.type) = 0 => Aligned(<<x>>)
         /\ Len(<<x>>) = 1 /\ <<x>>[1] = x
  <1>1. <<x>> \in Seq(Counted) /\ Len(<<x>>) = 1 /\ <<x>>[1] = x
    OBVIOUS
  <1>2. \A i \in 1 .. 1 : i = 1
    OBVIOUS
  <1>3. InOrder(<<x>>)
    BY <1>1, <1>2 DEF InOrder
  <1>4. EndOf(x) \in Nat
    BY SizesOfPages DEF EndOf, Counted
  <1>5. Behind(<<x>>, EndOf(x))
    <2>1. EndOf(x) <= EndOf(x)
      BY <1>4
    <2> QED
      BY <1>1, <1>2, <2>1 DEF Behind
  <1>6. x.va % pagetype_size(x.type) = 0 => Aligned(<<x>>)
    BY <1>1, <1>2 DEF Aligned
  <1> QED
    BY <1>1, <1>3, <1>5, <1>6

\* A list that one page joins in whose page nothing of it ends.
LEMMA FoundGrows ==
  ASSUME NEW list \in Seq(Counted), InOrder(list), Aligned(list), NEW type \in PageTypes,
         NEW at \in Nat, NEW to \in Int, Behind(list, to), to < at + pagetype_size(type)
  PROVE  LET more == list \o Counts(type, at) IN
         InOrder(more) /\ Aligned(more) /\ Behind(more, at + pagetype_size(type))
  <1> DEFINE s == pagetype_size(type)
             x == [type |-> type, va |-> at]
             c == Counts(type, at)
  <1>1. s \in Nat \ {0}
    BY SizesOfPages
  <1>2. Behind(list, at + s)
    BY <1>1, BehindMore
  <1>3. CASE c = <<>>
    <2>1. list \o c = list
      BY <1>3
    <2> QED
      BY <1>2, <2>1
  <1>4. CASE c = <<x>> /\ at % s = 0
    <2>1. x \in Counted /\ x.type = type /\ x.va = at /\ EndOf(x) = at + s
      BY DEF Counted, EndOf
    <2> HIDE DEF x
    <2>2. <<x>> \in Seq(Counted) /\ InOrder(<<x>>) /\ Behind(<<x>>, at + s) /\ Aligned(<<x>>)
          /\ Len(<<x>>) = 1 /\ <<x>>[1] = x
      BY <1>4, <2>1, OnePageOrder
    <2>3. \A i \in 1 .. Len(list), j \in 1 .. Len(<<x>>) :
            pagetype_size(list[i].type) = pagetype_size(<<x>>[j].type) => list[i].va < <<x>>[j].va
      <3> SUFFICES ASSUME NEW i \in 1 .. Len(list), pagetype_size(list[i].type) = s
                   PROVE  list[i].va < at
        BY <2>1, <2>2
      <3>1. list[i].va \in Nat /\ list[i].va + s <= to
        <4>1. EndOf(list[i]) <= to
          BY DEF Behind
        <4> QED
          BY <4>1, PagesOfList DEF EndOf
      <3> QED
        BY <1>1, <3>1
    <2>4. PICK one \in Seq(Counted) : one = <<x>>
      BY <2>2
    <2>5. InOrder(list \o one) /\ Aligned(list \o one) /\ Behind(list \o one, at + s)
      <3>1. InOrder(list \o one)
        BY <2>2, <2>3, <2>4, OrderBoth
      <3>2. Aligned(list \o one)
        BY <2>2, <2>4, AlignedBoth
      <3>3. Behind(list \o one, at + s)
        BY <1>2, <2>2, <2>4, BehindBoth
      <3> QED
        BY <3>1, <3>2, <3>3
    <2>6. one = c
      BY <1>4, <2>4
    <2> QED
      BY <2>5, <2>6
  <1> QED
    BY <1>3, <1>4, CountsList

\* Pages behind an address do not reach over it.
LEMMA BehindSettles ==
  ASSUME NEW list, NEW at, Behind(list, at)
  PROVE  Settled(list, at)
  BY DEF Behind, Settled

\* Aligned pages do not reach over the beginning of an aligned one in which they end.
LEMMA AlignedSettles ==
  ASSUME NEW list \in Seq(Counted), Aligned(list), NEW s \in {1, PmdPages, PudPages},
         NEW at \in Nat, at % s = 0, NEW to \in Int, Behind(list, to), to < at + s
  PROVE  Settled(list, at)
  <1> SUFFICES ASSUME NEW i \in 1 .. Len(list), list[i].va < at
               PROVE  EndOf(list[i]) <= at
    BY DEF Settled
  <1>1. PICK t \in {1, PmdPages, PudPages} : t = pagetype_size(list[i].type)
    BY PagesOfList
  <1>2. list[i].va \in Nat /\ list[i].va % t = 0 /\ EndOf(list[i]) = list[i].va + t /\ EndOf(list[i]) <= to
    BY <1>1, PagesOfList DEF Aligned, EndOf, Behind
  <1>3. s \in Nat /\ t \in Nat
    BY StreamAssumption
  <1>4. list[i].va + t < at + s
    BY <1>2, <1>3
  <1>5. list[i].va + t <= at
    BY <1>2, <1>4, AlignedApart
  <1> QED
    BY <1>2, <1>5

\* The cursor is behind a PMD when it is in another one (mm_idle_pmd_entry).
LEMMA PmdNext ==
  ASSUME NEW a \in Nat, NEW b \in Int, b > a, PmdOf(b) # PmdOf(a)
  PROVE  (PmdOf(a) + 1) * PmdPages \in Nat /\ b >= (PmdOf(a) + 1) * PmdPages
  <1> DEFINE up == RoundDown(a, PmdPages) + PmdPages
  <1>1. PmdPages \in Nat \ {0} /\ b \in Nat
    BY StreamAssumption
  <1>2. up = (PmdOf(a) + 1) * PmdPages
    BY <1>1, PageEnd DEF PmdOf
  <1>3. up \in Nat
    BY <1>1, Rounds
  <1>4. b >= up
    <2> SUFFICES ASSUME b < up PROVE FALSE
      BY <1>1, <1>3
    <2>1. b <= RoundDown(a, PmdPages) + PmdPages /\ b >= a
      BY <1>1, <1>3
    <2>2. b = up \/ b \div PmdPages = a \div PmdPages
      BY <1>1, <2>1, NearPage
    <2> HIDE DEF up
    <2>3. b # up
      BY <1>1, <1>3
    <2> QED
      BY <2>2, <2>3 DEF PmdOf
  <1> QED
    BY <1>2, <1>3, <1>4

\* The page walk leaves alone what the reader knows and where the turn started.
LEMMA WalkUser ==
  ASSUME w \in Cursors, KvmPages \/ AddPte \/ MmPassOver \/ MmPudEntry \/ MmPmdEntry
  PROVE  /\ UNCHANGED userVars /\ w'.start = w.start /\ w'.va_end = w.va_end
         /\ w'.stop = w.stop /\ w'.end = w.end
  <1> DEFINE Stays == /\ w'.start = w.start /\ w'.va_end = w.va_end
                      /\ w'.stop = w.stop /\ w'.end = w.end
  <1>1. UNCHANGED userVars
    BY Zenon DEF KvmPages, AddPte, MmPassOver, MmPudEntry, MmPmdEntry
  <1> SUFFICES Stays
    BY <1>1
  <1>2. ASSUME NEW next, NEW over, GoOn(next, over) PROVE Stays
    <2>1. w' = [w EXCEPT !.cur = next]
      BY <1>2 DEF GoOn
    <2> QED
      BY <2>1 DEF Cursors
  <1>3. ASSUME NEW e, NEW a, NEW b, AddPmd(e, a, b) PROVE Stays
    <2>1. CASE EnterPtes(e, a, b)
      <3>1. w' = [w EXCEPT !.pte_end = b]
        BY <2>1 DEF EnterPtes
      <3> QED
        BY <3>1 DEF Cursors
    <2>2. CASE \E over : GoOn(b, over)
      BY <1>2, <2>2
    <2> QED
      BY <1>3, <2>1, <2>2, Zenon DEF AddPmd, AddHuge, AddHole
  <1>4. CASE KvmPages
    <2>1. (\E next, over : GoOn(next, over)) \/ (\E e, a, b : AddPmd(e, a, b))
      BY <1>4, Zenon DEF KvmPages
    <2> QED
      BY <1>2, <1>3, <2>1
  <1>5. CASE AddPte
    <2>1. w' = [w EXCEPT !.cur = @ + 1] \/ (\E next, over : GoOn(next, over))
      BY <1>5, Zenon DEF AddPte
    <2>2. CASE w' = [w EXCEPT !.cur = @ + 1]
      BY <2>2 DEF Cursors
    <2> QED
      BY <1>2, <2>1, <2>2
  <1>6. CASE MmPassOver
    <2>1. \E next, over : GoOn(next, over)
      BY <1>6, Zenon DEF MmPassOver
    <2> QED
      BY <1>2, <2>1
  <1>7. CASE MmPudEntry
    <2>1. w' = w
      BY <1>7, Zenon DEF MmPudEntry
    <2> QED
      BY <2>1
  <1>8. CASE MmPmdEntry
    <2>1. (\E next, over : GoOn(next, over)) \/ (\E e, a, b : AddPmd(e, a, b))
      BY <1>8, Zenon DEF MmPmdEntry
    <2> QED
      BY <1>2, <1>3, <2>1
  <1> QED
    BY <1>4, <1>5, <1>6, <1>7, <1>8

\* What the proofs about the kernel's steps find.
LEMMA InOrderTypes ==
  ASSUME Inv, OrderInv, pc \in InTheKernel
  PROVE  /\ KernelOrder /\ refs \in Seq(Counted) /\ Report(eic).refs \in Seq(Counted)
         /\ Found \in Seq(Counted) /\ Report(eic) \in Parsers
         /\ eic \in ControlBlocks /\ eic.gpa_to_hva \in Int /\ w \in Cursors
  <1>1. KernelOrder /\ refs \in Seq(Counted)
    BY DEF OrderInv, UserOrder
  <1>2. eic \in ControlBlocks /\ eic.gpa_to_hva \in Int /\ w \in Cursors
    BY InKernel
  <1>3. Report(eic) \in Parsers
    BY <1>2, ReportType
  <1>4. Report(eic).refs \in Seq(Counted)
    BY <1>3 DEF Parsers
  <1> QED
    BY <1>1, <1>2, <1>3, <1>4, Parts DEF Found

\* A step of the page walk leaves what the walk has counted alone.
LEMMA WalkFrameOrder ==
  ASSUME Inv, OrderInv, Walks, UNCHANGED userVars, w'.start = w.start, w'.va_end = w.va_end,
         NEW found, found = refs \o Report(eic').refs, InOrder(found), Aligned(found),
         RunsSettle(eic'.out \o eic'.kpie, 0, refs),
         eic'.out \o eic'.kpie # <<>> => Behind(found, eic'.next_hva),
         eic'.out \o eic'.kpie = <<>> => Behind(found, w.start),
         pc' \in {"pages", "ptes"} =>
           \/ Behind(found, w'.cur + eic.gpa_to_hva)
           \/ /\ pc' = "pages" /\ ~Kvm /\ PmdOf(w'.cur) = PmdOf(eic'.last_va)
              /\ Behind(found, (PmdOf(w'.cur) + 1) * PmdPages),
         eic'.pie_read # 0 => Behind(found, eic'.restart_gpa + eic.gpa_to_hva)
  PROVE  OrderInv'
  <1>1. /\ pc \in {"pages", "ptes"} /\ pc' \in {"pages", "ptes", "copy"}
        /\ eic'.gpa_to_hva = eic.gpa_to_hva /\ UNCHANGED layout
    BY DEF Walks
  <1>2. pc \in InTheKernel /\ pc \in AtVma
    BY <1>1 DEF InTheKernel, AtVma
  <1>3. UNCHANGED <<refs, va, end, parsed, next_va>>
    BY DEF userVars
  <1>4. KernelOrder /\ UserOrder
    BY <1>2 DEF OrderInv
  <1>5. UserOrder'
    <2>1. pc' \notin {"start", "vma", "loop"}
      BY <1>1
    <2> QED
      BY <1>2, <1>3, <1>4, <2>1 DEF UserOrder
  <1>6. Found' = found /\ (Kvm' <=> Kvm)
    BY <1>1, <1>3 DEF Found, Kvm
  <1>7. AtCursor' <=>
           \/ Behind(found, w'.cur + eic'.gpa_to_hva)
           \/ /\ pc' = "pages" /\ ~Kvm' /\ PmdOf(w'.cur) = PmdOf(eic'.last_va)
              /\ Behind(found, (PmdOf(w'.cur) + 1) * PmdPages)
    BY <1>6 DEF AtCursor
  <1>8. w.start <= w.va_end
    BY <1>1, <1>4 DEF KernelOrder
  <1>9. pc' \in {"pages", "ptes"} => AtCursor'
    BY <1>1, <1>6, <1>7
  <1>10. pc' # "range" /\ pc' # "parse"
    BY <1>1
  <1>11. parsed' = 0 /\ va' < end' /\ Behind(refs', va')
    BY <1>3, <1>4 DEF KernelOrder
  <1>12. KernelOrder'
    BY <1>1, <1>3, <1>6, <1>8, <1>9, <1>10, <1>11 DEF KernelOrder
  <1> QED
    BY <1>5, <1>10, <1>12 DEF OrderInv

\* Where the PMD at the cursor was not walked before, what was found is behind the
\* cursor.
LEMMA FreshBehind ==
  ASSUME AtCursor, Fresh
  PROVE  Behind(Found, w.cur + eic.gpa_to_hva)
  BY DEF AtCursor, Fresh

\* A step of the page walk that finds no page.
LEMMA NothingOrders ==
  ASSUME Inv, CursorInv, OrderInv, Walks, UNCHANGED userVars, w'.start = w.start,
         w'.va_end = w.va_end, w'.cur \in Int, eic' \in ControlBlocks, Nothing
  PROVE  OrderInv'
  <1> DEFINE g == eic.gpa_to_hva
             a == w.cur
             b == w'.cur
  <1>1. pc \in {"pages", "ptes"} /\ pc' \in {"pages", "ptes", "copy"}
    BY DEF Walks
  <1>2. /\ pc \in InTheKernel /\ a \in Nat /\ eic \in ControlBlocks /\ g \in Int
        /\ (~Kvm => g = 0)
    BY <1>1, InPages
  <1>3. /\ KernelOrder /\ Found \in Seq(Counted) /\ AtCursor
        /\ Inv /\ OrderInv
    BY <1>1, <1>2, InOrderTypes DEF KernelOrder
  <1>4. /\ eic'.out = eic.out /\ eic'.kpie = eic.kpie /\ eic'.next_hva = eic.next_hva
        /\ eic'.pie_read = eic.pie_read /\ Found = refs \o Report(eic').refs /\ Onward
    BY DEF Nothing, Found
  <1>5. /\ InOrder(Found) /\ Aligned(Found) /\ RunsSettle(eic'.out \o eic'.kpie, 0, refs)
        /\ eic'.out \o eic'.kpie # <<>> => Behind(Found, eic'.next_hva)
        /\ eic'.out \o eic'.kpie = <<>> => Behind(Found, w.start)
    BY <1>3, <1>4 DEF KernelOrder
  <1>6. eic'.pie_read # 0 => Behind(Found, eic'.restart_gpa + g)
    <2> SUFFICES ASSUME eic'.pie_read # 0 PROVE Behind(Found, eic'.restart_gpa + g)
      OBVIOUS
    <2>1. CASE eic'.restart_gpa = eic.restart_gpa
      <3>1. pc # "range"
        BY <1>1
      <3> QED
        BY <1>3, <1>4, <2>1, <3>1 DEF KernelOrder
    <2>2. CASE Kvm /\ eic'.restart_gpa >= a
      <3>1. Behind(Found, a + g)
        BY <1>3, <2>2, FreshBehind DEF Fresh
      <3>2. eic'.restart_gpa \in Nat
        BY DEF ControlBlocks
      <3>3. a + g <= eic'.restart_gpa + g /\ a + g \in Int /\ eic'.restart_gpa + g \in Int
        BY <1>2, <2>2, <3>2
      <3> QED
        BY <1>3, <3>1, <3>3, BehindMore
    <2> QED
      BY <1>4, <2>1, <2>2 DEF Onward
  <1>7. pc' \in {"pages", "ptes"} =>
           \/ Behind(Found, b + g)
           \/ /\ pc' = "pages" /\ ~Kvm /\ PmdOf(b) = PmdOf(eic'.last_va)
              /\ Behind(Found, (PmdOf(b) + 1) * PmdPages)
    <2>1. CASE pc' = "ptes"
      <3>1. Fresh /\ b = a
        BY <1>4, <2>1 DEF Onward
      <3> QED
        BY <1>3, <3>1, FreshBehind
    <2>2. CASE pc' = "pages"
      <3>1. b > a /\ eic'.last_va = eic.last_va
        BY <1>4, <2>2 DEF Onward
      <3>2. CASE Behind(Found, a + g)
        <4>1. a + g <= b + g /\ a + g \in Int /\ b + g \in Int
          BY <1>2, <3>1
        <4> QED
          BY <1>3, <3>2, <4>1, BehindMore
      <3>3. CASE ~Kvm /\ PmdOf(a) = PmdOf(eic.last_va) /\ Behind(Found, (PmdOf(a) + 1) * PmdPages)
        <4>1. CASE PmdOf(b) = PmdOf(a)
          BY <2>2, <3>1, <3>3, <4>1
        <4>2. CASE PmdOf(b) # PmdOf(a)
          <5>1. PICK up \in Nat : up = (PmdOf(a) + 1) * PmdPages /\ b >= up
            BY <1>2, <3>1, <4>2, PmdNext
          <5>2. b + g = b
            BY <1>2, <3>3
          <5>3. Behind(Found, b)
            BY <1>3, <3>3, <5>1, BehindMore
          <5> QED
            BY <5>2, <5>3
        <4> QED
          BY <4>1, <4>2
      <3> QED
        BY <1>3, <3>2, <3>3 DEF AtCursor
    <2> QED
      BY <2>1, <2>2
  <1> QED
    BY <1>3, <1>4, <1>5, <1>6, <1>7, WalkFrameOrder

\* What settles for two lists settles for each.
LEMMA SettledParts ==
  ASSUME NEW a \in Seq(Counted), NEW b \in Seq(Counted), NEW at
  PROVE  Settled(a \o b, at) <=> Settled(a, at) /\ Settled(b, at)
  <1> DEFINE c == a \o b
             n == Len(a)
             Is(x) == x.va < at => EndOf(x) <= at
  <1>1. /\ \A i \in 1 .. n : i \in 1 .. Len(c) /\ c[i] = a[i]
        /\ \A i \in 1 .. Len(b) : n + i \in 1 .. Len(c) /\ c[n + i] = b[i]
        /\ \A k \in 1 .. Len(c) : k \in 1 .. n \/ \E i \in 1 .. Len(b) : k = n + i
    BY Parts
  <1>2. /\ Settled(c, at) <=> \A i \in 1 .. Len(c) : Is(c[i])
        /\ Settled(a, at) <=> \A i \in 1 .. n : Is(a[i])
        /\ Settled(b, at) <=> \A i \in 1 .. Len(b) : Is(b[i])
    BY DEF Settled
  <1> HIDE DEF c, n, Is
  <1>3. Settled(c, at) <=> Settled(a, at) /\ Settled(b, at)
    BY <1>1, <1>2
  <1> QED
    BY <1>3 DEF c

\* A step of the page walk that finds a page.
LEMMA FindsOrders ==
  ASSUME Inv, CursorInv, OrderInv, HugePagesAligned, Walks, UNCHANGED userVars,
         w'.start = w.start, w'.va_end = w.va_end, w'.cur \in Int,
         NEW type \in PageTypes, Finds(type)
  PROVE  OrderInv'
  <1> DEFINE g == eic.gpa_to_hva
             a == w.cur
             b == w'.cur
             size == pagetype_size(type)
             down == RoundDown(a, size)
             at == down + g
             behind == down + size
             found == refs \o Report(eic').refs
  <1>1. pc \in {"pages", "ptes"} /\ pc' \in {"pages", "ptes", "copy"} /\ layout \in Layouts
    BY DEF Walks, Inv, TypeInv
  <1>2. /\ pc \in InTheKernel /\ a \in Nat /\ eic \in ControlBlocks /\ g \in Int
        /\ (~Kvm => g = 0) /\ Mapped(a, eic)
    BY <1>1, InPages
  <1>3. /\ KernelOrder /\ Found \in Seq(Counted) /\ AtCursor
        /\ refs \in Seq(Counted) /\ Report(eic).refs \in Seq(Counted)
    BY <1>1, <1>2, InOrderTypes DEF KernelOrder
  <1>4. size \in Nat \ {0} /\ size \in {1, PmdPages, PudPages}
    BY SizesOfPages
  <1>5. at \in Nat
    BY <1>2, ReportedAt DEF Mapped
  <1>6. /\ Fresh /\ (pc' # "copy" => Ahead(size)) /\ Adds(eic, eic', a, type)
        /\ type \in PteTypes \cup HoleTypes \/ LargePage(type)
    BY Zenon DEF Finds
  <1>7. Ahead(size) =>
          \/ b >= behind
          \/ pc' = "pages" /\ ~Kvm /\ PmdOf(b) = PmdOf(eic'.last_va) /\ behind = (PmdOf(b) + 1) * PmdPages
    BY Zenon DEF Ahead
  <1>8. \/ /\ eic'.out = eic.out /\ eic'.kpie = eic.kpie
           /\ Report(eic') = Report(eic) /\ eic'.next_hva = eic.next_hva /\ eic'.pie_read = eic.pie_read
           /\ eic'.restart_gpa = behind \/ eic'.restart_gpa = a
        \/ /\ eic'.next_hva = at + size /\ eic'.restart_gpa = behind
           /\ Report(eic').refs = Report(eic).refs \o Counts(type, at)
           /\ type \in HoleTypes => down = a
           /\ eic'.out \o eic'.kpie # <<>> /\ NewRun(eic, eic', at)
    BY <1>6, Zenon DEF Adds
  <1>9. Behind(Found, a + g)
    BY <1>3, <1>6, FreshBehind
  <1>10. down \in Nat /\ a < behind
    BY <1>2, <1>4, Rounds
  <1>11. type \in PteTypes \cup HoleTypes \/ (pc = "pages" /\ at % size = 0)
    <2> SUFFICES ASSUME LargePage(type) PROVE pc = "pages" /\ at % size = 0
      BY <1>6
    <2>1. CASE type = "PUD_PRESENT"
      <3>1. size = PudPages /\ type \notin PmdTypes
        BY <2>1, TypeSizes DEF PmdTypes
      <3> QED
        BY <3>1 DEF LargePage, HugePagesAligned
    <2>2. CASE type \in PmdTypes
      <3>1. size = PmdPages /\ type # "PUD_PRESENT"
        BY <2>2, TypeSizes DEF PmdTypes
      <3> QED
        BY <3>1 DEF LargePage, HugePagesAligned
    <2> QED
      BY <2>1, <2>2 DEF LargePage
  <1>12. type \in PteTypes => size = 1
    BY TypeSizes
  <1>13. refs \o Report(eic).refs = Found
    BY DEF Found
  <1> HIDE DEF size, down
  <1>14. at + size = behind + g /\ a + g < at + size /\ behind + g \in Int /\ a + g \in Int
    BY <1>2, <1>4, <1>10
  <1>15. ASSUME NEW list \in Seq(Counted), Behind(list, at + size),
                pc' \in {"pages", "ptes"}, Ahead(size)
         PROVE  \/ Behind(list, b + g)
                \/ /\ pc' = "pages" /\ ~Kvm /\ PmdOf(b) = PmdOf(eic'.last_va)
                   /\ Behind(list, (PmdOf(b) + 1) * PmdPages)
    <2>1. CASE b >= behind
      <3>1. behind + g <= b + g /\ b + g \in Int
        BY <1>2, <1>4, <1>10, <2>1
      <3> QED
        BY <1>14, <1>15, <3>1, BehindMore
    <2>2. CASE pc' = "pages" /\ ~Kvm /\ PmdOf(b) = PmdOf(eic'.last_va) /\ behind = (PmdOf(b) + 1) * PmdPages
      <3>1. at + size = behind
        BY <1>2, <1>4, <1>10, <2>2
      <3> QED
        BY <1>15, <2>2, <3>1
    <2> QED
      BY <1>7, <1>15, <2>1, <2>2
  <1>16. CASE /\ eic'.out = eic.out /\ eic'.kpie = eic.kpie
              /\ Report(eic') = Report(eic) /\ eic'.next_hva = eic.next_hva /\ eic'.pie_read = eic.pie_read
              /\ eic'.restart_gpa = behind \/ eic'.restart_gpa = a
    <2>1. found = Found
      BY <1>13, <1>16
    <2>2. Behind(Found, at + size)
      BY <1>3, <1>9, <1>14, BehindMore
    <2>3. Behind(Found, eic'.restart_gpa + g)
      BY <1>9, <1>14, <1>16, <2>2
    <2>4. /\ InOrder(Found) /\ Aligned(Found) /\ RunsSettle(eic'.out \o eic'.kpie, 0, refs)
          /\ eic'.out \o eic'.kpie # <<>> => Behind(Found, eic'.next_hva)
          /\ eic'.out \o eic'.kpie = <<>> => Behind(Found, w.start)
      BY <1>3, <1>16 DEF KernelOrder
    <2>5. pc' \in {"pages", "ptes"} =>
           \/ Behind(Found, b + g)
           \/ /\ pc' = "pages" /\ ~Kvm /\ PmdOf(b) = PmdOf(eic'.last_va)
              /\ Behind(Found, (PmdOf(b) + 1) * PmdPages)
      BY <1>3, <1>6, <1>15, <2>2
    <2> QED
      BY <2>1, <2>3, <2>4, <2>5, WalkFrameOrder
  <1>17. CASE /\ eic'.next_hva = at + size /\ eic'.restart_gpa = behind
              /\ Report(eic').refs = Report(eic).refs \o Counts(type, at)
              /\ type \in HoleTypes => down = a
              /\ eic'.out \o eic'.kpie # <<>> /\ NewRun(eic, eic', at)
    <2>1. Counts(type, at) \in Seq(Counted)
      BY <1>5, CountsList
    <2>2. found = Found \o Counts(type, at)
      <3>1. PICK r \in Seq(Counted), s \in Seq(Counted), c \in Seq(Counted) :
              r = refs /\ s = Report(eic).refs /\ c = Counts(type, at)
        BY <1>3, <2>1
      <3>2. r \o (s \o c) = (r \o s) \o c
        OBVIOUS
      <3>3. found = r \o (s \o c)
        BY <1>17, <3>1, Zenon
      <3> QED
        BY <1>13, <3>1, <3>2, <3>3, Zenon
    <2>3. PICK list \in Seq(Counted) : list = Found
      BY <1>3
    <2>4. InOrder(list) /\ Aligned(list)
      BY <1>3, <2>3 DEF KernelOrder
    <2>5. LET more == list \o Counts(type, at) IN
          InOrder(more) /\ Aligned(more) /\ Behind(more, at + pagetype_size(type))
      BY <1>5, <1>9, <1>14, <2>3, <2>4, FoundGrows DEF size
    <2>6. InOrder(found) /\ Aligned(found) /\ Behind(found, at + size)
      BY <2>2, <2>3, <2>5, Zenon DEF size
    <2>7. found \in Seq(Counted)
      BY <1>3, <2>1, <2>2, Parts
    <2>8. Settled(list, at)
      <3>1. CASE at = a + g
        BY <1>9, <2>3, <3>1, BehindSettles
      <3>2. CASE at % size = 0
        BY <1>4, <1>5, <1>9, <1>14, <2>3, <2>4, <3>2, AlignedSettles
      <3>3. at = a + g \/ at % size = 0
        <4>1. type \in PteTypes => at % size = 0
          BY <1>5, <1>12
        <4>2. type \in HoleTypes => at = a + g
          BY <1>17
        <4> QED
          BY <1>11, <4>1, <4>2
      <3> QED
        BY <3>1, <3>2, <3>3
    <2>9. Settled(refs, at) /\ Settled(Report(eic).refs, at)
      <3>1. PICK r \in Seq(Counted), s \in Seq(Counted) : r = refs /\ s = Report(eic).refs
        BY <1>3
      <3>2. list = r \o s
        BY <1>13, <2>3, <3>1
      <3>3. Settled(r, at) /\ Settled(s, at)
        BY <2>8, <3>2, SettledParts
      <3> QED
        BY <3>1, <3>3
    <2>10. RunsSettle(eic'.out \o eic'.kpie, 0, refs)
      <3>1. RunsSettle(eic.out \o eic.kpie, 0, refs)
        BY <1>3 DEF KernelOrder
      <3> QED
        BY <1>17, <2>9, <3>1, Zenon DEF NewRun
    <2>11. Behind(found, eic'.restart_gpa + g) /\ Behind(found, eic'.next_hva)
      BY <1>14, <1>17, <2>6
    <2>12. pc' \in {"pages", "ptes"} =>
           \/ Behind(found, b + g)
           \/ /\ pc' = "pages" /\ ~Kvm /\ PmdOf(b) = PmdOf(eic'.last_va)
              /\ Behind(found, (PmdOf(b) + 1) * PmdPages)
      BY <1>6, <1>15, <2>6, <2>7
    <2> HIDE DEF found
    <2>13. found = refs \o Report(eic').refs
      BY DEF found
    <2> QED
      BY <1>17, <2>6, <2>10, <2>11, <2>12, <2>13, WalkFrameOrder
  <1> QED
    BY <1>8, <1>16, <1>17

\* Every step of the page walk keeps what was found in order.
LEMMA WalkOrders ==
  ASSUME Inv, Inv', CursorInv, OrderInv, HugePagesAligned,
         KvmPages \/ AddPte \/ MmPassOver \/ MmPudEntry \/ MmPmdEntry
  PROVE  OrderInv'
  <1>1. Walks /\ PageStep
    BY StepWalks, WalkTogether
  <1>2. w \in Cursors /\ eic' \in ControlBlocks /\ w' \in Cursors
    BY DEF Inv, TypeInv
  <1>3. UNCHANGED userVars /\ w'.start = w.start /\ w'.va_end = w.va_end
    BY <1>2, WalkUser
  <1>4. w'.cur \in Int
    BY <1>2 DEF Cursors
  <1>5. CASE Nothing
    BY <1>1, <1>2, <1>3, <1>4, <1>5, NothingOrders
  <1>6. CASE \E type \in PageTypes : Finds(type)
    BY <1>1, <1>2, <1>3, <1>4, <1>6, FindsOrders
  <1> QED
    BY <1>1, <1>5, <1>6 DEF PageStep

\* A turn that starts: nothing is found yet, and what was found lies behind.
LEMMA TurnOrders ==
  ASSUME Inv, CursorInv, OrderInv, pc = "range", UNCHANGED <<userVars, layout>>,
         pc' \in {"copy", "pages"}, eic'.out = eic.out, eic'.kpie = eic.kpie,
         eic'.next_hva = eic.next_hva, eic'.pie_read = eic.pie_read,
         w'.start = w.start, w.start <= w'.va_end,
         pc' = "pages" => w'.cur + eic'.gpa_to_hva = w.start
  PROVE  OrderInv'
  <1>1. pc \in InTheKernel /\ pc \in AtVma
    BY DEF InTheKernel, AtVma
  <1>2. UNCHANGED <<refs, va, end, parsed, next_va>>
    BY DEF userVars
  <1>3. KernelOrder /\ UserOrder /\ Behind(Found, w.start)
    BY <1>1 DEF OrderInv, KernelOrder
  <1>4. eic.pie_read = 0
    BY DEF CursorInv, Together
  <1>5. pc' \notin {"start", "vma", "loop", "range", "ptes", "parse"}
    OBVIOUS
  <1>6. UserOrder'
    BY <1>1, <1>2, <1>3, <1>5 DEF UserOrder
  <1>7. Found' = Found
    BY <1>2 DEF Found, Report
  <1>8. pc' = "pages" => AtCursor'
    BY <1>3, <1>7 DEF AtCursor
  <1>9. parsed' = 0 /\ va' < end' /\ Behind(refs', va')
    BY <1>2, <1>3 DEF KernelOrder
  <1>10. eic'.out \o eic'.kpie = eic.out \o eic.kpie
    OBVIOUS
  <1>11. KernelOrder'
    BY <1>2, <1>3, <1>4, <1>5, <1>7, <1>8, <1>9, <1>10 DEF KernelOrder
  <1> QED
    BY <1>5, <1>6, <1>11 DEF OrderInv

\* The search for a range keeps what was found in order.
LEMMA RangeOrders ==
  ASSUME Inv, CursorInv, OrderInv, MmRange \/ KvmRange
  PROVE  OrderInv'
  <1>1. pc = "range" /\ UNCHANGED <<layout, userVars>>
    BY Zenon DEF MmRange, KvmRange
  <1>2. pc \in InTheKernel
    BY <1>1 DEF InTheKernel
  <1>3. /\ eic \in ControlBlocks /\ w \in Cursors /\ w.start \in Int /\ w.end \in Nat
        /\ layout \in Layouts /\ (~Kvm => eic.gpa_to_hva = 0)
    BY <1>2, InKernel
  <1>4. w.start < w.end
    BY <1>1 DEF CursorInv, Together
  <1> DEFINE Same(e) == /\ e.out = eic.out /\ e.kpie = eic.kpie
                        /\ e.next_hva = eic.next_hva /\ e.pie_read = eic.pie_read
  <1>5. ASSUME NEW e, Same(e), NEW to, ToCopy(e, to), w.start <= to
        PROVE  OrderInv'
    <2>1. pc' = "copy" /\ eic' = e /\ w' = [w EXCEPT !.va_end = to]
      BY <1>5 DEF ToCopy
    <2>2. w'.start = w.start /\ w'.va_end = to
      BY <1>3, <2>1 DEF Cursors
    <2> QED
      BY <1>1, <1>5, <2>1, <2>2, TurnOrders
  <1>6. ASSUME NEW e, Same(e), NEW cur, NEW stop, NEW to, ToPages(e, cur, stop, to),
               w.start <= to, cur + e.gpa_to_hva = w.start
        PROVE  OrderInv'
    <2>1. pc' = "pages" /\ eic' = e /\ w' = [w EXCEPT !.cur = cur, !.stop = stop, !.va_end = to]
      BY <1>6 DEF ToPages
    <2>2. w'.start = w.start /\ w'.va_end = to /\ w'.cur = cur
      BY <1>3, <2>1 DEF Cursors
    <2> QED
      BY <1>1, <1>6, <2>1, <2>2, TurnOrders
  <1>7. ASSUME NEW e, NEW at, NEW g, NEW last,
               e = [eic EXCEPT !.restart_gpa = at, !.gpa_to_hva = g, !.last_va = last, !.full = FALSE]
        PROVE  Same(e) /\ e.gpa_to_hva = g
    BY <1>3, <1>7 DEF ControlBlocks
  <1> HIDE DEF Same
  <1>8. CASE MmRange
    <2> DEFINE e == [eic EXCEPT !.full = FALSE]
    <2>1. /\ ~Kvm
          /\ \/ \E at : ToCopy(Restart(at), w.end)
             \/ ToPages(e, w.start, w.end, w.end)
      BY <1>8, Zenon DEF MmRange
    <2>2. CASE \E at : ToCopy(Restart(at), w.end)
      <3>1. PICK at : ToCopy(Restart(at), w.end)
        BY <2>2
      <3> DEFINE f == Restart(at)
      <3>2. f = [eic EXCEPT !.restart_gpa = at, !.gpa_to_hva = eic.gpa_to_hva,
                            !.last_va = eic.last_va, !.full = FALSE]
        BY <1>3, CursorUpdates, Zenon DEF Restart
      <3>3. ToCopy(f, w.end)
        BY <3>1
      <3> HIDE DEF f
      <3>4. Same(f)
        BY <1>7, <3>2
      <3> QED
        BY <1>3, <1>4, <1>5, <3>3, <3>4
    <2>3. CASE ToPages(e, w.start, w.end, w.end)
      <3>1. e = [eic EXCEPT !.restart_gpa = eic.restart_gpa, !.gpa_to_hva = eic.gpa_to_hva,
                            !.last_va = eic.last_va, !.full = FALSE]
        BY <1>3, CursorUpdates, Zenon
      <3> HIDE DEF e
      <3>2. Same(e) /\ e.gpa_to_hva = eic.gpa_to_hva
        BY <1>7, <3>1
      <3>3. w.start + e.gpa_to_hva = w.start /\ w.start <= w.end
        BY <1>3, <1>4, <2>1, <3>2
      <3> QED
        BY <1>6, <2>3, <3>2, <3>3
    <2> QED
      BY <2>1, <2>2, <2>3
  <1>9. CASE KvmRange
    <2> DEFINE noSlot == [Restart(TaskSize) EXCEPT !.gpa_to_hva = 0]
               above == LowestOf(Above(w.start))
    <2>1. /\ Kvm
          /\ \/ ToCopy(noSlot, w.end)
             \/ Above(w.start) # {} /\ ToCopy([noSlot EXCEPT !.restart_gpa = above], above)
             \/ \E s \in Slot(w.start) :
                  LET e == [eic EXCEPT !.gpa_to_hva = s.start - s.gpa, !.full = FALSE] IN
                  \/ ToPages(e, w.start - e.gpa_to_hva, s.end - e.gpa_to_hva, s.end)
                  \/ ToCopy(e, s.end)
      <3> HIDE DEF ToCopy, ToPages
      <3> QED
        BY <1>9, Zenon DEF KvmRange
    <2>2. Restart(TaskSize) = [eic EXCEPT !.restart_gpa = TaskSize, !.full = FALSE]
      BY DEF Restart
    <2>3. CASE ToCopy(noSlot, w.end)
      <3>1. noSlot = [eic EXCEPT !.restart_gpa = TaskSize, !.gpa_to_hva = 0, !.last_va = eic.last_va, !.full = FALSE]
        BY <1>3 DEF Restart, ControlBlocks
      <3> HIDE DEF noSlot
      <3>2. Same(noSlot)
        BY <1>7, <3>1
      <3> QED
        BY <1>3, <1>4, <1>5, <2>3, <3>2
    <2>4. CASE Above(w.start) # {} /\ ToCopy([noSlot EXCEPT !.restart_gpa = above], above)
      <3>1. above \in Nat /\ w.start <= above
        <4>1. Above(w.start) \subseteq Nat /\ \A x \in Above(w.start) : w.start < x
          <5>1. \A s \in layout.slots : s.start \in Nat
            BY <1>3, LayoutTypes DEF SlotType
          <5> QED
            BY <1>3, <5>1 DEF Above
        <4>2. above \in Above(w.start)
          BY <2>4, <4>1, LowestIsOne
        <4> HIDE DEF above
        <4> QED
          BY <1>3, <4>1, <4>2
      <3> HIDE DEF above
      <3> DEFINE e == [noSlot EXCEPT !.restart_gpa = above]
      <3>2. e = [eic EXCEPT !.restart_gpa = above, !.gpa_to_hva = 0, !.last_va = eic.last_va, !.full = FALSE]
        BY <1>3 DEF Restart, ControlBlocks
      <3>3. ToCopy(e, above)
        BY <2>4
      <3> HIDE DEF e
      <3>4. Same(e)
        BY <1>7, <3>2
      <3> QED
        BY <1>5, <3>1, <3>3, <3>4
    <2>5. ASSUME NEW s \in Slot(w.start),
                  LET e == [eic EXCEPT !.gpa_to_hva = s.start - s.gpa, !.full = FALSE] IN
                  \/ ToPages(e, w.start - e.gpa_to_hva, s.end - e.gpa_to_hva, s.end)
                  \/ ToCopy(e, s.end)
          PROVE  OrderInv'
      <3> DEFINE g == s.start - s.gpa
                 e == [eic EXCEPT !.gpa_to_hva = g, !.full = FALSE]
      <3>2. s \in SlotType /\ w.start \in s.start .. s.end - 1
        BY <1>3, LayoutTypes DEF Slot, Within
      <3>3. g \in Int /\ w.start <= s.end
        BY <1>3, <3>2, WalkAssumption DEF SlotType
      <3>4. \/ ToPages(e, w.start - e.gpa_to_hva, s.end - e.gpa_to_hva, s.end)
            \/ ToCopy(e, s.end)
        BY <2>5, Zenon
      <3>5. e = [eic EXCEPT !.restart_gpa = eic.restart_gpa, !.gpa_to_hva = g,
                            !.last_va = eic.last_va, !.full = FALSE]
        BY <1>3, CursorUpdates, Zenon
      <3> HIDE DEF e, g
      <3>6. Same(e) /\ e.gpa_to_hva = g
        BY <1>3, <3>5 DEF Same, ControlBlocks
      <3>7. (w.start - e.gpa_to_hva) + e.gpa_to_hva = w.start
        BY <1>3, <3>3, <3>6
      <3>8. CASE ToCopy(e, s.end)
        BY <1>5, <3>3, <3>6, <3>8
      <3>9. CASE ToPages(e, w.start - e.gpa_to_hva, s.end - e.gpa_to_hva, s.end)
        BY <1>6, <3>3, <3>6, <3>7, <3>9
      <3> QED
        BY <3>4, <3>8, <3>9
    <2> QED
      BY <2>1, <2>3, <2>4, <2>5
  <1> QED
    BY <1>8, <1>9

\* The SET_HVA that ept_idle_copy_user() may add.
LEMMA TailItem ==
  ASSUME NEW e, Fit(e), NEW start \in Int, NEW at \in Nat
  PROVE  LET f == WithTailHole(e, start, at) IN
         \/ f = e
         \/ \E s \in Nat : /\ s >= at /\ s > e.next_hva /\ f.out = e.out
                           /\ f.kpie = Append(e.kpie, SetHva(s)) /\ f.next_hva = s
                           /\ (s = start \/ (e.pie_read = 0 /\ s = at))
  <1> DEFINE s == IF e.pie_read = 0 /\ start < at THEN at ELSE start
             f == WithTailHole(e, start, at)
             reported == eic_report_addr(e, s)
  <1>1. e \in ControlBlocks /\ e.pie_read = BytesOf(e.kpie)
    BY DEF Fit
  <1>2. CASE s >= at /\ s > e.next_hva
    <2>0. s = start \/ (e.pie_read = 0 /\ s = at)
      OBVIOUS
    <2>1. s \in Nat
      BY <1>2
    <2>2. f = [reported EXCEPT !.next_hva = s]
      BY <1>2 DEF WithTailHole
    <2> HIDE DEF s
    <2>3. /\ reported \in ControlBlocks
          /\ reported = [e EXCEPT !.kpie = Append(e.kpie, SetHva(s)), !.pie_read = e.pie_read + AddrBytes + 1]
      BY <1>1, <2>1, ReportAddr
    <2> HIDE DEF reported, f
    <2>4. reported.kpie = Append(e.kpie, SetHva(s)) /\ reported.out = e.out
      BY <1>1, <2>3 DEF ControlBlocks
    <2>5. f.kpie = Append(e.kpie, SetHva(s)) /\ f.out = e.out /\ f.next_hva = s
      BY <2>1, <2>2, <2>3, <2>4 DEF ControlBlocks
    <2>6. \E x \in Nat : /\ x >= at /\ x > e.next_hva /\ f.out = e.out
                         /\ f.kpie = Append(e.kpie, SetHva(x)) /\ f.next_hva = x
                         /\ (x = start \/ (e.pie_read = 0 /\ x = at))
      BY <1>2, <2>0, <2>1, <2>5
    <2> QED
      BY <2>6, Zenon DEF f
  <1>3. CASE ~(s >= at /\ s > e.next_hva)
    <2>1. f = e
      BY <1>3 DEF WithTailHole
    <2> QED
      BY <2>1
  <1> QED
    BY <1>2, <1>3

\* What reaches the reader is the report, and maybe an address behind it.
LEMMA CopyItems ==
  ASSUME NEW e, Fit(e), NEW start \in Int, NEW at \in Nat
  PROVE  LET r == ept_idle_copy_user(e, start, at) IN
         /\ \/ r.eic.out = e.out \o e.kpie /\ r.eic.next_hva = e.next_hva
            \/ \E s \in Nat : /\ s >= at /\ s > e.next_hva /\ r.eic.next_hva = s
                              /\ r.eic.out = Append(e.out \o e.kpie, SetHva(s))
                              /\ (s = start \/ (e.pie_read = 0 /\ s = at))
         /\ ~r.stop => /\ r.eic.kpie = <<>> /\ e.pie_read # 0
                       /\ r.eic.restart_gpa = e.restart_gpa /\ ~NoRoom(r.eic)
  <1> DEFINE tailed == WithTailHole(e, start, at)
             copied == CopyOut(tailed)
             again  == init_ept_idle_ctrl_buffer(copied)
             r == ept_idle_copy_user(e, start, at)
  <1>1. e \in ControlBlocks /\ e.pie_read = BytesOf(e.kpie) /\ e.kpie \in Seq(Items) /\ e.out \in Seq(Items)
    BY DEF Fit, ControlBlocks
  <1>2. /\ tailed \in ControlBlocks /\ tailed.pie_read = BytesOf(tailed.kpie)
        /\ tailed.restart_gpa = e.restart_gpa
    BY TailFits, Zenon
  <1>3. \/ tailed = e
        \/ \E s \in Nat : /\ s >= at /\ s > e.next_hva /\ tailed.out = e.out
                          /\ tailed.kpie = Append(e.kpie, SetHva(s)) /\ tailed.next_hva = s
                          /\ (s = start \/ (e.pie_read = 0 /\ s = at))
    BY TailItem, Zenon
  <1>4. r = IF tailed.pie_read = 0 THEN [eic |-> e, stop |-> TRUE]
            ELSE IF e.pie_read = 0 \/ copied.bytes_copied >= copied.buf_size
              THEN [eic |-> copied, stop |-> TRUE]
            ELSE [eic |-> again, stop |-> NoRoom(again)]
    BY Zenon DEF ept_idle_copy_user
  <1> HIDE DEF tailed, r
  <1>5. copied.out = tailed.out \o tailed.kpie /\ copied.next_hva = tailed.next_hva
    BY <1>2 DEF CopyOut, ControlBlocks
  <1>6. /\ again.out = copied.out /\ again.next_hva = copied.next_hva /\ again.kpie = <<>>
        /\ again.restart_gpa = tailed.restart_gpa
    <2>1. again = [copied EXCEPT !.kpie = <<>>, !.pie_read = 0, !.pie_read_max =
                     Least(KBufSize, copied.buf_size - copied.bytes_copied) - (AddrBytes + 1)]
      BY Zenon DEF init_ept_idle_ctrl_buffer
    <2>2. copied = [tailed EXCEPT !.out = tailed.out \o tailed.kpie,
                                  !.bytes_copied = tailed.bytes_copied + tailed.pie_read]
      BY DEF CopyOut
    <2> HIDE DEF again, copied
    <2>3. \E x, y : copied = [tailed EXCEPT !.out = x, !.bytes_copied = y]
      BY <2>2, Zenon
    <2>4. \E m : again = [copied EXCEPT !.kpie = <<>>, !.pie_read = 0, !.pie_read_max = m]
      BY <2>1, Zenon
    <2> QED
      BY <1>2, <2>3, <2>4 DEF ControlBlocks
  <1> HIDE DEF again, copied
  <1>7. CASE tailed.pie_read = 0
    <2>1. r.eic = e /\ r.stop = TRUE
      BY <1>4, <1>7
    <2>2. tailed.kpie = <<>>
      BY <1>2, <1>7, BytesNumber DEF ControlBlocks
    <2>3. tailed = e
      <3>1. ASSUME NEW list \in Seq(Items), NEW x PROVE Append(list, x) # <<>>
        <4>1. Len(Append(list, x)) = Len(list) + 1 /\ Len(list) \in Nat /\ Len(<<>>) = 0
          OBVIOUS
        <4> QED
          BY <4>1
      <3> QED
        BY <1>1, <1>3, <2>2, <3>1
    <2>4. e.out \o e.kpie = e.out
      <3>1. \A list \in Seq(Items) : list \o <<>> = list
        OBVIOUS
      <3> QED
        BY <1>1, <2>2, <2>3, <3>1
    <2> QED
      BY <2>1, <2>4, Zenon DEF r
  <1>8. ASSUME r.eic.out = tailed.out \o tailed.kpie, r.eic.next_hva = tailed.next_hva
        PROVE  \/ r.eic.out = e.out \o e.kpie /\ r.eic.next_hva = e.next_hva
               \/ \E s \in Nat : /\ s >= at /\ s > e.next_hva /\ r.eic.next_hva = s
                                 /\ r.eic.out = Append(e.out \o e.kpie, SetHva(s))
                                 /\ (s = start \/ (e.pie_read = 0 /\ s = at))
    <2>1. CASE tailed = e
      BY <1>8, <2>1
    <2>2. ASSUME NEW s \in Nat, s >= at, s > e.next_hva, tailed.out = e.out,
                 tailed.kpie = Append(e.kpie, SetHva(s)), tailed.next_hva = s
          PROVE  r.eic.next_hva = s /\ r.eic.out = Append(e.out \o e.kpie, SetHva(s))
      <3>1. PICK a \in Seq(Items), b \in Seq(Items) : a = e.out /\ b = e.kpie
        BY <1>1
      <3>2. a \o Append(b, SetHva(s)) = Append(a \o b, SetHva(s))
        BY AppendBehind
      <3> QED
        BY <1>8, <2>2, <3>1, <3>2, Zenon
    <2> QED
      BY <1>3, <2>1, <2>2, Zenon
  <1>9. CASE tailed.pie_read # 0 /\ (e.pie_read = 0 \/ copied.bytes_copied >= copied.buf_size)
    <2>1. r.eic = copied /\ r.stop = TRUE
      BY <1>4, <1>9
    <2>2. r.eic.out = tailed.out \o tailed.kpie /\ r.eic.next_hva = tailed.next_hva
      BY <1>5, <2>1
    <2> QED
      BY <1>8, <2>1, <2>2, Zenon DEF r
  <1>10. CASE tailed.pie_read # 0 /\ ~(e.pie_read = 0 \/ copied.bytes_copied >= copied.buf_size)
    <2>1. r.eic = again /\ r.stop = NoRoom(again)
      BY <1>4, <1>10
    <2>2. /\ r.eic.out = tailed.out \o tailed.kpie /\ r.eic.next_hva = tailed.next_hva /\ r.eic.kpie = <<>>
          /\ r.eic.restart_gpa = e.restart_gpa
      BY <1>2, <1>5, <1>6, <2>1
    <2>3. ~r.stop => ~NoRoom(r.eic)
      BY <2>1, Zenon
    <2> QED
      BY <1>8, <1>10, <2>2, <2>3, Zenon DEF r
  <1> QED
    BY <1>7, <1>9, <1>10

\* The parser of no items.
LEMMA UptoNothing ==
  ASSUME NEW items \in Seq(Items)
  PROVE  Upto(items, 0) = Start(0) /\ Upto(items, 0).refs = <<>>
  <1>1. SubSeq(items, 1, 0) = <<>>
    OBVIOUS
  <1>2. Upto(items, 0) = Start(0)
    BY <1>1, ParseNothing DEF Upto
  <1> QED
    BY <1>2 DEF Start

\* Pages behind a cursor begin in front of what the cursor is in front of.
LEMMA BehindFront ==
  ASSUME NEW list \in Seq(Counted), NEW a \in Int, NEW b \in Int, a <= b, Behind(list, a)
  PROVE  \A i \in 1 .. Len(list) : list[i].va < b
  <1> SUFFICES ASSUME NEW i \in 1 .. Len(list) PROVE list[i].va < b
    OBVIOUS
  <1>1. list[i].va \in Nat /\ EndOf(list[i]) \in Nat /\ list[i].va < EndOf(list[i])
    BY PagesOfList
  <1>2. EndOf(list[i]) <= a
    BY DEF Behind
  <1> QED
    BY <1>1, <1>2

\* A copy keeps what was found in order, for the next turn or for the parser.
LEMMA CopyOrders ==
  ASSUME Inv, CursorInv, OrderInv, Copy
  PROVE  OrderInv'
  <1> DEFINE start == eic.restart_gpa + eic.gpa_to_hva
             r == ept_idle_copy_user(eic, start, w.va_end)
             over == r.stop \/ start >= w.end
             items == eic.out \o eic.kpie
  <1>1. /\ pc = "copy" /\ eic' = r.eic /\ w' = [w EXCEPT !.start = start]
        /\ pc' = (IF over THEN "parse" ELSE "range")
        /\ UNCHANGED <<userVars, layout>>
    BY Zenon DEF Copy
  <1>2. pc \in InTheKernel /\ pc \in AtVma
    BY <1>1 DEF InTheKernel, AtVma
  <1>3. /\ eic.gpa_to_hva \in Int /\ eic.restart_gpa \in Nat /\ Fit(eic)
        /\ w \in Cursors /\ w.va_end \in Nat /\ w.end \in Nat /\ w.start \in Int
    BY <1>2, InKernel
  <1>4. start \in Int /\ Agrees(eic)
    BY <1>2, <1>3 DEF CursorInv, Together
  <1>5. /\ KernelOrder /\ UserOrder /\ refs \in Seq(Counted) /\ Found \in Seq(Counted)
        /\ Report(eic).refs \in Seq(Counted) /\ eic \in ControlBlocks
    BY <1>2, InOrderTypes DEF OrderInv
  <1>6. /\ \/ r.eic.out = items /\ r.eic.next_hva = eic.next_hva
           \/ \E s \in Nat : /\ s >= w.va_end /\ s > eic.next_hva /\ r.eic.next_hva = s
                             /\ r.eic.out = Append(items, SetHva(s))
                             /\ (s = start \/ (eic.pie_read = 0 /\ s = w.va_end))
        /\ ~r.stop => r.eic.kpie = <<>> /\ eic.pie_read # 0
    <2>1. PICK from \in Int, at \in Nat : from = start /\ at = w.va_end
      BY <1>3, <1>4
    <2>2. LET q == ept_idle_copy_user(eic, from, at) IN
         /\ \/ q.eic.out = eic.out \o eic.kpie /\ q.eic.next_hva = eic.next_hva
            \/ \E s \in Nat : /\ s >= at /\ s > eic.next_hva /\ q.eic.next_hva = s
                              /\ q.eic.out = Append(eic.out \o eic.kpie, SetHva(s))
                              /\ (s = from \/ (eic.pie_read = 0 /\ s = at))
         /\ ~q.stop => /\ q.eic.kpie = <<>> /\ eic.pie_read # 0
                       /\ q.eic.restart_gpa = eic.restart_gpa /\ ~NoRoom(q.eic)
      BY <1>3, CopyItems
    <2> QED
      BY <2>1, <2>2, Zenon
  <1>7. LET p == parse_idlepages(r.eic.out, 0, 2 * TaskSize) IN p.va = r.eic.next_hva
    <2>1. PICK from \in Int, at \in Nat : from = start /\ at = w.va_end
      BY <1>3, <1>4
    <2>2. Fit(eic) /\ Agrees(eic)
      BY <1>3, <1>4
    <2>3. LET r1 == ept_idle_copy_user(eic, from, at)
              p1 == parse_idlepages(r1.eic.out, 0, 2 * TaskSize)
             IN  /\ p1.va = r1.eic.next_hva /\ p1.refs = Report(eic).refs /\ p1.late = {}
                 /\ ~r1.stop => Agrees(r1.eic) /\ r1.eic.pie_read = 0 /\ Report(r1.eic).refs = Report(eic).refs
      BY <2>2, CopyReports, SMTT(30)
    <2> QED
      BY <2>1, <2>3, Zenon
  <1>8. /\ CursorInv' /\ Decoded'.refs = Report(eic).refs /\ Decoded'.late = {}
        /\ pc' = "range" => Report(eic').refs = Report(eic).refs
        /\ pc' \in {"parse", "range"}
    BY CopyTogether
  <1> HIDE DEF start, r
  <1>9. w'.start = start /\ (pc' = "range" => ~r.stop)
    BY <1>1, <1>3 DEF Cursors
  <1>10. items \in Seq(Items) /\ eic'.out \in Seq(Items)
    <2>1. items \in Seq(Items)
      BY <1>5, ReportType
    <2>2. \A s \in Nat : SetHva(s) \in Items
      BY DEF SetHva, Items
    <2>3. \A s \in Nat : Append(items, SetHva(s)) \in Seq(Items)
      BY <2>1, <2>2
    <2> HIDE DEF items
    <2> QED
      BY <1>1, <1>6, <2>1, <2>3
  <1> HIDE DEF items
  <1>11. UNCHANGED <<refs, va, end, parsed, next_va>>
    BY <1>1 DEF userVars
  <1>12. UserOrder'
    <2>1. pc' \notin {"start", "vma", "loop"}
      BY <1>8
    <2> QED
      BY <1>2, <1>5, <1>11, <2>1 DEF UserOrder
  <1>13. /\ InOrder(Found) /\ Aligned(Found) /\ RunsSettle(items, 0, refs)
         /\ parsed = 0 /\ va < end /\ Behind(refs, va)
         /\ items # <<>> => Behind(Found, eic.next_hva)
         /\ items = <<>> => Behind(Found, w.start)
         /\ w.start <= w.va_end /\ (eic.pie_read # 0 => Behind(Found, start))
    <2>1. pc # "range"
      BY <1>1
    <2> QED
      BY <1>5, <2>1 DEF KernelOrder, items, start
  <1>14. RunsSettle(eic'.out, 0, refs)
    <2>1. ASSUME NEW s \in Nat PROVE RunsSettle(Append(items, SetHva(s)), 0, refs)
      <3>1. SetHva(s) \in Items /\ SetHva(s).type = "SET_HVA"
        BY DEF SetHva, Items
      <3>2. PICK item \in Items : item = SetHva(s)
        BY <3>1
      <3> QED
        BY <1>10, <1>13, <3>1, <3>2, RunsAppend
    <2> QED
      BY <1>1, <1>6, <1>13, <2>1
  <1>15. eic'.out # <<>> => Behind(Found, eic'.next_hva)
    <2>1. CASE r.eic.out = items /\ r.eic.next_hva = eic.next_hva
      BY <1>1, <1>13, <2>1
    <2>2. ASSUME NEW s \in Nat, s >= w.va_end, s > eic.next_hva, r.eic.next_hva = s
          PROVE  Behind(Found, s)
      <3>1. eic.next_hva \in Nat
        BY <1>5 DEF ControlBlocks
      <3>2. CASE items # <<>>
        <4>1. eic.next_hva <= s
          BY <2>2, <3>1
        <4> QED
          BY <1>5, <1>13, <3>1, <3>2, <4>1, BehindMore
      <3>3. CASE items = <<>>
        <4>1. w.start <= s
          BY <1>3, <1>13, <2>2
        <4> QED
          BY <1>3, <1>5, <1>13, <3>3, <4>1, BehindMore
      <3> QED
        BY <3>2, <3>3
    <2> QED
      BY <1>1, <1>6, <2>1, <2>2
  <1>16. PICK mine \in Seq(Counted), found \in Seq(Counted) :
           mine = refs /\ found = Report(eic).refs /\ mine \o found = Found
    BY <1>5 DEF Found
  <1>17. CASE pc' = "range"
    <2>1. Found' = Found
      BY <1>8, <1>11, <1>17 DEF Found
    <2>2. eic'.kpie = <<>> /\ eic.pie_read # 0
      BY <1>1, <1>6, <1>9, <1>17
    <2>3. eic'.out \o eic'.kpie = eic'.out
      BY <1>10, <2>2
    <2>4. KernelOrder'
      BY <1>9, <1>11, <1>13, <1>14, <1>15, <1>17, <2>1, <2>2, <2>3 DEF KernelOrder
    <2> QED
      BY <1>12, <1>17, <2>4 DEF OrderInv
  <1>18. CASE pc' = "parse"
    <2>1. parsed' = 0 /\ Len(eic'.out) \in Nat
      BY <1>10, <1>11, <1>13
    <2>2. InOrder(mine) /\ InOrder(found) /\ Aligned(found)
          /\ \A i \in 1 .. Len(mine), j \in 1 .. Len(found) :
                pagetype_size(mine[i].type) = pagetype_size(found[j].type) => mine[i].va < found[j].va
      BY <1>13, <1>16, OrderBoth, AlignedBoth
    <2>3. Upto(eic'.out, 0).refs = <<>> /\ Len(<<>>) + 1 = 1
      BY <1>10, UptoNothing
    <2>4. ASSUME eic'.out # <<>> PROVE Behind(mine, pos') /\ Behind(found, pos')
      <3>1. Decoded'.va = pos'
        BY <1>8, <1>18, <2>4 DEF CursorInv, Together
      <3>2. Decoded' = parse_idlepages(eic'.out, 0, 2 * TaskSize)
        BY DEF Decoded
      <3>3. pos' = eic'.next_hva
        BY <1>1, <1>7, <3>1, <3>2
      <3>4. Behind(mine \o found, pos')
        BY <1>15, <1>16, <2>4, <3>3
      <3> QED
        BY <3>4, BehindBoth
    <2>5. va \in Int /\ end \in Int
      BY DEF Inv, TypeInv
    <2>6. \A i \in 1 .. Len(refs) : refs[i].va < end
      BY <1>5, <1>13, <2>5, BehindFront
    <2>7. ParseOrder'
      BY <1>8, <1>11, <1>13, <1>14, <1>16, <2>1, <2>2, <2>3, <2>4, <2>6 DEF ParseOrder
    <2> QED
      BY <1>12, <1>18, <2>7 DEF OrderInv, InTheKernel
  <1> QED
    BY <1>8, <1>17, <1>18

\* A list that another one holds behind its first items; one that begins another.
PartOf(part, list, m) == \A i \in 1 .. Len(part) : m + i \in 1 .. Len(list) /\ list[m + i] = part[i]
Begins(a, b) == Len(a) <= Len(b) /\ \A i \in 1 .. Len(a) : b[i] = a[i]

\* What holds of a list holds of a part of it.
LEMMA PartHolds ==
  ASSUME NEW part \in Seq(Counted), NEW list \in Seq(Counted), NEW m \in Nat, PartOf(part, list, m)
  PROVE  /\ InOrder(list) => InOrder(part)
         /\ Aligned(list) => Aligned(part)
         /\ \A at : Behind(list, at) => Behind(part, at)
         /\ \A at : Settled(list, at) => Settled(part, at)
  <1>1. \A i \in 1 .. Len(part) : m + i \in 1 .. Len(list) /\ list[m + i] = part[i]
    BY DEF PartOf
  <1>2. \A i, j \in 1 .. Len(part) : i < j => m + i < m + j
    OBVIOUS
  <1>3. InOrder(list) => InOrder(part)
    BY <1>1, <1>2 DEF InOrder
  <1>4. Aligned(list) => Aligned(part)
    BY <1>1 DEF Aligned
  <1>5. \A at : Behind(list, at) => Behind(part, at)
    BY <1>1 DEF Behind
  <1>6. \A at : Settled(list, at) => Settled(part, at)
    BY <1>1 DEF Settled
  <1> QED
    BY <1>3, <1>4, <1>5, <1>6

\* A list begins what it is prolonged to.
LEMMA BeginsLonger ==
  ASSUME NEW a \in Seq(Counted), NEW b \in Seq(Counted)
  PROVE  Begins(a, a \o b) /\ Begins(a, a)
  BY Parts DEF Begins

\* A longer list begins where its beginning begins.
LEMMA BeginsOn ==
  ASSUME NEW a \in Seq(Counted), NEW b \in Seq(Counted), NEW c \in Seq(Counted), Begins(a, b), Begins(b, c)
  PROVE  Begins(a, c)
  <1>1. Len(a) \in Nat /\ Len(b) \in Nat /\ Len(c) \in Nat
    OBVIOUS
  <1>2. \A i \in 1 .. Len(a) : i \in 1 .. Len(b)
    BY <1>1 DEF Begins
  <1> QED
    BY <1>1, <1>2 DEF Begins

\* The parser of one item more.
LEMMA UptoNext ==
  ASSUME NEW items \in Seq(Items), NEW k \in 0 .. Len(items)
  PROVE  /\ Upto(items, k) \in Parsers
         /\ k < Len(items) => Upto(items, k + 1) = ParseItem(Upto(items, k), items[k + 1], 2 * TaskSize)
  <1>1. SubSeq(items, 1, k) \in Seq(Items) /\ 2 * TaskSize \in Nat
    BY WalkAssumption
  <1>2. Upto(items, k) \in Parsers
    BY <1>1, ReadType DEF Upto
  <1>3. ASSUME k < Len(items)
        PROVE  Upto(items, k + 1) = ParseItem(Upto(items, k), items[k + 1], 2 * TaskSize)
    <2> DEFINE a == SubSeq(items, 1, k)
               b == SubSeq(items, 1, k + 1)
               x == items[k + 1]
    <2>1. x \in Items /\ k \in Nat
      BY <1>3
    <2>2. /\ a \in Seq(Items) /\ Len(a) = k /\ \A i \in 1 .. k : a[i] = items[i]
          /\ b \in Seq(Items) /\ Len(b) = k + 1 /\ \A i \in 1 .. k + 1 : b[i] = items[i]
      BY <1>3, <2>1
    <2>3. /\ Append(a, x) \in Seq(Items) /\ Len(Append(a, x)) = k + 1 /\ Append(a, x)[k + 1] = x
          /\ \A i \in 1 .. k : Append(a, x)[i] = a[i]
      BY <2>1, <2>2
    <2>4. PICK c \in Seq(Items) : c = Append(a, x)
      BY <2>3
    <2> HIDE DEF a, b
    <2>5. \A i \in 1 .. k + 1 : b[i] = c[i]
      <3> SUFFICES ASSUME NEW i \in 1 .. k + 1 PROVE b[i] = c[i]
        OBVIOUS
      <3>1. i \in 1 .. k \/ i = k + 1
        BY <2>1
      <3> QED
        BY <2>1, <2>2, <2>3, <2>4, <3>1
    <2>6. b = c
      BY <2>2, <2>3, <2>4, <2>5
    <2>7. parse_idlepages(Append(a, x), 0, 2 * TaskSize)
            = ParseItem(parse_idlepages(a, 0, 2 * TaskSize), x, 2 * TaskSize)
      BY <2>1, <2>2, ParseAppend
    <2> QED
      BY <2>4, <2>6, <2>7 DEF Upto, a, b
  <1> QED
    BY <1>2, <1>3

\* A parser that is not late was not late before, and keeps what it counted.
LEMMA ParserLasts ==
  ASSUME NEW p \in Parsers, NEW item \in Items, NEW to \in Nat, ParseItem(p, item, to).late = {}
  PROVE  p.late = {} /\ Begins(p.refs, ParseItem(p, item, to).refs)
  <1>1. p.refs \in Seq(Counted) /\ p.va \in Nat
    BY DEF Parsers
  <1>2. p.late = {}
    BY DEF ParseItem
  <1>3. CASE \E at \in Nat : item = SetHva(at)
    BY <1>1, <1>2, <1>3, ParserMoves, BeginsLonger
  <1>4. CASE \E type \in PageTypes, n \in 1 .. MaxRun : item = Run(type, n)
    <2>1. PICK type \in PageTypes, n \in 1 .. MaxRun : item = Run(type, n)
      BY <1>4
    <2>2. n \in Nat
      BY StreamAssumption
    <2>3. p.va < to
      <3>1. p.va >= to => ParseItem(p, Run(type, n), to).late # {}
        BY <1>2, <2>2, ParserMoves
      <3> QED
        BY <1>1, <2>1, <3>1
    <2>4. inc_page_refs(type, n, p.va, to) \in Seq(Counted)
      BY <1>1, <2>2, <2>3, RunList
    <2>5. ParseItem(p, Run(type, n), to).refs
            = IF type \in HoleTypes THEN p.refs ELSE p.refs \o inc_page_refs(type, n, p.va, to)
      BY <1>2, <2>2, <2>3, ParserMoves
    <2> QED
      BY <1>1, <1>2, <2>1, <2>4, <2>5, BeginsLonger
  <1> QED
    BY <1>3, <1>4, ItemKinds

\* The first items of a report that is read to its end.
LEMMA UptoBegins ==
  ASSUME NEW items \in Seq(Items), NEW m \in 0 .. Len(items), NEW k \in 0 .. m, Upto(items, m).late = {}
  PROVE  Upto(items, k).late = {} /\ Begins(Upto(items, k).refs, Upto(items, m).refs)
  <1> DEFINE Is(d) == Upto(items, m - d).late = {} /\ Begins(Upto(items, m - d).refs, Upto(items, m).refs)
             S == {d \in Nat : d <= m => Is(d)}
  <1>1. m \in Nat /\ k \in Nat /\ Len(items) \in Nat /\ \A i \in 1 .. Len(items) : items[i] \in Items
    OBVIOUS
  <1>2. \A i \in 0 .. Len(items) : Upto(items, i) \in Parsers /\ Upto(items, i).refs \in Seq(Counted)
    <2>1. \A i \in 0 .. Len(items) : Upto(items, i) \in Parsers
      BY UptoNext
    <2> QED
      BY <2>1 DEF Parsers
  <1>3. 0 \in S
    <2>1. m - 0 = m
      BY <1>1
    <2>2. Is(0)
      BY <1>2, <2>1, BeginsLonger
    <2> QED
      BY <2>2
  <1>4. ASSUME NEW d \in Nat, d \in S PROVE d + 1 \in S
    <2> SUFFICES ASSUME d + 1 <= m PROVE Is(d + 1)
      OBVIOUS
    <2>1. PICK i \in Nat : i = m - (d + 1)
      BY <1>1
    <2>2. i + 1 = m - d /\ i \in 0 .. Len(items) /\ i + 1 \in 0 .. Len(items) /\ i < Len(items)
          /\ i + 1 \in 1 .. Len(items) /\ Is(d)
      BY <1>1, <1>4, <2>1
    <2>3. Upto(items, i + 1) = ParseItem(Upto(items, i), items[i + 1], 2 * TaskSize)
      BY <2>2, UptoNext
    <2>4. 2 * TaskSize \in Nat /\ items[i + 1] \in Items
      BY <1>1, <2>2, WalkAssumption
    <2>5. PICK p \in Parsers, q \in Parsers, x \in Items :
            p = Upto(items, i) /\ q = Upto(items, i + 1) /\ x = items[i + 1]
      BY <1>2, <2>2, <2>4
    <2>6. q.late = {} /\ Begins(q.refs, Upto(items, m).refs)
      BY <2>2, <2>5
    <2>7. p.late = {} /\ Begins(p.refs, q.refs)
      <3>1. q = ParseItem(p, x, 2 * TaskSize)
        BY <2>3, <2>5
      <3> QED
        BY <2>4, <2>6, <3>1, ParserLasts
    <2>8. Begins(p.refs, Upto(items, m).refs)
      <3>1. p.refs \in Seq(Counted) /\ q.refs \in Seq(Counted) /\ Upto(items, m).refs \in Seq(Counted)
        BY <1>2 DEF Parsers
      <3> QED
        BY <2>6, <2>7, <3>1, BeginsOn
    <2> QED
      BY <2>1, <2>5, <2>7, <2>8
  <1> HIDE DEF S
  <1>5. m - k \in S
    <2>1. m - k \in Nat
      BY <1>1
    <2> QED
      BY <1>3, <1>4, <2>1, SetInduction
  <1>6. m - (m - k) = k /\ m - k <= m
    BY <1>1
  <1> QED
    BY <1>5, <1>6 DEF S

\* The pages of a run that begin in front of an end (inc_page_refs).
LEMMA RunShorter ==
  ASSUME NEW type \in PageTypes, NEW n \in Nat, NEW at \in Nat, NEW a \in Nat, NEW b \in Nat,
         at < a, a <= b
  PROVE  /\ Begins(inc_page_refs(type, n, at, a), inc_page_refs(type, n, at, b))
         /\ \A i \in 1 .. Len(inc_page_refs(type, n, at, a)) : inc_page_refs(type, n, at, a)[i].va < a
  <1> DEFINE size == pagetype_size(type)
             room(to) == (to - at + size - 1) \div size
             page(i) == [type |-> type, va |-> at + (i - 1) * size]
             run(to) == [i \in 1 .. Least(n, room(to)) |-> page(i)]
  <1>1. size \in Nat \ {0}
    BY PageSizes
  <1>2. \A to : inc_page_refs(type, n, at, to) = IF at % size # 0 THEN <<>> ELSE run(to)
    BY Zenon DEF inc_page_refs
  <1> HIDE DEF size
  <1>3. ASSUME NEW to \in Nat, at < to
        PROVE  room(to) \in Nat /\ size * room(to) <= to - at + size - 1
    <2> DEFINE x == to - at + size - 1
    <2>1. x \in Nat
      BY <1>1, <1>3
    <2> HIDE DEF x
    <2>2. x \div size \in Nat /\ x = size * (x \div size) + (x % size) /\ x % size \in Nat
      BY <1>1, <2>1, Division
    <2>3. PICK q \in Nat : q = x \div size
      BY <2>2
    <2>4. size * q \in Nat
      BY <1>1
    <2>5. size * q <= x
      BY <2>1, <2>2, <2>3, <2>4
    <2> QED
      BY <2>3, <2>5 DEF x
  <1>4. room(a) <= room(b)
    <2> DEFINE x == a - at + size - 1
               y == b - at + size - 1
    <2>1. x \in Nat /\ y \in Nat /\ x <= y
      BY <1>1
    <2> HIDE DEF x, y
    <2>2. x \div size <= y \div size
      BY <1>1, <2>1, QuotientOrder
    <2> QED
      BY <2>2 DEF x, y
  <1>5. room(a) \in Nat /\ room(b) \in Nat /\ size * room(a) <= a - at + size - 1
    BY <1>3
  <1>6. PICK k \in Nat, l \in Nat : k = Least(n, room(a)) /\ l = Least(n, room(b)) /\ k <= l /\ k <= room(a)
    <2>1. PICK ra \in Nat, rb \in Nat : ra = room(a) /\ rb = room(b)
      BY <1>5
    <2> HIDE DEF room
    <2>2. Least(n, ra) \in Nat /\ Least(n, rb) \in Nat /\ Least(n, ra) <= Least(n, rb) /\ Least(n, ra) <= ra
      BY <1>4, <2>1 DEF Least
    <2> QED
      BY <2>1, <2>2
  <1>7. ASSUME NEW i \in 1 .. k PROVE page(i).va < a
    <2>1. PICK r \in Nat : r = room(a)
      BY <1>5
    <2> HIDE DEF room
    <2>2. i <= r /\ size * r <= a - at + size - 1 /\ i \in Nat
      BY <1>5, <1>6, <2>1
    <2>3. PICK d \in Nat : r = i + d
      <3>1. r - i \in Nat /\ r = i + (r - i)
        BY <2>2
      <3> QED
        BY <3>1
    <2>4. size * (i + d) = size * i + size * d /\ (i - 1) * size = size * i - size
          /\ size * i \in Nat /\ size * d \in Nat
      BY <1>1, <2>2
    <2>5. (i - 1) * size < a - at /\ (i - 1) * size \in Int
      BY <1>1, <2>2, <2>3, <2>4
    <2> QED
      BY <2>5
  <1> HIDE DEF room, page
  <1>8. Begins(run(a), run(b)) /\ \A i \in 1 .. Len(run(a)) : run(a)[i].va < a
    <2>1. Len(run(a)) = k /\ Len(run(b)) = l
      BY <1>6
    <2>2. \A i \in 1 .. k : i \in 1 .. l /\ run(a)[i] = page(i) /\ run(b)[i] = page(i)
      BY <1>6
    <2> HIDE DEF run
    <2> QED
      BY <1>6, <1>7, <2>1, <2>2 DEF Begins
  <1> HIDE DEF run
  <1>9. Begins(<<>>, <<>>) /\ \A i \in 1 .. Len(<<>>) : <<>>[i].va < a
    BY DEF Begins
  <1> DEFINE x == inc_page_refs(type, n, at, a)
             y == inc_page_refs(type, n, at, b)
  <1>10. (x = <<>> /\ y = <<>>) \/ (x = run(a) /\ y = run(b))
    BY <1>2
  <1> HIDE DEF x, y
  <1>11. Begins(x, y) /\ \A i \in 1 .. Len(x) : x[i].va < a
    BY <1>8, <1>9, <1>10
  <1> QED
    BY <1>11 DEF x, y

\* Pages that join a list in order, taken from one that is in order with it.
LEMMA CountMore ==
  ASSUME NEW mine \in Seq(Counted), NEW new \in Seq(Counted), NEW list \in Seq(Counted), NEW m \in Nat,
         PartOf(new, list, m), InOrder(mine), Aligned(mine), InOrder(list), Aligned(list),
         \A i \in 1 .. Len(mine), j \in m + 1 .. Len(list) :
           pagetype_size(mine[i].type) = pagetype_size(list[j].type) => mine[i].va < list[j].va,
         NEW more, more = mine \o new, NEW l \in Nat, l >= m + Len(new)
  PROVE  /\ more \in Seq(Counted) /\ InOrder(more) /\ Aligned(more)
         /\ \A i \in 1 .. Len(more), j \in l + 1 .. Len(list) :
              pagetype_size(more[i].type) = pagetype_size(list[j].type) => more[i].va < list[j].va
  <1>1. \A i \in 1 .. Len(new) : m + i \in 1 .. Len(list) /\ m + i \in m + 1 .. Len(list) /\ list[m + i] = new[i]
    BY DEF PartOf
  <1>2. \A i \in 1 .. Len(mine), j \in 1 .. Len(new) :
          pagetype_size(mine[i].type) = pagetype_size(new[j].type) => mine[i].va < new[j].va
    <2> SUFFICES ASSUME NEW i \in 1 .. Len(mine), NEW j \in 1 .. Len(new),
                        pagetype_size(mine[i].type) = pagetype_size(new[j].type)
                 PROVE  mine[i].va < new[j].va
      OBVIOUS
    <2>1. PICK n \in m + 1 .. Len(list) : list[n] = new[j]
      BY <1>1
    <2> QED
      BY <2>1
  <1>3. InOrder(new) /\ Aligned(new)
    BY PartHolds
  <1>4. more \in Seq(Counted) /\ InOrder(more) /\ Aligned(more)
    BY <1>2, <1>3, Parts, OrderBoth, AlignedBoth
  <1>5. /\ \A i \in 1 .. Len(mine) : more[i] = mine[i]
        /\ \A i \in 1 .. Len(new) : more[Len(mine) + i] = new[i]
        /\ \A i \in 1 .. Len(more) : i \in 1 .. Len(mine) \/ \E n \in 1 .. Len(new) : i = Len(mine) + n
    BY Parts
  <1>6. ASSUME NEW i \in 1 .. Len(more), NEW j \in l + 1 .. Len(list),
               pagetype_size(more[i].type) = pagetype_size(list[j].type)
        PROVE  more[i].va < list[j].va
    <2>1. j \in m + 1 .. Len(list) /\ j \in 1 .. Len(list)
      OBVIOUS
    <2>2. CASE i \in 1 .. Len(mine)
      BY <1>5, <1>6, <2>1, <2>2
    <2>3. CASE i \notin 1 .. Len(mine)
      <3>1. PICK n \in 1 .. Len(new) : i = Len(mine) + n
        BY <1>5, <2>3
      <3>2. PICK q \in 1 .. Len(list) : q = m + n /\ list[q] = more[i]
        BY <1>1, <1>5, <3>1
      <3>3. q < j
        BY <3>1, <3>2
      <3> QED
        BY <1>6, <2>1, <3>2, <3>3 DEF InOrder
    <2> QED
      BY <2>2, <2>3
  <1> QED
    BY <1>4, <1>6

\* What the proofs about the parser find.
LEMMA ParseTypes ==
  ASSUME Inv, OrderInv, pc = "parse"
  PROVE  /\ UserOrder /\ ParseOrder /\ refs \in Seq(Counted) /\ eic.out \in Seq(Items)
         /\ Decoded.refs \in Seq(Counted) /\ Upto(eic.out, Len(eic.out)) = Decoded
         /\ va \in Nat /\ end \in Nat /\ pos \in Nat /\ parsed \in Nat /\ end <= TaskSize
         /\ \A k \in 0 .. Len(eic.out) :
              Upto(eic.out, k) \in Parsers /\ Upto(eic.out, k).refs \in Seq(Counted)
  <1>1. eic.out \in Seq(Items) /\ va \in Nat /\ end \in Nat /\ pos \in Nat /\ parsed \in Nat
    BY DEF Inv, TypeInv, ControlBlocks
  <1>2. UserOrder /\ ParseOrder /\ refs \in Seq(Counted) /\ end <= TaskSize
    BY DEF OrderInv, UserOrder, AtVma
  <1>3. PICK items \in Seq(Items) : items = eic.out
    BY <1>1
  <1>4. \A k \in 0 .. Len(items) : Upto(items, k) \in Parsers
    BY UptoNext
  <1>5. \A k \in 0 .. Len(items) : Upto(items, k).refs \in Seq(Counted)
    BY <1>4 DEF Parsers
  <1>6. SubSeq(items, 1, Len(items)) = items /\ Len(items) \in 0 .. Len(items)
    OBVIOUS
  <1>7. Upto(items, Len(items)) = Decoded
    BY <1>3, <1>6 DEF Upto, Decoded
  <1>8. Decoded.refs \in Seq(Counted)
    BY <1>5, <1>6, <1>7
  <1> QED
    BY <1>1, <1>2, <1>3, <1>4, <1>5, <1>7, <1>8

\* The parser counts one item of the report.
LEMMA ParseGoesOn ==
  ASSUME Inv, CursorInv, OrderInv, pc = "parse", parsed < Len(eic.out),
         UNCHANGED <<pc, eic, pos, end>>, parsed' = parsed + 1,
         NEW new \in Seq(Counted), refs' = refs \o new,
         PartOf(new, Upto(eic.out, parsed + 1).refs, Len(Upto(eic.out, parsed).refs)),
         Len(Upto(eic.out, parsed).refs) + Len(new) <= Len(Upto(eic.out, parsed + 1).refs),
         \A i \in 1 .. Len(new) : new[i].va < end,
         va' = Upto(eic.out, parsed + 1).va
  PROVE  OrderInv'
  <1>1. /\ UserOrder /\ ParseOrder /\ refs \in Seq(Counted) /\ eic.out \in Seq(Items)
        /\ Decoded.refs \in Seq(Counted) /\ Upto(eic.out, Len(eic.out)) = Decoded
        /\ parsed \in Nat /\ end <= TaskSize
        /\ \A k \in 0 .. Len(eic.out) :
              Upto(eic.out, k) \in Parsers /\ Upto(eic.out, k).refs \in Seq(Counted)
    BY ParseTypes
  <1>2. PICK items \in Seq(Items), k \in Nat, mine \in Seq(Counted), list \in Seq(Counted) :
          items = eic.out /\ k = parsed /\ mine = refs /\ list = Decoded.refs
    BY <1>1
  <1>3. k \in 0 .. Len(items) /\ k + 1 \in 0 .. Len(items) /\ Len(items) \in Nat
    BY <1>1, <1>2
  <1>4. Upto(items, Len(items)).late = {} /\ Upto(items, Len(items)).refs = list
    BY <1>1, <1>2 DEF ParseOrder
  <1>5. PICK a \in Seq(Counted), b \in Seq(Counted) :
          a = Upto(items, k).refs /\ b = Upto(items, k + 1).refs
    BY <1>1, <1>2, <1>3
  <1>6. Begins(b, list)
    <2>1. k + 1 \in 0 .. Len(items) /\ Len(items) \in 0 .. Len(items)
      BY <1>3
    <2> QED
      BY <1>4, <1>5, <2>1, UptoBegins
  <1>7. \A i \in 1 .. Len(new) : Len(a) + i \in 1 .. Len(b) /\ b[Len(a) + i] = new[i]
    BY <1>2, <1>5 DEF PartOf
  <1>8. PartOf(new, list, Len(a))
    <2>1. Len(b) <= Len(list) /\ \A i \in 1 .. Len(b) : list[i] = b[i]
      BY <1>6 DEF Begins
    <2>2. \A i \in 1 .. Len(b) : i \in 1 .. Len(list)
      BY <2>1
    <2> QED
      BY <1>7, <2>1, <2>2 DEF PartOf
  <1>9. /\ InOrder(list) /\ Aligned(list) /\ InOrder(mine) /\ Aligned(mine)
        /\ \A i \in 1 .. Len(mine), j \in Len(a) + 1 .. Len(list) :
             pagetype_size(mine[i].type) = pagetype_size(list[j].type) => mine[i].va < list[j].va
        /\ Behind(mine, pos) /\ Behind(list, pos)
        /\ \A i \in 1 .. Len(mine) : mine[i].va < end
        /\ RunsSettle(items, k, mine)
    <2>1. items # <<>>
      BY <1>2, <1>3
    <2> QED
      BY <1>1, <1>2, <1>5, <2>1 DEF ParseOrder, UserOrder
  <1>10. PICK more \in Seq(Counted) : more = mine \o new
    BY Parts
  <1>11. Len(a) \in Nat /\ Len(b) \in Nat /\ Len(b) >= Len(a) + Len(new)
    BY <1>2, <1>5
  <1>12. /\ InOrder(more) /\ Aligned(more)
         /\ \A i \in 1 .. Len(more), j \in Len(b) + 1 .. Len(list) :
              pagetype_size(more[i].type) = pagetype_size(list[j].type) => more[i].va < list[j].va
    BY <1>8, <1>9, <1>10, <1>11, CountMore
  <1>13. Behind(more, pos)
    BY <1>8, <1>9, <1>10, <1>11, PartHolds, BehindBoth
  <1>14. \A i \in 1 .. Len(more) : more[i].va < end
    <2>1. /\ \A i \in 1 .. Len(mine) : more[i] = mine[i]
          /\ \A i \in 1 .. Len(new) : more[Len(mine) + i] = new[i]
          /\ \A i \in 1 .. Len(more) : i \in 1 .. Len(mine) \/ \E n \in 1 .. Len(new) : i = Len(mine) + n
      BY <1>10, Parts
    <2> QED
      BY <1>9, <2>1
  <1>15. RunsSettle(items, k + 1, more)
    <2> SUFFICES ASSUME NEW n \in k + 1 .. Len(items) - 1, items[n + 1].type # "SET_HVA"
                 PROVE  /\ n # 0 /\ Settled(more, Upto(items, n).va)
                        /\ Settled(Upto(items, n).refs, Upto(items, n).va)
      BY DEF RunsSettle
    <2>1. n \in k .. Len(items) - 1 /\ n \in 0 .. Len(items) /\ k + 1 \in 0 .. n /\ n # 0
          /\ Len(items) \in 0 .. Len(items) /\ n \in 0 .. Len(items)
      BY <1>3
    <2>2. Settled(mine, Upto(items, n).va) /\ Settled(Upto(items, n).refs, Upto(items, n).va)
      BY <1>9, <2>1 DEF RunsSettle
    <2>3. PICK c \in Seq(Counted) : c = Upto(items, n).refs
      BY <1>1, <1>2, <2>1
    <2>4. Upto(items, n).late = {}
      BY <1>4, <2>1, UptoBegins
    <2>5. Begins(b, c)
      BY <1>5, <2>1, <2>3, <2>4, UptoBegins
    <2>6. PartOf(new, c, Len(a))
      <3>1. Len(b) <= Len(c) /\ \A i \in 1 .. Len(b) : c[i] = b[i]
        BY <2>5 DEF Begins
      <3>2. \A i \in 1 .. Len(b) : i \in 1 .. Len(c)
        BY <3>1
      <3> QED
        BY <1>7, <3>1, <3>2 DEF PartOf
    <2>7. Settled(new, Upto(items, n).va)
      BY <1>11, <2>2, <2>3, <2>6, PartHolds
    <2>8. Settled(more, Upto(items, n).va)
      BY <1>10, <2>2, <2>7, SettledParts
    <2> QED
      BY <2>1, <2>2, <2>8
  <1>16. refs' = more /\ eic'.out = items /\ parsed' = k + 1 /\ pc' = "parse" /\ end' = end /\ pos' = pos
         /\ Decoded' = Decoded
    BY <1>2, <1>10 DEF Decoded
  <1>17. k + 1 = Len(items) => Behind(more, va')
    <2> SUFFICES ASSUME k + 1 = Len(items) PROVE Behind(more, va')
      OBVIOUS
    <2>1. eic.out # <<>>
      BY <1>2, <1>3
    <2>2. Decoded.va = pos
      BY <2>1 DEF CursorInv, Together
    <2>3. va' = pos
      BY <1>1, <1>2, <2>2
    <2> QED
      BY <1>13, <2>3
  <1>18. ParseOrder'
    <2>1. k + 1 <= Len(items) /\ Decoded.late = {}
      BY <1>1, <1>3 DEF ParseOrder
    <2>2. va' = Upto(items, k + 1).va
      BY <1>2
    <2> QED
      BY <1>2, <1>5, <1>9, <1>12, <1>13, <1>14, <1>15, <1>16, <1>17, <2>1, <2>2 DEF ParseOrder
  <1>19. UserOrder'
    BY <1>1, <1>12, <1>16 DEF UserOrder
  <1> QED
    BY <1>16, <1>18, <1>19 DEF OrderInv, InTheKernel

\* The parser keeps what is counted in order (parse_idlepages, inc_page_refs).
LEMMA ParseOrders ==
  ASSUME Inv, CursorInv, OrderInv, Parse
  PROVE  OrderInv'
  <1> DEFINE p0 == [va |-> va, refs |-> refs, late |-> {}]
             p == ParseItem(p0, eic.out[parsed + 1], end)
  <1>1. /\ pc = "parse" /\ parsed < Len(eic.out) /\ va' = p.va /\ refs' = p.refs
        /\ parsed' = (IF p.late = {} THEN parsed + 1 ELSE Len(eic.out))
        /\ UNCHANGED <<pc, eic, pos, end, next_va>>
    BY Zenon DEF Parse
  <1>2. /\ UserOrder /\ ParseOrder /\ refs \in Seq(Counted) /\ eic.out \in Seq(Items)
        /\ Decoded.refs \in Seq(Counted) /\ Upto(eic.out, Len(eic.out)) = Decoded
        /\ va \in Nat /\ end \in Nat /\ pos \in Nat /\ parsed \in Nat /\ end <= TaskSize
        /\ \A k \in 0 .. Len(eic.out) :
              Upto(eic.out, k) \in Parsers /\ Upto(eic.out, k).refs \in Seq(Counted)
    BY <1>1, ParseTypes
  <1>3. PICK items \in Seq(Items), k \in Nat, x \in Items :
          items = eic.out /\ k = parsed /\ x = items[k + 1]
    <2>1. parsed + 1 \in 1 .. Len(eic.out)
      BY <1>1, <1>2
    <2>2. PICK items \in Seq(Items) : items = eic.out
      BY <1>2
    <2>3. items[parsed + 1] \in Items
      BY <2>1, <2>2
    <2> QED
      BY <1>2, <2>2, <2>3
  <1>4. k \in 0 .. Len(items) /\ k + 1 \in 0 .. Len(items) /\ k < Len(items) /\ Len(items) \in 0 .. Len(items)
    BY <1>1, <1>2, <1>3
  <1>5. p0 \in Parsers /\ p0.va = va /\ p0.refs = refs /\ p0.late = {}
    BY <1>2 DEF Parsers
  <1>6. p = ParseItem(p0, x, end)
    BY <1>3
  <1> HIDE DEF p0, p
  <1>7. PICK u \in Parsers, v \in Parsers : u = Upto(items, k) /\ v = Upto(items, k + 1)
    BY <1>2, <1>3, <1>4
  <1>8. v = ParseItem(u, x, 2 * TaskSize) /\ 2 * TaskSize \in Nat
    BY <1>3, <1>4, <1>7, UptoNext, WalkAssumption
  <1>9. u.late = {} /\ v.late = {} /\ u.refs \in Seq(Counted) /\ v.refs \in Seq(Counted) /\ u.va \in Nat
    <2>1. Upto(items, Len(items)).late = {}
      BY <1>2, <1>3 DEF ParseOrder
    <2>2. Upto(items, k + 1).late = {} /\ Upto(items, k).late = {}
      <3>1. k \in 0 .. Len(items) /\ k + 1 \in 0 .. Len(items)
        BY <1>4
      <3> QED
        BY <1>4, <2>1, <3>1, UptoBegins
    <2> QED
      BY <1>7, <2>2 DEF Parsers
  <1>10. CASE \E at \in Nat : x = SetHva(at)
    <2>1. PICK at \in Nat : x = SetHva(at)
      BY <1>10
    <2>2. p.va = at /\ p.refs = refs /\ p.late = {}
      <3>1. LET q == ParseItem(p0, SetHva(at), end) IN q.va = at /\ q.refs = p0.refs /\ q.late = {}
        <4>1. PICK q0 \in Parsers, to \in Nat : q0 = p0 /\ to = end
          BY <1>2, <1>5
        <4>2. LET q == ParseItem(q0, SetHva(at), to) IN q.va = at /\ q.refs = q0.refs /\ q.late = {}
          BY <1>5, <4>1, ParserMoves
        <4> QED
          BY <4>1, <4>2
      <3> QED
        BY <1>5, <1>6, <2>1, <3>1
    <2>3. v.va = at /\ v.refs = u.refs
      BY <1>8, <1>9, <2>1, ParserMoves
    <2>4. PICK new \in Seq(Counted) : new = <<>>
      <3>1. <<>> \in Seq(Counted)
        OBVIOUS
      <3> QED
        BY <3>1
    <2>5. Len(new) = 0 /\ refs \o new = refs /\ Len(u.refs) \in Nat
      BY <1>2, <1>9, <2>4
    <2>6. PartOf(new, v.refs, Len(u.refs))
      BY <2>5 DEF PartOf
    <2>7. Len(u.refs) + Len(new) <= Len(v.refs) /\ \A i \in 1 .. Len(new) : new[i].va < end
      BY <2>3, <2>5
    <2>8. refs' = refs \o new /\ va' = v.va /\ parsed' = parsed + 1
      BY <1>1, <2>2, <2>3, <2>5
    <2> QED
      BY <1>1, <1>3, <1>7, <2>6, <2>7, <2>8, ParseGoesOn
  <1>11. CASE \E type \in PageTypes, n \in 1 .. MaxRun : x = Run(type, n)
    <2>1. PICK type \in PageTypes, n \in 1 .. MaxRun : x = Run(type, n)
      BY <1>11
    <2>2. n \in Nat /\ x.type = type /\ x.type # "SET_HVA"
      BY <2>1, StreamAssumption DEF Run, PageTypes, PteTypes, PmdTypes
    <2>3. k # 0 /\ Settled(refs, u.va)
      <3>1. k \in k .. Len(items) - 1 /\ items[k + 1].type # "SET_HVA"
        BY <1>3, <1>4, <2>2
      <3>2. RunsSettle(items, k, refs)
        BY <1>2, <1>3 DEF ParseOrder
      <3>3. k # 0 /\ Settled(refs, Upto(items, k).va)
        BY <3>1, <3>2 DEF RunsSettle
      <3> QED
        BY <1>7, <3>3
    <2>4. va = u.va
      BY <1>1, <1>2, <1>3, <1>7, <2>3 DEF ParseOrder
    <2>5. CASE va >= end
      <3>1. p.late # {} /\ p.va = va /\ p.refs = refs
        <4>1. x.type # "SET_HVA" /\ p0.va >= end
          BY <1>5, <2>2, <2>5
        <4>2. p = [p0 EXCEPT !.late = {p0.va}]
          BY <1>5, <1>6, <4>1 DEF ParseItem
        <4> QED
          BY <1>5, <4>2 DEF Parsers
      <3>2. parsed' = Len(items) /\ va' = va /\ refs' = refs
        BY <1>1, <1>3, <3>1
      <3>3. Behind(refs, va)
        <4> SUFFICES ASSUME NEW i \in 1 .. Len(refs) PROVE EndOf(refs[i]) <= va
          BY DEF Behind
        <4>1. refs[i].va < end /\ refs[i].va \in Nat
          BY <1>2, PagesOfList DEF ParseOrder
        <4>2. refs[i].va < va
          BY <1>2, <2>5, <4>1
        <4> QED
          BY <2>3, <2>4, <4>2 DEF Settled
      <3>4. Decoded' = Decoded /\ eic' = eic /\ pos' = pos /\ end' = end
        BY <1>1 DEF Decoded
      <3>5. ParseOrder'
        <4>1. Upto(eic'.out, parsed').refs = Decoded.refs /\ parsed' = Len(eic'.out) /\ parsed' \in Nat
          BY <1>2, <1>3, <3>2, <3>4
        <4>2. RunsSettle(eic'.out, parsed', refs')
          BY <4>1 DEF RunsSettle
        <4>3. Len(Decoded.refs) \in Nat
          BY <1>2
        <4> QED
          BY <1>2, <3>2, <3>3, <3>4, <4>1, <4>2, <4>3 DEF ParseOrder
      <3>6. UserOrder'
        BY <1>1, <1>2, <3>2, <3>4 DEF UserOrder
      <3> QED
        BY <1>1, <3>5, <3>6 DEF OrderInv, InTheKernel
    <2>6. CASE va < end
      <3> DEFINE a == inc_page_refs(type, n, va, end)
                 b == inc_page_refs(type, n, va, 2 * TaskSize)
      <3>1. end <= 2 * TaskSize /\ va < 2 * TaskSize
        BY <1>2, <2>6, WalkAssumption
      <3>2. a \in Seq(Counted) /\ b \in Seq(Counted)
        BY <1>2, <1>8, <2>2, <2>6, <3>1, RunList
      <3>3. Begins(a, b) /\ \A i \in 1 .. Len(a) : a[i].va < end
        BY <1>2, <1>8, <2>2, <2>6, <3>1, RunShorter
      <3> DEFINE step == pagetype_size(type) * n
      <3>4. /\ p.late = {} /\ p.va = va + step
            /\ p.refs = IF type \in HoleTypes THEN refs ELSE refs \o a
        <4>1. p0.va < end
          BY <1>5, <2>6
        <4>2. LET q == ParseItem(p0, Run(type, n), end) IN
              /\ q.late = {} /\ q.va = p0.va + step
              /\ q.refs = IF type \in HoleTypes THEN p0.refs
                          ELSE p0.refs \o inc_page_refs(type, n, p0.va, end)
          BY <1>2, <1>5, <2>2, <4>1, ParserMoves
        <4> QED
          BY <1>5, <1>6, <2>1, <4>2
      <3>5. /\ v.va = va + step
            /\ v.refs = IF type \in HoleTypes THEN u.refs ELSE u.refs \o b
        <4>1. u.va < 2 * TaskSize
          BY <2>4, <3>1
        <4>2. LET q == ParseItem(u, Run(type, n), 2 * TaskSize) IN
              /\ q.late = {} /\ q.va = u.va + step
              /\ q.refs = IF type \in HoleTypes THEN u.refs
                          ELSE u.refs \o inc_page_refs(type, n, u.va, 2 * TaskSize)
          BY <1>8, <1>9, <2>2, <4>1, ParserMoves
        <4> QED
          BY <1>8, <2>1, <2>4, <4>2
      <3> HIDE DEF a, b, step
      <3>6. PICK new \in Seq(Counted), long \in Seq(Counted) :
              /\ refs \o new = p.refs /\ v.refs = u.refs \o long
              /\ Begins(new, long) /\ \A i \in 1 .. Len(new) : new[i].va < end
        <4>1. CASE type \in HoleTypes
          <5>1. PICK e \in Seq(Counted) : e = <<>>
            <6>1. <<>> \in Seq(Counted)
              OBVIOUS
            <6> QED
              BY <6>1
          <5>2. refs \o e = refs /\ u.refs \o e = u.refs /\ Len(e) = 0
            BY <1>2, <1>9, <5>1
          <5>3. Begins(e, e)
            BY BeginsLonger
          <5>4. p.refs = refs \o e /\ v.refs = u.refs \o e
            BY <3>4, <3>5, <4>1, <5>2
          <5>5. \A i \in 1 .. Len(e) : e[i].va < end
            BY <5>2
          <5> QED
            BY <5>3, <5>4, <5>5
        <4>2. CASE type \notin HoleTypes
          BY <3>2, <3>3, <3>4, <3>5, <4>2
        <4> QED
          BY <4>1, <4>2
      <3>7. /\ Len(v.refs) = Len(u.refs) + Len(long) /\ Len(u.refs) \in Nat
            /\ \A i \in 1 .. Len(long) : Len(u.refs) + i \in 1 .. Len(v.refs) /\ v.refs[Len(u.refs) + i] = long[i]
        BY <1>9, <3>6, Parts
      <3>8. Len(new) <= Len(long) /\ \A i \in 1 .. Len(new) : i \in 1 .. Len(long) /\ long[i] = new[i]
        BY <3>6 DEF Begins
      <3>9. PartOf(new, v.refs, Len(u.refs)) /\ Len(u.refs) + Len(new) <= Len(v.refs)
        BY <3>7, <3>8 DEF PartOf
      <3>10. refs' = refs \o new /\ va' = v.va /\ parsed' = parsed + 1
        BY <1>1, <3>4, <3>5, <3>6
      <3> QED
        BY <1>1, <1>3, <1>7, <3>6, <3>9, <3>10, ParseGoesOn
    <2> QED
      BY <1>2, <2>5, <2>6
  <1> QED
    BY <1>3, <1>10, <1>11, ItemKinds

\* A read starts with an empty report (ept_idle_read, mm_idle_read).
LEMMA ReadStartOrders ==
  ASSUME Inv, OrderInv, ReadStart
  PROVE  OrderInv'
  <1> DEFINE size == ReadSize
             e0 == setup_ept_idle_ctrl(size)
             e1 == init_ept_idle_ctrl_buffer(e0)
  <1>1. /\ pc = "loop" /\ va < end /\ UNCHANGED <<va, end, next_va, refs>>
        /\ eic' = e1 /\ pc' = (IF NoRoom(e1) THEN "parse" ELSE "range")
        /\ pos' = Most(va, pos) /\ parsed' = 0
        /\ w' = [w EXCEPT !.start = pos', !.end = pos' + size * PagesPerByte]
    BY Zenon DEF ReadStart
  <1>2. /\ size \in Nat /\ va \in Nat /\ end \in Nat /\ pos \in Nat /\ w \in Cursors
    BY <1>1, ReadSizes DEF Inv, TypeInv
  <1> HIDE DEF size
  <1>3. <<>> \in Seq(Items) /\ BytesOf(<<>>) = 0
    BY NoBytes
  <1>4. e0 \in ControlBlocks /\ e0.bytes_copied = 0 /\ e0.out = <<>> /\ e0.buf_size = size
    BY <1>2, <1>3 DEF setup_ept_idle_ctrl, ControlBlocks
  <1> HIDE DEF e0
  <1>5. e0.bytes_copied = BytesOf(e0.out) /\ e0.bytes_copied <= e0.buf_size
    BY <1>2, <1>3, <1>4
  <1>6. e1.kpie = <<>> /\ e1.out = e0.out
    BY <1>4, <1>5, BufferInit, Zenon
  <1> HIDE DEF e1
  <1>7. eic'.out = <<>> /\ eic'.out \o eic'.kpie = <<>>
    BY <1>1, <1>4, <1>6
  <1>8. UserOrder /\ refs \in Seq(Counted) /\ InOrder(refs) /\ Aligned(refs) /\ Behind(refs, va) /\ end <= TaskSize
    BY <1>1 DEF OrderInv, UserOrder, AtVma
  <1>9. /\ parse_idlepages(<<>>, 0, 2 * TaskSize).refs = <<>>
        /\ parse_idlepages(<<>>, 0, 2 * TaskSize).late = {}
    BY ParseNothing DEF Start
  <1>10. Report(eic').refs = <<>>
    BY <1>7, <1>9 DEF Report
  <1>11. Decoded' = parse_idlepages(eic'.out, 0, 2 * TaskSize)
    BY DEF Decoded
  <1>12. Decoded'.refs = <<>> /\ Decoded'.late = {}
    BY <1>7, <1>9, <1>11
  <1>13. Found' = refs
    <2>1. Found' = refs' \o Report(eic').refs
      BY DEF Found
    <2> QED
      BY <1>1, <1>8, <1>10, <2>1
  <1>14. pc' \in {"parse", "range"}
    BY <1>1
  <1>15. UserOrder'
    BY <1>1, <1>8, <1>14 DEF UserOrder
  <1>16. Len(<<>>) = 0 /\ \A i \in 0 .. 0 - 1 : FALSE
    OBVIOUS
  <1>17. \A list : RunsSettle(<<>>, 0, list)
    BY <1>16 DEF RunsSettle
  <1>18. CASE pc' = "range"
    <2>1. w'.start = pos' /\ va <= pos' /\ pos' \in Nat
      BY <1>1, <1>2 DEF Cursors, Most
    <2>2. Behind(refs, w'.start)
      BY <1>2, <1>8, <2>1, BehindMore
    <2>3. KernelOrder'
      BY <1>1, <1>7, <1>8, <1>13, <1>17, <1>18, <2>2 DEF KernelOrder
    <2> QED
      BY <1>15, <1>18, <2>3 DEF OrderInv
  <1>19. CASE pc' = "parse"
    <2>1. \A i \in 1 .. Len(refs) : refs[i].va < end
      BY <1>1, <1>2, <1>8, BehindFront
    <2>2. InOrder(<<>>) /\ Aligned(<<>>) /\ Behind(<<>>, pos')
      BY <1>16 DEF InOrder, Aligned, Behind
    <2>3. Upto(<<>>, 0).refs = <<>>
      BY <1>3, UptoNothing
    <2>4. \A i \in 0 + 1 .. 0 : FALSE
      OBVIOUS
    <2>5. ParseOrder'
      BY <1>1, <1>7, <1>8, <1>12, <1>16, <1>17, <2>1, <2>2, <2>3, <2>4 DEF ParseOrder
    <2> QED
      BY <1>15, <1>19, <2>5 DEF OrderInv, InTheKernel
  <1> QED
    BY <1>14, <1>18, <1>19

\* The other steps of the user side count nothing (walk, walk_vma).
LEMMA UserOrders ==
  ASSUME Inv, OrderInv, Walk \/ WalkVma \/ VmaDone \/ ReadFails \/ ReadDone
  PROVE  OrderInv'
  <1>1. UserOrder /\ refs \in Seq(Counted)
    BY DEF OrderInv, UserOrder
  <1>2. /\ layout.vmas \in Seq(VmaType) /\ layout.va_start \in Nat /\ layout.va_end \in Nat
        /\ vmai \in 1 .. Len(layout.vmas) + 1 /\ next_va \in Nat /\ va \in Nat /\ end \in Nat
        /\ parsed \in Nat /\ eic.out \in Seq(Items)
    BY LayoutTypes DEF Inv, TypeInv, ControlBlocks
  <1> SUFFICES UserOrder' /\ pc' \notin InTheKernel \cup {"parse"}
    BY DEF OrderInv
  <1>3. CASE Walk
    <2>1. pc = "start" /\ pc' \in {"done", "vma"} /\ UNCHANGED <<refs, next_va, va, end>>
      BY <1>3 DEF Walk
    <2>2. refs = <<>>
      BY <1>1, <2>1 DEF UserOrder
    <2>3. Behind(refs, next_va)
      BY <2>2 DEF Behind
    <2> QED
      BY <1>1, <2>1, <2>3 DEF UserOrder, InTheKernel, AtVma
  <1>4. CASE WalkVma
    <2> DEFINE v == layout.vmas[vmai]
    <2>1. pc = "vma" /\ UNCHANGED <<refs, next_va>>
      BY <1>4 DEF WalkVma
    <2>2. Behind(refs, next_va)
      BY <1>1, <2>1 DEF UserOrder
    <2>3. CASE pc' = "done" /\ UNCHANGED end
      BY <1>1, <2>1, <2>3 DEF UserOrder, InTheKernel, AtVma
    <2>4. CASE UNCHANGED <<pc, end>>
      BY <1>1, <2>1, <2>4 DEF UserOrder, InTheKernel, AtVma
    <2>5. CASE /\ vmai <= Len(layout.vmas) /\ va' = Most(Most(v.start, next_va), layout.va_start)
               /\ end' = Least(v.end, layout.va_end) /\ pc' = "loop"
      <3>1. v \in VmaType
        BY <1>2, <2>5
      <3>2. v.start \in Nat /\ v.end \in Nat /\ v.end <= TaskSize
        BY <3>1, WalkAssumption DEF VmaType
      <3>3. va' \in Nat /\ next_va <= va'
        BY <1>2, <2>5, <3>2 DEF Most
      <3>4. end' <= TaskSize
        BY <1>2, <2>5, <3>2, WalkAssumption DEF Least
      <3>5. Behind(refs, va')
        BY <1>1, <1>2, <2>2, <3>3, BehindMore
      <3> QED
        BY <1>1, <2>1, <2>5, <3>4, <3>5 DEF UserOrder, InTheKernel, AtVma
    <2> QED
      BY <1>4, <2>3, <2>4, <2>5 DEF WalkVma
  <1>5. CASE VmaDone
    <2>1. pc = "loop" /\ next_va' = va /\ pc' = "vma" /\ UNCHANGED <<refs, va, end>>
      BY <1>5 DEF VmaDone
    <2> QED
      BY <1>1, <2>1 DEF UserOrder, InTheKernel, AtVma
  <1>6. CASE ReadFails
    <2>1. pc = "loop" /\ pc' = "done" /\ UNCHANGED <<refs, va, end, next_va>>
      BY <1>6 DEF ReadFails
    <2> QED
      BY <1>1, <2>1 DEF UserOrder, InTheKernel, AtVma
  <1>7. CASE ReadDone
    <2>1. pc = "parse" /\ pc' = "loop" /\ parsed >= Len(eic.out) /\ UNCHANGED <<refs, va, end, next_va>>
      BY <1>7 DEF ReadDone, userVars
    <2>2. ParseOrder /\ Len(eic.out) \in Nat
      BY <1>2, <2>1 DEF OrderInv
    <2>3. parsed = Len(eic.out)
      BY <1>2, <2>1, <2>2 DEF ParseOrder
    <2>4. Behind(refs, va)
      BY <2>2, <2>3 DEF ParseOrder
    <2> QED
      BY <1>1, <2>1, <2>4 DEF UserOrder, InTheKernel, AtVma
  <1> QED
    BY <1>3, <1>4, <1>5, <1>6, <1>7

\* What the process does leaves what was found alone.
LEMMA ProcessOrders ==
  ASSUME CursorInv, OrderInv, Touch \/ Remap \/ ChangeVmas \/ UNCHANGED vars
  PROVE  OrderInv'
  <1>1. UNCHANGED <<layout, pc, pos, eic, w>>
    BY ProcessTogether
  <1>2. UNCHANGED <<va, end, next_va, parsed, refs>>
    <2>1. UNCHANGED userVars
      BY DEF Touch, Remap, ChangeVmas, vars
    <2> QED
      BY <2>1 DEF userVars
  <1>3. (Kvm' <=> Kvm) /\ Found' = Found /\ Decoded' = Decoded
    BY <1>1, <1>2 DEF Kvm, Found, Decoded
  <1>4. UserOrder' <=> UserOrder
    BY <1>1, <1>2 DEF UserOrder
  <1>5. KernelOrder' <=> KernelOrder
    <2>1. AtCursor' <=> AtCursor
      BY <1>1, <1>3 DEF AtCursor
    <2> QED
      BY <1>1, <1>2, <1>3, <2>1 DEF KernelOrder
  <1>6. ParseOrder' <=> ParseOrder
    BY <1>1, <1>2, <1>3 DEF ParseOrder
  <1> QED
    BY <1>1, <1>4, <1>5, <1>6 DEF OrderInv

\* Every step keeps what is counted and what was found in order.
LEMMA NextOrders == Inv /\ Inv' /\ CursorInv /\ OrderInv /\ HugePagesAligned /\ [Next]_vars => OrderInv'
  <1> SUFFICES ASSUME Inv, Inv', CursorInv, OrderInv, HugePagesAligned, [Next]_vars PROVE OrderInv'
    OBVIOUS
  <1>1. CASE Walk \/ WalkVma \/ VmaDone \/ ReadFails \/ ReadDone
    BY <1>1, UserOrders
  <1>2. CASE ReadStart
    BY <1>2, ReadStartOrders
  <1>3. CASE Parse
    BY <1>3, ParseOrders
  <1>4. CASE MmRange \/ KvmRange
    BY <1>4, RangeOrders
  <1>5. CASE KvmPages \/ AddPte \/ MmPassOver \/ MmPudEntry \/ MmPmdEntry
    BY <1>5, WalkOrders
  <1>6. CASE Copy
    BY <1>6, CopyOrders
  <1>7. CASE Touch \/ Remap \/ ChangeVmas \/ UNCHANGED vars
    BY <1>7, ProcessOrders
  <1> QED
    BY <1>1, <1>2, <1>3, <1>4, <1>5, <1>6, <1>7, Zenon DEF Next, UserNext, KernelNext, Finished

\* KVM maps a huge page only where its addresses in the guest and in the process are
\* aligned alike; of other processes nothing is asked.
GuestPagesAligned ==
  pc = "pages" /\ Kvm =>
    /\ pud[PudOf(w.cur)] = "present" => (RoundDown(w.cur, PudPages) + eic.gpa_to_hva) % PudPages = 0
    /\ pmd[PmdOf(w.cur)] \in {"idle", "accessed"} =>
         (RoundDown(w.cur, PmdPages) + eic.gpa_to_hva) % PmdPages = 0

\* The pages of a process have one address.
LEMMA PagesAligned == Inv /\ GuestPagesAligned => HugePagesAligned
  <1> SUFFICES ASSUME Inv, GuestPagesAligned, pc = "pages", ~Kvm PROVE HugePagesAligned
    BY DEF GuestPagesAligned, HugePagesAligned
  <1>1. w.cur \in Nat /\ eic.gpa_to_hva = 0
    BY DEF Inv, TypeInv, Mapped
  <1>2. ASSUME NEW s \in Nat \ {0} PROVE (RoundDown(w.cur, s) + eic.gpa_to_hva) % s = 0
    <2>1. RoundDown(w.cur, s) = s * (w.cur \div s) /\ w.cur \div s \in Nat
      BY <1>1, PageEnd
    <2>2. PICK q \in Nat : q = w.cur \div s
      BY <2>1
    <2>3. s * q \in Nat /\ (s * q) % s = 0
      BY Multiple
    <2>4. RoundDown(w.cur, s) + eic.gpa_to_hva = s * q
      BY <1>1, <2>1, <2>2, <2>3
    <2> QED
      BY <2>3, <2>4
  <1> QED
    BY <1>2, StreamAssumption DEF HugePagesAligned

\* A walk starts with nothing counted.
LEMMA InitOrders == Init => Inv /\ CursorInv /\ OrderInv
  <1> SUFFICES ASSUME Init PROVE Inv /\ CursorInv /\ OrderInv
    OBVIOUS
  <1>1. pc = "start" /\ refs = <<>>
    BY DEF Init
  <1>2. Inv
    BY InitInv
  <1>3. CursorInv
    BY <1>1 DEF CursorInv, Together, Ranges, Stands, InTheKernel
  <1>4. <<>> \in Seq(Counted) /\ Len(<<>>) = 0
    OBVIOUS
  <1>5. UserOrder
    BY <1>1, <1>4 DEF UserOrder, InOrder, Aligned, AtVma
  <1> QED
    BY <1>1, <1>2, <1>3, <1>5 DEF OrderInv, InTheKernel

\* Within one walk the pages of a size are counted in increasing order, none of
\* them twice (inc_page_refs), over all reads, restarts, slots and VMAs and
\* whatever the process does meanwhile: AddrSequence refuses an address that is not
\* behind the last one. Of a guest it takes huge pages whose two addresses are
\* aligned alike; eic_add_page() rounds the one, inc_page_refs() tests the other.
THEOREM CountedInOrderHolds == Spec /\ []GuestPagesAligned => []CountedInOrder
  <1>1. Init => Inv /\ CursorInv /\ OrderInv
    BY InitOrders
  <1>2. Inv /\ CursorInv /\ OrderInv /\ GuestPagesAligned /\ [Next]_vars
          => Inv' /\ CursorInv' /\ OrderInv'
    BY NextInv, NextTogether, PagesAligned, NextOrders, Zenon
  <1>3. OrderInv => CountedInOrder
    BY DEF OrderInv, UserOrder, InOrder, CountedInOrder
  <1> QED
    BY <1>1, <1>2, <1>3, PTL DEF Spec

==============================================================================
