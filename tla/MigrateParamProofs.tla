------------------------- MODULE MigrateParamProofs -------------------------
(***************************************************************************)
(* Proofs about MigrateParam and MigrateCount, for every number of ranges, *)
(* page size, histogram, limit and threshold: what calc_migrate_count()    *)
(* and calc_migrate_parameter() select stays within the limits, is what    *)
(* was counted, takes the hottest and coldest pages first, leads to the    *)
(* target ratio and does not thrash.                                       *)
(***************************************************************************)
EXTENDS MigrateParam, WellFoundedInduction, TLAPS

-----------------------------------------------------------------------------
(* Sums over the numbers 1..n, and proofs by induction over them: the      *)
(* induction theorems of the library take the formula as an operator, here *)
(* it is the set of the numbers that satisfy it.                           *)

\* v[1] + ... + v[n]
SumTo(v, n) ==
  LET sum[q \in 0..n] == IF q = 0 THEN 0 ELSE sum[q - 1] + v[q]
  IN  sum[n]

\* f runs through the sums of v up to n.
RunsThrough(f, v, n) ==
  /\ f[0] = 0
  /\ \A q \in 1..n : f[q] = f[q - 1] + v[q]

LessOnNat == {pair \in Nat \X Nat : pair[1] < pair[2]}

\* Every set of natural numbers has a least element.
LEMMA LessWellFounded == IsWellFoundedOn(LessOnNat, Nat)
  BY NatLessThanWellFounded, Zenon DEF OpToRel, LessOnNat

\* A set that holds 0 and the successor of each of its numbers holds them all.
LEMMA SetInduction ==
  ASSUME NEW S, 0 \in S, \A n \in Nat : n \in S => n + 1 \in S
  PROVE  \A n \in Nat : n \in S
  <1> DEFINE T == Nat \ S
  <1>1. \A x, y \in Nat : y < x => <<y, x>> \in LessOnNat
    BY DEF LessOnNat
  <1> SUFFICES ASSUME T # {} PROVE FALSE
    OBVIOUS
  <1>2. \E x \in T : \A y \in T : <<y, x>> \notin LessOnNat
    <2>1. T \subseteq Nat
      OBVIOUS
    <2> HIDE DEF T
    <2> QED
      BY LessWellFounded, WFMin, <2>1, Zenon
  <1>3. PICK x \in T : \A y \in T : <<y, x>> \notin LessOnNat
    BY <1>2
  <1>4. x \in Nat /\ x # 0 /\ x \notin S
    OBVIOUS
  <1>5. x - 1 \in Nat /\ x - 1 < x
    BY <1>4
  <1>6. x - 1 \in S
    BY <1>1, <1>3, <1>4, <1>5
  <1> QED
    BY <1>4, <1>5, <1>6

\* The function that a recursive definition of a sum describes exists.
LEMMA SumExists ==
  ASSUME NEW v, NEW n \in Nat
  PROVE  \E f : f = [q \in 0..n |-> IF q = 0 THEN 0 ELSE f[q - 1] + v[q]]
  <1> DEFINE Is(f, k) == f = [q \in 0..k |-> IF q = 0 THEN 0 ELSE f[q - 1] + v[q]]
             S == {k \in Nat : \E f : Is(f, k)}
  <1>1. 0 \in S
    <2>1. Is([q \in 0..0 |-> 0], 0)
      OBVIOUS
    <2> QED
      BY <2>1
  <1>2. ASSUME NEW k \in Nat, k \in S PROVE k + 1 \in S
    <2>1. PICK f : Is(f, k)
      BY <1>2
    <2> DEFINE g == [q \in 0..(k + 1) |-> IF q <= k THEN f[q] ELSE f[k] + v[k + 1]]
    <2>2. \A q \in 0..k : f[q] = IF q = 0 THEN 0 ELSE f[q - 1] + v[q]
      BY <2>1
    <2>3. \A q \in 0..(k + 1) : g[q] = IF q = 0 THEN 0 ELSE g[q - 1] + v[q]
      <3> SUFFICES ASSUME NEW q \in 0..(k + 1)
                   PROVE  g[q] = IF q = 0 THEN 0 ELSE g[q - 1] + v[q]
        OBVIOUS
      <3>1. CASE q <= k
        BY <2>2, <3>1
      <3>2. CASE q = k + 1
        BY <3>2
      <3> QED
        BY <3>1, <3>2
    <2>4. g = [q \in 0..(k + 1) |-> g[q]]
      OBVIOUS
    <2> HIDE DEF g
    <2>5. Is(g, k + 1)
      BY <2>3, <2>4
    <2> QED
      BY <2>5
  <1> HIDE DEF S
  <1>3. n \in S
    BY <1>1, <1>2, SetInduction
  <1> QED
    BY <1>3 DEF S

\* SumTo() is the last element of a function that runs through the sums.
LEMMA SumRuns ==
  ASSUME NEW v, NEW n \in Nat
  PROVE  \E f : RunsThrough(f, v, n) /\ SumTo(v, n) = f[n]
  <1> DEFINE Is(f) == f = [q \in 0..n |-> IF q = 0 THEN 0 ELSE f[q - 1] + v[q]]
             f0 == CHOOSE f : Is(f)
  <1>1. Is(f0)
    <2>1. \E f : Is(f)
      BY SumExists
    <2> QED
      BY <2>1, Zenon
  <1>2. SumTo(v, n) = f0[n]
    BY Zenon DEF SumTo
  <1> HIDE DEF f0
  <1>3. RunsThrough(f0, v, n)
    BY <1>1 DEF RunsThrough
  <1> QED
    BY <1>2, <1>3

\* Only one function runs through the sums.
LEMMA RunsUnique ==
  ASSUME NEW v, NEW n \in Nat, NEW f, NEW g, RunsThrough(f, v, n), RunsThrough(g, v, n)
  PROVE  f[n] = g[n]
  <1> DEFINE S == {k \in Nat : k <= n => f[k] = g[k]}
  <1>1. 0 \in S
    BY DEF RunsThrough
  <1>2. ASSUME NEW k \in Nat, k \in S PROVE k + 1 \in S
    <2> SUFFICES ASSUME k + 1 <= n PROVE f[k + 1] = g[k + 1]
      OBVIOUS
    <2>1. k + 1 \in 1..n /\ (k + 1) - 1 = k /\ f[k] = g[k]
      BY <1>2
    <2> QED
      BY <2>1 DEF RunsThrough
  <1> HIDE DEF S
  <1>3. n \in S
    BY <1>1, <1>2, SetInduction
  <1> QED
    BY <1>3 DEF S

\* Any function that runs through the sums ends with SumTo().
LEMMA RunsToSum ==
  ASSUME NEW v, NEW n \in Nat, NEW f, RunsThrough(f, v, n)
  PROVE  f[n] = SumTo(v, n)
  <1>1. PICK g : RunsThrough(g, v, n) /\ SumTo(v, n) = g[n]
    BY SumRuns
  <1>2. f[n] = g[n]
    BY <1>1, RunsUnique
  <1> QED
    BY <1>1, <1>2

\* A sum depends on what is added up only.
LEMMA SumSame ==
  ASSUME NEW v, NEW w, NEW n \in Nat, \A q \in 1..n : v[q] = w[q]
  PROVE  SumTo(v, n) = SumTo(w, n)
  <1>1. PICK f : RunsThrough(f, v, n) /\ SumTo(v, n) = f[n]
    BY SumRuns
  <1>2. RunsThrough(f, w, n)
    BY <1>1 DEF RunsThrough
  <1> QED
    BY <1>1, <1>2, RunsToSum

\* The sum of nothing, and the sum of one more.
LEMMA SumSteps ==
  ASSUME NEW v
  PROVE  /\ SumTo(v, 0) = 0
         /\ \A n \in Nat : SumTo(v, n + 1) = SumTo(v, n) + v[n + 1]
  <1>1. SumTo(v, 0) = 0
    <2>1. PICK f : RunsThrough(f, v, 0) /\ SumTo(v, 0) = f[0]
      BY SumRuns
    <2> QED
      BY <2>1 DEF RunsThrough
  <1>2. ASSUME NEW n \in Nat PROVE SumTo(v, n + 1) = SumTo(v, n) + v[n + 1]
    <2>1. n + 1 \in Nat /\ n + 1 \in 1..(n + 1) /\ (n + 1) - 1 = n
      OBVIOUS
    <2>2. PICK f : RunsThrough(f, v, n + 1) /\ SumTo(v, n + 1) = f[n + 1]
      BY <2>1, SumRuns
    <2>3. RunsThrough(f, v, n)
      BY <2>2 DEF RunsThrough
    <2>4. f[n] = SumTo(v, n)
      BY <2>3, RunsToSum
    <2> QED
      BY <2>1, <2>2, <2>4 DEF RunsThrough
  <1> QED
    BY <1>1, <1>2

\* A sum of numbers is a number.
LEMMA SumType ==
  ASSUME NEW v, NEW n \in Nat, \A q \in 1..n : v[q] \in Int
  PROVE  SumTo(v, n) \in Int
  <1> DEFINE S == {k \in Nat : k <= n => SumTo(v, k) \in Int}
  <1>1. 0 \in S
    BY SumSteps
  <1>2. ASSUME NEW k \in Nat, k \in S PROVE k + 1 \in S
    <2> SUFFICES ASSUME k + 1 <= n PROVE SumTo(v, k + 1) \in Int
      OBVIOUS
    <2>1. SumTo(v, k) \in Int /\ v[k + 1] \in Int
      BY <1>2
    <2> QED
      BY <2>1, SumSteps
  <1> HIDE DEF S
  <1>3. n \in S
    BY <1>1, <1>2, SetInduction
  <1> QED
    BY <1>3 DEF S

\* A sum grows with what is added up.
LEMMA SumLess ==
  ASSUME NEW v, NEW w, NEW n \in Nat,
         \A q \in 1..n : v[q] \in Int /\ w[q] \in Int /\ v[q] <= w[q]
  PROVE  SumTo(v, n) <= SumTo(w, n)
  <1> DEFINE S == {k \in Nat : k <= n => /\ SumTo(v, k) \in Int /\ SumTo(w, k) \in Int
                                        /\ SumTo(v, k) <= SumTo(w, k)}
  <1>1. 0 \in S
    BY SumSteps
  <1>2. ASSUME NEW k \in Nat, k \in S PROVE k + 1 \in S
    <2> SUFFICES ASSUME k + 1 <= n
                 PROVE  /\ SumTo(v, k + 1) \in Int /\ SumTo(w, k + 1) \in Int
                        /\ SumTo(v, k + 1) <= SumTo(w, k + 1)
      OBVIOUS
    <2>1. /\ SumTo(v, k) \in Int /\ SumTo(w, k) \in Int /\ SumTo(v, k) <= SumTo(w, k)
          /\ v[k + 1] \in Int /\ w[k + 1] \in Int /\ v[k + 1] <= w[k + 1]
      BY <1>2
    <2> QED
      BY <2>1, SumSteps
  <1> HIDE DEF S
  <1>3. n \in S
    BY <1>1, <1>2, SetInduction
  <1> QED
    BY <1>3 DEF S

\* The sum of sums.
LEMMA SumPlus ==
  ASSUME NEW u, NEW v, NEW w, NEW n \in Nat,
         \A q \in 1..n : v[q] \in Int /\ w[q] \in Int /\ u[q] = v[q] + w[q]
  PROVE  SumTo(u, n) = SumTo(v, n) + SumTo(w, n)
  <1> DEFINE S == {k \in Nat : k <= n => /\ SumTo(v, k) \in Int /\ SumTo(w, k) \in Int
                                        /\ SumTo(u, k) = SumTo(v, k) + SumTo(w, k)}
  <1>1. 0 \in S
    BY SumSteps
  <1>2. ASSUME NEW k \in Nat, k \in S PROVE k + 1 \in S
    <2> SUFFICES ASSUME k + 1 <= n
                 PROVE  /\ SumTo(v, k + 1) \in Int /\ SumTo(w, k + 1) \in Int
                        /\ SumTo(u, k + 1) = SumTo(v, k + 1) + SumTo(w, k + 1)
      OBVIOUS
    <2>1. /\ SumTo(v, k) \in Int /\ SumTo(w, k) \in Int
          /\ SumTo(u, k) = SumTo(v, k) + SumTo(w, k)
          /\ v[k + 1] \in Int /\ w[k + 1] \in Int /\ u[k + 1] = v[k + 1] + w[k + 1]
      BY <1>2
    <2> QED
      BY <2>1, SumSteps
  <1> HIDE DEF S
  <1>3. n \in S
    BY <1>1, <1>2, SetInduction
  <1> QED
    BY <1>3 DEF S

\* A common factor.
LEMMA SumTimes ==
  ASSUME NEW v, NEW w, NEW n \in Nat, NEW factor \in Int,
         \A q \in 1..n : v[q] \in Int /\ w[q] = v[q] * factor
  PROVE  SumTo(w, n) = SumTo(v, n) * factor
  <1> DEFINE S == {k \in Nat : k <= n => /\ SumTo(v, k) \in Int
                                        /\ SumTo(w, k) = SumTo(v, k) * factor}
  <1>1. 0 \in S
    BY SumSteps
  <1>2. ASSUME NEW k \in Nat, k \in S PROVE k + 1 \in S
    <2> SUFFICES ASSUME k + 1 <= n
                 PROVE  SumTo(v, k + 1) \in Int /\ SumTo(w, k + 1) = SumTo(v, k + 1) * factor
      OBVIOUS
    <2>1. /\ SumTo(v, k) \in Int /\ SumTo(w, k) = SumTo(v, k) * factor
          /\ v[k + 1] \in Int /\ w[k + 1] = v[k + 1] * factor
      BY <1>2
    <2>2. /\ SumTo(v, k + 1) = SumTo(v, k) + v[k + 1]
          /\ SumTo(w, k + 1) = SumTo(w, k) + w[k + 1]
      BY SumSteps
    <2>3. \A a, b \in Int : (a + b) * factor = a * factor + b * factor
      OBVIOUS
    <2> QED
      BY <2>1, <2>2, <2>3
  <1> HIDE DEF S
  <1>3. n \in S
    BY <1>1, <1>2, SetInduction
  <1> QED
    BY <1>3 DEF S

\* Of two sums that differ in one place.
LEMMA SumChange ==
  ASSUME NEW v, NEW w, NEW n \in Nat, NEW j \in 1..n,
         \A q \in 1..n : v[q] \in Int /\ w[q] \in Int,
         \A q \in 1..n : q # j => w[q] = v[q]
  PROVE  SumTo(w, n) = SumTo(v, n) + w[j] - v[j]
  <1> DEFINE S == {k \in Nat : k <= n =>
                     /\ SumTo(v, k) \in Int /\ SumTo(w, k) \in Int
                     /\ SumTo(w, k) = SumTo(v, k) + IF j <= k THEN w[j] - v[j] ELSE 0}
  <1>1. 0 \in S
    BY SumSteps
  <1>2. ASSUME NEW k \in Nat, k \in S PROVE k + 1 \in S
    <2> SUFFICES ASSUME k + 1 <= n
                 PROVE  /\ SumTo(v, k + 1) \in Int /\ SumTo(w, k + 1) \in Int
                        /\ SumTo(w, k + 1) = SumTo(v, k + 1)
                                              + IF j <= k + 1 THEN w[j] - v[j] ELSE 0
      OBVIOUS
    <2>1. /\ SumTo(v, k) \in Int /\ SumTo(w, k) \in Int
          /\ SumTo(w, k) = SumTo(v, k) + IF j <= k THEN w[j] - v[j] ELSE 0
          /\ v[k + 1] \in Int /\ w[k + 1] \in Int /\ v[j] \in Int /\ w[j] \in Int
      BY <1>2
    <2>2. /\ SumTo(v, k + 1) = SumTo(v, k) + v[k + 1]
          /\ SumTo(w, k + 1) = SumTo(w, k) + w[k + 1]
      BY SumSteps
    <2>3. CASE j = k + 1
      BY <2>1, <2>2, <2>3
    <2>4. CASE j # k + 1
      <3>1. w[k + 1] = v[k + 1] /\ (j <= k + 1 <=> j <= k)
        BY <2>4
      <3> QED
        BY <2>1, <2>2, <3>1
    <2> QED
      BY <2>3, <2>4
  <1> HIDE DEF S
  <1>3. n \in S
    BY <1>1, <1>2, SetInduction
  <1> QED
    BY <1>3 DEF S

\* A sum of natural numbers is no smaller than any of them, and grows with its length.
LEMMA SumParts ==
  ASSUME NEW v, NEW n \in Nat, \A q \in 1..n : v[q] \in Nat
  PROVE  /\ SumTo(v, n) \in Nat
         /\ \A q \in 1..n : v[q] <= SumTo(v, n)
         /\ \A k \in 0..n : SumTo(v, k) \in Nat /\ SumTo(v, k) <= SumTo(v, n)
  <1> DEFINE S == {k \in Nat : k <= n =>
                     /\ SumTo(v, k) \in Nat
                     /\ \A q \in 1..k : v[q] <= SumTo(v, k)
                     /\ \A q \in 0..k : SumTo(v, q) \in Nat /\ SumTo(v, q) <= SumTo(v, k)}
  <1>1. 0 \in S
    BY SumSteps
  <1>2. ASSUME NEW k \in Nat, k \in S PROVE k + 1 \in S
    <2> SUFFICES ASSUME k + 1 <= n
                 PROVE  /\ SumTo(v, k + 1) \in Nat
                        /\ \A q \in 1..(k + 1) : v[q] <= SumTo(v, k + 1)
                        /\ \A q \in 0..(k + 1) :
                             SumTo(v, q) \in Nat /\ SumTo(v, q) <= SumTo(v, k + 1)
      OBVIOUS
    <2>1. /\ SumTo(v, k) \in Nat
          /\ \A q \in 1..k : v[q] <= SumTo(v, k)
          /\ \A q \in 0..k : SumTo(v, q) \in Nat /\ SumTo(v, q) <= SumTo(v, k)
          /\ v[k + 1] \in Nat
      BY <1>2
    <2>2. SumTo(v, k + 1) = SumTo(v, k) + v[k + 1]
      BY SumSteps
    <2>3. \A q \in 1..(k + 1) : v[q] <= SumTo(v, k + 1)
      <3> SUFFICES ASSUME NEW q \in 1..(k + 1) PROVE v[q] <= SumTo(v, k + 1)
        OBVIOUS
      <3>1. v[q] \in Nat
        OBVIOUS
      <3>2. q \in 1..k \/ q = k + 1
        OBVIOUS
      <3> QED
        BY <2>1, <2>2, <3>1, <3>2
    <2>4. \A q \in 0..(k + 1) : SumTo(v, q) \in Nat /\ SumTo(v, q) <= SumTo(v, k + 1)
      <3> SUFFICES ASSUME NEW q \in 0..(k + 1)
                   PROVE  SumTo(v, q) \in Nat /\ SumTo(v, q) <= SumTo(v, k + 1)
        OBVIOUS
      <3>1. q \in 0..k \/ q = k + 1
        OBVIOUS
      <3> QED
        BY <2>1, <2>2, <3>1
    <2> QED
      BY <2>1, <2>2, <2>3, <2>4
  <1> HIDE DEF S
  <1>3. n \in S
    BY <1>1, <1>2, SetInduction
  <1> QED
    BY <1>3 DEF S

\* Nothing but zeros.
LEMMA SumZero ==
  ASSUME NEW v, NEW n \in Nat, \A q \in 1..n : v[q] = 0
  PROVE  SumTo(v, n) = 0
  <1> DEFINE S == {k \in Nat : k <= n => SumTo(v, k) = 0}
  <1>1. 0 \in S
    BY SumSteps
  <1>2. ASSUME NEW k \in Nat, k \in S PROVE k + 1 \in S
    BY <1>2, SumSteps
  <1> HIDE DEF S
  <1>3. n \in S
    BY <1>1, <1>2, SetInduction
  <1> QED
    BY <1>3 DEF S

\* The sum of a table does not depend on whether its rows or its columns come first.
LEMMA SumSwap ==
  ASSUME NEW t, NEW m \in Nat, NEW n \in Nat,
         \A q \in 1..m, j \in 1..n : t[q][j] \in Int
  PROVE  SumTo([j \in 1..n |-> SumTo([q \in 1..m |-> t[q][j]], m)], n)
           = SumTo([q \in 1..m |-> SumTo(t[q], n)], m)
  <1> DEFINE column(j) == SumTo([q \in 1..m |-> t[q][j]], m)
             columns == [j \in 1..n |-> column(j)]
             rows(k) == [q \in 1..m |-> SumTo(t[q], k)]
             S == {k \in Nat : k <= n => SumTo(columns, k) = SumTo(rows(k), m)}
  <1>1. 0 \in S
    <2>1. \A q \in 1..m : rows(0)[q] = 0
      BY SumSteps
    <2>2. SumTo(rows(0), m) = 0
      <3> HIDE DEF rows
      <3> QED
        BY <2>1, SumZero
    <2>3. SumTo(columns, 0) = 0
      BY SumSteps
    <2> QED
      BY <2>2, <2>3
  <1>2. ASSUME NEW k \in Nat, k \in S PROVE k + 1 \in S
    <2> SUFFICES ASSUME k + 1 <= n PROVE SumTo(columns, k + 1) = SumTo(rows(k + 1), m)
      OBVIOUS
    <2> DEFINE slice == [q \in 1..m |-> t[q][k + 1]]
    <2>1. SumTo(columns, k) = SumTo(rows(k), m)
      BY <1>2
    <2>2. SumTo(columns, k + 1) = SumTo(columns, k) + SumTo(slice, m)
      <3>1. columns[k + 1] = SumTo(slice, m)
        OBVIOUS
      <3> HIDE DEF columns, slice
      <3> QED
        BY <3>1, SumSteps
    <2>3. \A q \in 1..m : /\ rows(k)[q] \in Int /\ slice[q] \in Int
                          /\ rows(k + 1)[q] = rows(k)[q] + slice[q]
      <3> SUFFICES ASSUME NEW q \in 1..m
                   PROVE  /\ SumTo(t[q], k) \in Int /\ t[q][k + 1] \in Int
                          /\ SumTo(t[q], k + 1) = SumTo(t[q], k) + t[q][k + 1]
        OBVIOUS
      <3>1. \A j \in 1..k : t[q][j] \in Int
        OBVIOUS
      <3>2. t[q][k + 1] \in Int
        OBVIOUS
      <3> QED
        BY <3>1, <3>2, SumType, SumSteps
    <2> HIDE DEF slice, rows, columns
    <2>4. SumTo(rows(k + 1), m) = SumTo(rows(k), m) + SumTo(slice, m)
      BY <2>3, SumPlus
    <2> QED
      BY <2>1, <2>2, <2>4
  <1> HIDE DEF S, columns, rows
  <1>3. n \in S
    BY <1>1, <1>2, SetInduction
  <1>4. SumTo(columns, n) = SumTo(rows(n), m)
    BY <1>3 DEF S
  <1> QED
    BY <1>4 DEF columns, rows

-----------------------------------------------------------------------------
\* What the assumptions on the constants say, in one place.
LEMMA Constants ==
  /\ NrRanges \in Nat \ {0} /\ NrWalks \in Nat \ {0} /\ AntiThrash \in Nat
  /\ Cells \in Nat \ {0, 1}
  /\ \A c \in AllCells : CellKb(c) \in Nat \ {0}
  <1>1. Cells \in Nat \ {0, 1}
    BY MigrateCountAssumption, SMT DEF Cells
  <1>2. ASSUME NEW c \in AllCells PROVE CellKb(c) \in Nat \ {0}
    <2>1. c \in Nat
      BY <1>1, SMT DEF AllCells
    <2>2. TypeOf(c) \in Types
      BY <2>1, SMT DEF TypeOf, Types
    <2> QED
      BY <2>2, MigrateCountAssumption DEF CellKb
  <1> QED
    BY <1>1, <1>2, MigrateCountAssumption, MigrateParamAssumption

\* The smaller and the greater of two numbers
LEMMA LesserGreater ==
  ASSUME NEW a \in Int, NEW b \in Int
  PROVE  /\ Lesser(a, b) \in {a, b} /\ Lesser(a, b) <= a /\ Lesser(a, b) <= b
         /\ Greater(a, b) \in {a, b} /\ a <= Greater(a, b) /\ b <= Greater(a, b)
  BY SMT DEF Lesser, Greater

\* nr_kb is what the cell offers, cut off at the room the limit has left, and the whole
\* pages in it take no more.
LEMMA TakenPages ==
  ASSUME TypeOK, NEW nr \in Nat, NEW room \in Nat
  PROVE  /\ Taken(nr, room) \in Nat /\ Taken(nr, room) <= room
         /\ WholePages(Taken(nr, room)) \in Nat
         /\ WholePages(Taken(nr, room)) * CellKb(cell) <= Taken(nr, room)
  <1> DEFINE kb == CellKb(cell)
             offered == nr * kb
  <1>1. kb \in Nat \ {0}
    BY Constants DEF TypeOK
  <1>2. offered \in Nat
    <2> HIDE DEF kb
    <2> QED
      BY <1>1, SMT
  <1>3. Taken(nr, room) \in Nat /\ Taken(nr, room) <= room
    <2> HIDE DEF offered
    <2>1. Lesser(offered, room) \in Nat /\ Lesser(offered, room) <= room
      BY <1>2, SMT DEF Lesser
    <2> QED
      BY <2>1 DEF offered, Taken
  <1>4. ASSUME NEW a \in Nat, NEW k \in Nat \ {0}
        PROVE  a \div k \in Nat /\ (a \div k) * k <= a
    BY SMT
  <1> QED
    BY <1>1, <1>3, <1>4 DEF WholePages

-----------------------------------------------------------------------------
(* Type correctness.                                                       *)

\* anti_thrashing() keeps both thresholds inside the histogram, and touches neither
\* number of pages.
LEMMA AntiThrashingType ==
  ASSUME TypeOK, NEW p \in ParameterType
  PROVE  /\ AntiThrashing(p) \in ParameterType
         /\ AntiThrashing(p).nr_promote = p.nr_promote
         /\ AntiThrashing(p).nr_demote = p.nr_demote
  <1> DEFINE cold == Greater(p.hot_threshold - AntiThrash, 0)
             hot == Lesser(p.cold_threshold + AntiThrash, NrWalks)
  <1>1. /\ p.hot_threshold \in 1..(NrWalks + 1) /\ p.cold_threshold \in -1..(NrWalks - 1)
        /\ p.nr_promote \in Nat /\ p.nr_demote \in Nat
    BY DEF ParameterType
  <1>2. CASE p.cold_threshold < 0 \/ p.hot_threshold > NrWalks \/ FarApart(p)
    BY <1>2 DEF AntiThrashing
  <1>3. CASE ~(p.cold_threshold < 0 \/ p.hot_threshold > NrWalks \/ FarApart(p))
    <2>1. p.hot_threshold - p.cold_threshold < AntiThrash
      BY <1>1, <1>3, Constants, SMT DEF FarApart
    <2>2. p.cold_threshold >= 0 /\ p.hot_threshold <= NrWalks
      BY <1>1, <1>3, Constants, SMT
    <2>3. p.hot_threshold = NrWalks => cold \in 0..(NrWalks - 1)
      BY <1>1, <2>1, <2>2, Constants, SMT DEF Greater
    <2>4. hot \in 1..NrWalks
      BY <1>1, <2>1, <2>2, Constants, SMT DEF Lesser
    <2>5. pmem \in Histograms /\ dram \in Histograms /\ cell \in AllCells
      BY DEF TypeOK, InputType, pmem, dram
    <2>6. CASE p.hot_threshold = NrWalks
      <3>1. cold \in Refs
        BY <2>3, <2>6, Constants, SMT DEF Refs
      <3>2. dram[cell][cold] \in Nat
        BY <2>5, <3>1 DEF Histograms
      <3>3. Lesser(dram[cell][cold], p.nr_demote) \in Nat
        BY <1>1, <3>2 DEF Lesser
      <3>4. AntiThrashing(p) = [p EXCEPT !.cold_threshold = cold,
                                  !.demote_remain = Lesser(dram[cell][cold], p.nr_demote),
                                  !.enabled = FALSE]
        BY <1>3, <2>6 DEF AntiThrashing, ParameterType
      <3>5. cold \in -1..(NrWalks - 1)
        BY <2>3, <2>6, Constants, SMT
      <3> HIDE DEF cold
      <3> QED
        BY <3>3, <3>4, <3>5 DEF ParameterType
    <2>7. CASE p.hot_threshold # NrWalks
      <3>1. hot \in Refs
        BY <2>4, Constants, SMT DEF Refs
      <3>2. pmem[cell][hot] \in Nat
        BY <2>5, <3>1 DEF Histograms
      <3>3. Lesser(pmem[cell][hot], p.nr_promote) \in Nat
        BY <1>1, <3>2 DEF Lesser
      <3>4. AntiThrashing(p) = [p EXCEPT !.hot_threshold = hot,
                                  !.promote_remain = Lesser(pmem[cell][hot], p.nr_promote),
                                  !.enabled = FALSE]
        BY <1>3, <2>7 DEF AntiThrashing, ParameterType
      <3>5. hot \in 1..(NrWalks + 1)
        BY <2>4, Constants, SMT
      <3> HIDE DEF hot
      <3> QED
        BY <3>3, <3>4, <3>5 DEF ParameterType
    <2> QED
      BY <2>6, <2>7
  <1> QED
    BY <1>2, <1>3

\* The loops stay inside the cells and the reference counts.
LEMMA NextCellType ==
  ASSUME TypeOK, NextCell
  PROVE  i' \in Refs /\ cell' \in AllCells /\ part' \in {"hot", "cold", "done"}
  <1>1. i \in Refs /\ cell \in AllCells
    BY DEF TypeOK
  <1>2. i' \in Refs
    BY <1>1, Constants, SMT DEF NextCell, Refs
  <1>3. cell' \in AllCells
    BY <1>1, Constants, SMT DEF NextCell, AllCells
  <1> QED
    BY <1>2, <1>3 DEF NextCell

\* What SelectHot does to the cell's parameter and to the count.
LEMMA SelectHotStep ==
  ASSUME TypeOK, SelectHot
  PROVE  /\ parameter[cell] \in ParameterType /\ CellKb(cell) \in Nat \ {0}
         /\ \E page \in Nat, kb \in Nat, p \in ParameterType :
              /\ page * CellKb(cell) <= kb
              /\ promote_count_kb + kb <= promote_limit_kb
              /\ promote_count_kb' = promote_count_kb + kb
              /\ parameter' = [parameter EXCEPT ![cell] = p]
              /\ p.nr_promote = parameter[cell].nr_promote + page
              /\ p.nr_demote = parameter[cell].nr_demote
  <1> DEFINE room == promote_limit_kb - promote_count_kb
             nr == pmem[cell][hot_threshold]
             kb == Taken(nr, room)
             page == WholePages(kb)
             p == [parameter[cell] EXCEPT
                     !.nr_promote = @ + page, !.promote_remain = page,
                     !.hot_threshold = hot_threshold, !.hot_threshold_max = NrWalks,
                     !.enabled = TRUE]
  <1>1. /\ cell \in AllCells /\ i \in Refs /\ parameter \in [AllCells -> ParameterType]
        /\ promote_limit_kb \in Nat /\ promote_count_kb \in 0..promote_limit_kb
        /\ pmem \in Histograms
    BY DEF TypeOK, InputType, pmem, promote_limit_kb
  <1>2. hot_threshold > 0
    BY DEF SelectHot, HotWanted
  <1>3. hot_threshold \in 1..(NrWalks + 1) /\ hot_threshold \in Refs
    BY <1>1, <1>2, Constants, SMT DEF hot_threshold, Refs
  <1>4. nr \in Nat
    BY <1>1, <1>3 DEF Histograms
  <1>5. room \in Nat
    BY <1>1, SMT
  <1>6. kb \in Nat /\ kb <= room /\ page \in Nat /\ page * CellKb(cell) <= kb
    <2> HIDE DEF nr, room
    <2> QED
      BY <1>4, <1>5, TakenPages
  <1>7. promote_count_kb + kb <= promote_limit_kb
    <2> HIDE DEF kb
    <2> QED
      BY <1>1, <1>6, SMT
  <1>8. parameter' = [parameter EXCEPT ![cell] = p] /\ promote_count_kb' = promote_count_kb + kb
    BY DEF SelectHot
  <1>9. parameter[cell] \in ParameterType
    BY <1>1
  <1>10. /\ p \in ParameterType
         /\ p.nr_promote = parameter[cell].nr_promote + page
         /\ p.nr_demote = parameter[cell].nr_demote
    <2> HIDE DEF page
    <2>1. parameter[cell].nr_promote + page \in Nat
      BY <1>6, <1>9, SMT DEF ParameterType
    <2> QED
      BY <1>3, <1>6, <1>9, <2>1 DEF ParameterType
  <1>11. CellKb(cell) \in Nat \ {0}
    BY <1>1, Constants
  <1> HIDE DEF kb, page, p
  <1> QED
    BY <1>6, <1>7, <1>8, <1>9, <1>10, <1>11

\* What SelectCold does to the cell's parameter and to the count.
LEMMA SelectColdStep ==
  ASSUME TypeOK, SelectCold
  PROVE  /\ parameter[cell] \in ParameterType /\ CellKb(cell) \in Nat \ {0}
         /\ \E page \in Nat, kb \in Nat, p \in ParameterType :
              /\ page * CellKb(cell) <= kb
              /\ demote_count_kb + kb <= demote_limit_kb
              /\ demote_count_kb' = demote_count_kb + kb
              /\ parameter' = [parameter EXCEPT ![cell] = p]
              /\ p.nr_demote = parameter[cell].nr_demote + page
              /\ p.nr_promote = parameter[cell].nr_promote
  <1> DEFINE room == demote_limit_kb - demote_count_kb
             nr == dram[cell][cold_threshold]
             kb == Taken(nr, room)
             page == WholePages(kb)
             chosen == [parameter[cell] EXCEPT
                          !.nr_demote = @ + page, !.demote_remain = page,
                          !.cold_threshold = cold_threshold, !.cold_threshold_min = 0,
                          !.enabled = TRUE]
             p == IF in_adjust_ratio_stage THEN chosen ELSE AntiThrashing(chosen)
  <1>1. /\ cell \in AllCells /\ i \in Refs /\ parameter \in [AllCells -> ParameterType]
        /\ demote_limit_kb \in Nat /\ demote_count_kb \in 0..demote_limit_kb
        /\ dram \in Histograms
    BY DEF TypeOK, InputType, dram, demote_limit_kb
  <1>2. cold_threshold < NrWalks
    BY DEF SelectCold, ColdWanted
  <1>3. cold_threshold \in 0..(NrWalks - 1) /\ cold_threshold \in Refs
    BY <1>1, <1>2, Constants, SMT DEF cold_threshold, Refs
  <1>4. nr \in Nat
    BY <1>1, <1>3 DEF Histograms
  <1>5. room \in Nat
    BY <1>1, SMT
  <1>6. kb \in Nat /\ kb <= room /\ page \in Nat /\ page * CellKb(cell) <= kb
    <2> HIDE DEF nr, room
    <2> QED
      BY <1>4, <1>5, TakenPages
  <1>7. demote_count_kb + kb <= demote_limit_kb
    <2> HIDE DEF kb
    <2> QED
      BY <1>1, <1>6, SMT
  <1>8. parameter' = [parameter EXCEPT ![cell] = p] /\ demote_count_kb' = demote_count_kb + kb
    BY DEF SelectCold
  <1>9. parameter[cell] \in ParameterType
    BY <1>1
  <1>10. /\ chosen \in ParameterType
         /\ chosen.nr_demote = parameter[cell].nr_demote + page
         /\ chosen.nr_promote = parameter[cell].nr_promote
    <2> HIDE DEF page
    <2>1. parameter[cell].nr_demote + page \in Nat
      BY <1>6, <1>9, SMT DEF ParameterType
    <2>2. cold_threshold \in -1..(NrWalks - 1)
      BY <1>3, Constants, SMT
    <2> QED
      BY <1>6, <1>9, <2>1, <2>2 DEF ParameterType
  <1>11. p \in ParameterType /\ p.nr_demote = chosen.nr_demote /\ p.nr_promote = chosen.nr_promote
    <2> HIDE DEF chosen
    <2> QED
      BY <1>10, AntiThrashingType
  <1>12. CellKb(cell) \in Nat \ {0}
    BY <1>1, Constants
  <1> HIDE DEF kb, page, p, chosen
  <1> QED
    BY <1>6, <1>7, <1>8, <1>9, <1>10, <1>11, <1>12

\* Every step keeps the types, so no threshold leaves the histogram it indexes and no
\* count exceeds its limit.
LEMMA TypeStep == TypeOK /\ [Next]_vars => TypeOK'
  <1> SUFFICES ASSUME TypeOK, [Next]_vars PROVE TypeOK'
    OBVIOUS
  <1>0. /\ parameter \in [AllCells -> ParameterType] /\ cell \in AllCells /\ i \in Refs
        /\ promote_limit_kb \in Nat /\ demote_limit_kb \in Nat /\ input \in InputType
        /\ promote_count_kb \in 0..promote_limit_kb /\ demote_count_kb \in 0..demote_limit_kb
        /\ part \in {"hot", "cold", "done"}
    BY DEF TypeOK, InputType, promote_limit_kb, demote_limit_kb
  <1>1. CASE SelectHot
    <2>1. input' = input /\ i' = i /\ cell' = cell /\ part' = "cold" /\ demote_count_kb' = demote_count_kb
      BY <1>1 DEF SelectHot
    <2>2. PICK page \in Nat, kb \in Nat, p \in ParameterType :
            /\ promote_count_kb + kb <= promote_limit_kb
            /\ promote_count_kb' = promote_count_kb + kb
            /\ parameter' = [parameter EXCEPT ![cell] = p]
      BY <1>1, SelectHotStep
    <2>3. promote_count_kb + kb \in 0..promote_limit_kb
      BY <1>0, <2>2, SMT
    <2>4. parameter' \in [AllCells -> ParameterType]
      BY <1>0, <2>2
    <2> QED
      BY <1>0, <2>1, <2>2, <2>3, <2>4 DEF TypeOK, promote_limit_kb, demote_limit_kb
  <1>2. CASE SkipHot
    BY <1>2, <1>0 DEF SkipHot, TypeOK, promote_limit_kb, demote_limit_kb
  <1>3. CASE SelectCold
    <2>1. input' = input /\ NextCell /\ promote_count_kb' = promote_count_kb
      BY <1>3 DEF SelectCold
    <2>2. PICK page \in Nat, kb \in Nat, p \in ParameterType :
            /\ demote_count_kb + kb <= demote_limit_kb
            /\ demote_count_kb' = demote_count_kb + kb
            /\ parameter' = [parameter EXCEPT ![cell] = p]
      BY <1>3, SelectColdStep
    <2>3. demote_count_kb + kb \in 0..demote_limit_kb
      BY <1>0, <2>2, SMT
    <2>4. parameter' \in [AllCells -> ParameterType]
      BY <1>0, <2>2
    <2>5. i' \in Refs /\ cell' \in AllCells /\ part' \in {"hot", "cold", "done"}
      BY <2>1, NextCellType
    <2> QED
      BY <1>0, <2>1, <2>2, <2>3, <2>4, <2>5 DEF TypeOK, promote_limit_kb, demote_limit_kb
  <1>4. CASE SkipCold
    <2>1. /\ NextCell
          /\ UNCHANGED <<input, parameter, promote_count_kb, demote_count_kb>>
      BY <1>4 DEF SkipCold
    <2>2. i' \in Refs /\ cell' \in AllCells /\ part' \in {"hot", "cold", "done"}
      BY <2>1, NextCellType
    <2> QED
      BY <1>0, <2>1, <2>2 DEF TypeOK, promote_limit_kb, demote_limit_kb
  <1>5. CASE UNCHANGED vars
    BY <1>5, <1>0 DEF vars, TypeOK, promote_limit_kb, demote_limit_kb
  <1> QED
    BY <1>1, <1>2, <1>3, <1>4, <1>5 DEF Next

\* The loop starts with no page selected.
LEMMA TypeInit == Init => TypeOK
  <1> SUFFICES ASSUME Init PROVE TypeOK
    OBVIOUS
  <1>1. input \in InputType
    BY MigrateParamAssumption DEF Init
  <1>2. promote_limit_kb \in Nat /\ demote_limit_kb \in Nat
    BY <1>1 DEF InputType, promote_limit_kb, demote_limit_kb
  <1>3. InitialParameter \in ParameterType
    BY Constants, SMT DEF InitialParameter, ParameterType
  <1>4. i \in Refs /\ cell \in AllCells
    BY Constants, SMT DEF Init, Refs, AllCells
  <1>5. promote_count_kb \in 0..promote_limit_kb /\ demote_count_kb \in 0..demote_limit_kb
    BY <1>2, SMT DEF Init
  <1> QED
    BY <1>1, <1>3, <1>4, <1>5 DEF TypeOK, Init

\* The choice of pages never indexes a histogram outside 0..nr_walks and never counts
\* more than a limit, for any number of ranges, histograms and limits.
THEOREM TypeCorrect == Spec => []TypeOK
  BY TypeInit, TypeStep, PTL DEF Spec

-----------------------------------------------------------------------------
(* The budget of a cell.                                                   *)

\* Adding page pages of k KB to a cell's number takes kb off the limit, or more.
LEMMA AddPages ==
  ASSUME NEW n \in Nat, NEW page \in Nat, NEW k \in Nat, NEW count \in Nat, NEW kb \in Nat,
         n * k <= count, page * k <= kb
  PROVE  (n + page) * k <= count + kb
  <1>1. (n + page) * k = n * k + page * k
    BY SMT
  <1>2. n * k \in Nat /\ page * k \in Nat
    BY SMT
  <1> QED
    BY <1>1, <1>2, SMT

\* A count only grows, so the cells that a step leaves alone stay within it.
LEMMA CountGrows ==
  ASSUME NEW n \in Nat, NEW k \in Nat, NEW count \in Nat, NEW kb \in Nat, n * k <= count
  PROVE  n * k <= count + kb
  <1>1. n * k \in Nat
    BY SMT
  <1> QED
    BY <1>1, SMT

\* Each step adds to a cell's number no more than it adds to the period's count, and
\* anti_thrashing() takes nothing back from either.
LEMMA BudgetStep == TypeOK /\ CellWithinCount /\ [Next]_vars => CellWithinCount'
  <1> SUFFICES ASSUME TypeOK, CellWithinCount, [Next]_vars PROVE CellWithinCount'
    OBVIOUS
  <1>0. /\ parameter \in [AllCells -> ParameterType] /\ cell \in AllCells
        /\ promote_count_kb \in Nat /\ demote_count_kb \in Nat
        /\ \A c \in AllCells : /\ parameter[c].nr_promote \in Nat
                              /\ parameter[c].nr_demote \in Nat /\ CellKb(c) \in Nat
    <2>1. parameter \in [AllCells -> ParameterType] /\ cell \in AllCells
      BY DEF TypeOK
    <2>2. promote_limit_kb \in Nat /\ demote_limit_kb \in Nat
      BY DEF TypeOK, InputType, promote_limit_kb, demote_limit_kb
    <2>3. promote_count_kb \in Nat /\ demote_count_kb \in Nat
      BY <2>2, SMT DEF TypeOK
    <2> QED
      BY <2>1, <2>3, Constants DEF ParameterType
  <1>1. CASE SelectHot
    <2>1. PICK page \in Nat, kb \in Nat, p \in ParameterType :
            /\ page * CellKb(cell) <= kb
            /\ promote_count_kb' = promote_count_kb + kb
            /\ parameter' = [parameter EXCEPT ![cell] = p]
            /\ p.nr_promote = parameter[cell].nr_promote + page
            /\ p.nr_demote = parameter[cell].nr_demote
      BY <1>1, SelectHotStep
    <2>2. demote_count_kb' = demote_count_kb
      BY <1>1 DEF SelectHot
    <2>3. ASSUME NEW c \in AllCells
          PROVE  /\ parameter'[c].nr_promote * CellKb(c) <= promote_count_kb + kb
                 /\ parameter'[c].nr_demote * CellKb(c) <= demote_count_kb
      <3>1. CASE c = cell
        <4>1. parameter'[c].nr_promote = parameter[c].nr_promote + page
          BY <1>0, <2>1, <3>1
        <4>2. parameter'[c].nr_demote = parameter[c].nr_demote
          BY <1>0, <2>1, <3>1
        <4>3. (parameter[c].nr_promote + page) * CellKb(c) <= promote_count_kb + kb
          BY <1>0, <2>1, <3>1, AddPages DEF CellWithinCount
        <4> QED
          BY <4>1, <4>2, <4>3 DEF CellWithinCount
      <3>2. CASE c # cell
        <4>1. parameter'[c] = parameter[c]
          BY <1>0, <2>1, <3>2
        <4>2. parameter[c].nr_promote * CellKb(c) <= promote_count_kb + kb
          BY <1>0, CountGrows DEF CellWithinCount
        <4> QED
          BY <4>1, <4>2 DEF CellWithinCount
      <3> QED
        BY <3>1, <3>2
    <2> QED
      BY <2>1, <2>2, <2>3 DEF CellWithinCount
  <1>2. CASE SelectCold
    <2>1. PICK page \in Nat, kb \in Nat, p \in ParameterType :
            /\ page * CellKb(cell) <= kb
            /\ demote_count_kb' = demote_count_kb + kb
            /\ parameter' = [parameter EXCEPT ![cell] = p]
            /\ p.nr_demote = parameter[cell].nr_demote + page
            /\ p.nr_promote = parameter[cell].nr_promote
      BY <1>2, SelectColdStep
    <2>2. promote_count_kb' = promote_count_kb
      BY <1>2 DEF SelectCold
    <2>3. ASSUME NEW c \in AllCells
          PROVE  /\ parameter'[c].nr_demote * CellKb(c) <= demote_count_kb + kb
                 /\ parameter'[c].nr_promote * CellKb(c) <= promote_count_kb
      <3>1. CASE c = cell
        <4>1. parameter'[c].nr_demote = parameter[c].nr_demote + page
          BY <1>0, <2>1, <3>1
        <4>2. parameter'[c].nr_promote = parameter[c].nr_promote
          BY <1>0, <2>1, <3>1
        <4>3. (parameter[c].nr_demote + page) * CellKb(c) <= demote_count_kb + kb
          BY <1>0, <2>1, <3>1, AddPages DEF CellWithinCount
        <4> QED
          BY <4>1, <4>2, <4>3 DEF CellWithinCount
      <3>2. CASE c # cell
        <4>1. parameter'[c] = parameter[c]
          BY <1>0, <2>1, <3>2
        <4>2. parameter[c].nr_demote * CellKb(c) <= demote_count_kb + kb
          BY <1>0, CountGrows DEF CellWithinCount
        <4> QED
          BY <4>1, <4>2 DEF CellWithinCount
      <3> QED
        BY <3>1, <3>2
    <2> QED
      BY <2>1, <2>2, <2>3 DEF CellWithinCount
  <1>3. CASE UNCHANGED <<parameter, promote_count_kb, demote_count_kb>>
    BY <1>3 DEF CellWithinCount
  <1> QED
    BY <1>1, <1>2, <1>3 DEF Next, SkipHot, SkipCold, vars

\* The pages counted for one range and page type never take more than the period's
\* count, and so never more than its limit: rounding to whole pages and the moves of
\* anti_thrashing() only ever leave room over.
THEOREM BudgetKept == Spec => []CellWithinCount
  <1>1. Init => CellWithinCount
    <2> SUFFICES ASSUME Init, NEW c \in AllCells
                 PROVE  /\ parameter[c].nr_promote * CellKb(c) <= promote_count_kb
                        /\ parameter[c].nr_demote * CellKb(c) <= demote_count_kb
      BY DEF CellWithinCount
    <2>1. parameter[c].nr_promote = 0 /\ parameter[c].nr_demote = 0
      BY DEF Init, InitialParameter
    <2>2. 0 * CellKb(c) = 0
      BY Constants, SMT
    <2> QED
      BY <2>1, <2>2, SMT DEF Init
  <1> QED
    BY <1>1, TypeInit, TypeStep, BudgetStep, PTL DEF Spec

-----------------------------------------------------------------------------
(* The hottest and the coldest pages first: the invariant.                 *)

\* The parameter p selects all nr pages of its cell that have n references.
HotFull(p, nr, n) ==
  nr = 0 \/ p.hot_threshold < n \/ (p.hot_threshold = n /\ p.promote_remain >= nr)

ColdFull(p, nr, n) ==
  nr = 0 \/ p.cold_threshold > n \/ (p.cold_threshold = n /\ p.demote_remain >= nr)

\* The loop has been at cell c for its pages with n references.
HotVisited(c, n) ==
  n > hot_threshold \/ (n = hot_threshold /\ (c < cell \/ (c = cell /\ part # "hot")))

ColdVisited(c, n) == n < cold_threshold \/ (n = cold_threshold /\ c < cell)

\* The hottest pages first: while there is room all that was visited is taken, and what
\* is hotter than anything taken is taken for good.
HotTaken(p) == p.hot_threshold <= NrWalks => p.enabled /\ p.hot_threshold_max = NrWalks

HotOrder ==
  /\ \A c \in AllCells : parameter[c].hot_threshold >= hot_threshold /\ HotTaken(parameter[c])
  /\ promote_count_kb < promote_limit_kb =>
       \A c \in AllCells, n \in 1..NrWalks :
         HotVisited(c, n) => HotFull(parameter[c], pmem[c][n], n)
  /\ \A c, d \in AllCells, m, n \in Refs :
       m < n /\ parameter[c].hot_threshold <= m => HotFull(parameter[d], pmem[d][n], n)

\* The coldest pages first.
ColdTaken(p) ==
  /\ p.cold_threshold >= 0 => p.enabled /\ p.cold_threshold_min = 0
  /\ p.nr_demote # 0 => p.enabled

ColdOrder ==
  /\ \A c \in AllCells : parameter[c].cold_threshold <= cold_threshold /\ ColdTaken(parameter[c])
  /\ demote_count_kb < demote_limit_kb =>
       \A c \in AllCells, n \in 0..(NrWalks - 1) :
         ColdVisited(c, n) => ColdFull(parameter[c], dram[c][n], n)
  /\ \A c, d \in AllCells, m, n \in Refs :
       m < n /\ n <= parameter[c].cold_threshold => ColdFull(parameter[d], dram[d][m], m)

Ordered == in_adjust_ratio_stage => HotOrder /\ ColdOrder

-----------------------------------------------------------------------------
(* What one step selects.                                                  *)

\* Types as numbers.
LEMMA OrderTypes ==
  ASSUME TypeOK
  PROVE  /\ cell \in AllCells /\ i \in Refs /\ parameter \in [AllCells -> ParameterType]
         /\ \A c \in AllCells : parameter[c] \in ParameterType /\ c \in Int
         /\ Cells \in Nat /\ NrWalks \in Nat /\ AllCells = 1..Cells /\ Refs = 0..NrWalks
         /\ promote_limit_kb \in Nat /\ promote_count_kb \in Nat
         /\ demote_limit_kb \in Nat /\ demote_count_kb \in Nat
         /\ promote_count_kb <= promote_limit_kb /\ demote_count_kb <= demote_limit_kb
         /\ \A c \in AllCells, n \in Refs : pmem[c][n] \in Nat /\ dram[c][n] \in Nat
         /\ hot_threshold \in Refs /\ cold_threshold \in Refs
  <1>1. /\ cell \in AllCells /\ i \in Refs /\ parameter \in [AllCells -> ParameterType]
        /\ promote_limit_kb \in Nat /\ demote_limit_kb \in Nat
        /\ pmem \in Histograms /\ dram \in Histograms
    BY DEF TypeOK, InputType, promote_limit_kb, demote_limit_kb, pmem, dram
  <1>2. \A c \in AllCells, n \in Refs : pmem[c][n] \in Nat /\ dram[c][n] \in Nat
    BY <1>1 DEF Histograms
  <1>3. /\ promote_count_kb \in Nat /\ promote_count_kb <= promote_limit_kb
        /\ demote_count_kb \in Nat /\ demote_count_kb <= demote_limit_kb
    BY <1>1 DEF TypeOK
  <1>4. hot_threshold \in Refs /\ cold_threshold \in Refs
    BY <1>1, Constants DEF hot_threshold, cold_threshold, Refs
  <1>5. \A c \in AllCells : parameter[c] \in ParameterType /\ c \in Int
    BY <1>1, Constants DEF AllCells
  <1> QED
    BY <1>1, <1>2, <1>3, <1>4, <1>5, Constants DEF AllCells, Refs

\* A cell that is not cut off by the limit is taken as a whole.
LEMMA TakenAll ==
  ASSUME TypeOK, NEW nr \in Nat, NEW room \in Nat, Taken(nr, room) < room
  PROVE  WholePages(Taken(nr, room)) = nr
  <1>1. CellKb(cell) \in Nat \ {0}
    BY Constants DEF TypeOK
  <1>2. ASSUME NEW k \in Nat \ {0} PROVE nr * k \in Nat /\ (nr * k) \div k = nr
    BY SMT
  <1>3. Taken(nr, room) = nr * CellKb(cell)
    BY <1>1, <1>2 DEF Taken, Lesser
  <1> QED
    BY <1>1, <1>2, <1>3 DEF WholePages

\* SelectHot moves one cell's threshold to the current one.
LEMMA SelectHotChoice ==
  ASSUME TypeOK, SelectHot
  PROVE  /\ promote_count_kb < promote_limit_kb /\ hot_threshold > 0
         /\ \E p : /\ parameter' = [parameter EXCEPT ![cell] = p]
                   /\ p.hot_threshold = hot_threshold /\ p.hot_threshold_max = NrWalks
                   /\ p.enabled
                   /\ p.cold_threshold = parameter[cell].cold_threshold
                   /\ p.cold_threshold_min = parameter[cell].cold_threshold_min
                   /\ p.demote_remain = parameter[cell].demote_remain
                   /\ promote_count_kb' < promote_limit_kb =>
                        p.promote_remain = pmem[cell][hot_threshold]
  <1> DEFINE room == promote_limit_kb - promote_count_kb
             nr == pmem[cell][hot_threshold]
             page == WholePages(Taken(nr, room))
             p == [parameter[cell] EXCEPT
                     !.nr_promote = @ + page, !.promote_remain = page,
                     !.hot_threshold = hot_threshold, !.hot_threshold_max = NrWalks,
                     !.enabled = TRUE]
  <1>1. promote_count_kb < promote_limit_kb /\ hot_threshold > 0
    BY DEF SelectHot, HotWanted
  <1>2. room \in Nat /\ nr \in Nat /\ parameter[cell] \in ParameterType
    BY <1>1, OrderTypes
  <1>3. parameter' = [parameter EXCEPT ![cell] = p]
        /\ promote_count_kb' = promote_count_kb + Taken(nr, room)
    BY DEF SelectHot
  <1>4. promote_count_kb' < promote_limit_kb => page = nr
    <2>1. Taken(nr, room) \in Nat
      BY <1>2, TakenPages
    <2>2. promote_count_kb' < promote_limit_kb => Taken(nr, room) < room
      BY <1>3, <2>1, OrderTypes
    <2> QED
      BY <1>2, <2>2, TakenAll
  <1>5. /\ p.hot_threshold = hot_threshold /\ p.hot_threshold_max = NrWalks
        /\ p.enabled
        /\ p.cold_threshold = parameter[cell].cold_threshold
        /\ p.cold_threshold_min = parameter[cell].cold_threshold_min
        /\ p.demote_remain = parameter[cell].demote_remain
        /\ p.promote_remain = page
    BY <1>2 DEF ParameterType
  <1> HIDE DEF p, page, nr
  <1>6. nr = pmem[cell][hot_threshold]
    BY DEF nr
  <1> QED
    BY <1>1, <1>3, <1>4, <1>5, <1>6

\* SelectCold, without anti_thrashing().
LEMMA SelectColdChoice ==
  ASSUME TypeOK, SelectCold, in_adjust_ratio_stage
  PROVE  /\ demote_count_kb < demote_limit_kb /\ cold_threshold < NrWalks
         /\ \E p : /\ parameter' = [parameter EXCEPT ![cell] = p]
                   /\ p.cold_threshold = cold_threshold /\ p.cold_threshold_min = 0
                   /\ p.enabled
                   /\ p.hot_threshold = parameter[cell].hot_threshold
                   /\ p.hot_threshold_max = parameter[cell].hot_threshold_max
                   /\ p.promote_remain = parameter[cell].promote_remain
                   /\ demote_count_kb' < demote_limit_kb =>
                        p.demote_remain = dram[cell][cold_threshold]
  <1> DEFINE room == demote_limit_kb - demote_count_kb
             nr == dram[cell][cold_threshold]
             page == WholePages(Taken(nr, room))
             p == [parameter[cell] EXCEPT
                     !.nr_demote = @ + page, !.demote_remain = page,
                     !.cold_threshold = cold_threshold, !.cold_threshold_min = 0,
                     !.enabled = TRUE]
  <1>1. demote_count_kb < demote_limit_kb /\ cold_threshold < NrWalks
    BY DEF SelectCold, ColdWanted
  <1>2. room \in Nat /\ nr \in Nat /\ parameter[cell] \in ParameterType
    BY <1>1, OrderTypes
  <1>3. parameter' = [parameter EXCEPT ![cell] = p]
        /\ demote_count_kb' = demote_count_kb + Taken(nr, room)
    BY DEF SelectCold
  <1>4. demote_count_kb' < demote_limit_kb => page = nr
    <2>1. Taken(nr, room) \in Nat
      BY <1>2, TakenPages
    <2>2. demote_count_kb' < demote_limit_kb => Taken(nr, room) < room
      BY <1>3, <2>1, OrderTypes
    <2> QED
      BY <1>2, <2>2, TakenAll
  <1>5. /\ p.cold_threshold = cold_threshold /\ p.cold_threshold_min = 0
        /\ p.enabled
        /\ p.hot_threshold = parameter[cell].hot_threshold
        /\ p.hot_threshold_max = parameter[cell].hot_threshold_max
        /\ p.promote_remain = parameter[cell].promote_remain
        /\ p.demote_remain = page
    BY <1>2 DEF ParameterType
  <1> HIDE DEF p, page, nr
  <1>6. nr = dram[cell][cold_threshold]
    BY DEF nr
  <1> QED
    BY <1>1, <1>3, <1>4, <1>5, <1>6

\* Between two cells nothing is visited but the pages of the cell that is left.
LEMMA NextCellVisits ==
  ASSUME TypeOK, NextCell, part = "cold"
  PROVE  /\ hot_threshold' <= hot_threshold /\ cold_threshold <= cold_threshold'
         /\ \A c \in AllCells : \A n \in 1..NrWalks : HotVisited(c, n)' => HotVisited(c, n)
         /\ \A c \in AllCells : \A n \in 0..(NrWalks - 1) : ColdVisited(c, n)' =>
              ColdVisited(c, n) \/ (c = cell /\ n = cold_threshold)
  <1>1. /\ cell \in 1..Cells /\ i \in 0..NrWalks /\ Cells \in Nat /\ NrWalks \in Nat
        /\ AllCells = 1..Cells
    BY OrderTypes
  <1>2. \/ cell < Cells /\ i' = i /\ cell' = cell + 1
        \/ cell = Cells /\ i < NrWalks /\ i' = i + 1 /\ cell' = 1 /\ part' = "hot"
        \/ cell = Cells /\ i = NrWalks /\ i' = i
    BY <1>1 DEF NextCell
  <1>3. cell < Cells => part' = "hot"
    BY <1>1 DEF NextCell
  <1> QED
    BY <1>1, <1>2, <1>3 DEF HotVisited, ColdVisited, hot_threshold, cold_threshold

-----------------------------------------------------------------------------
(* Every step keeps the order.                                             *)

\* SelectHot lowers one threshold while there is room, so all that is hotter was taken.
LEMMA HotStepHotOrder ==
  ASSUME TypeOK, HotOrder, SelectHot \/ SkipHot
  PROVE  HotOrder'
  <1>0. /\ UNCHANGED <<input, i, cell>> /\ part = "hot" /\ part' = "cold"
        /\ hot_threshold' = hot_threshold /\ hot_threshold \in 0..NrWalks
        /\ pmem' = pmem /\ promote_limit_kb' = promote_limit_kb
    BY OrderTypes DEF SelectHot, SkipHot, hot_threshold, pmem, promote_limit_kb
  <1>1. \A c \in AllCells, n \in 1..NrWalks :
          HotVisited(c, n)' => HotVisited(c, n) \/ (c = cell /\ n = hot_threshold)
    BY <1>0, OrderTypes DEF HotVisited
  <1>2. CASE SelectHot
    <2>1. PICK p : /\ parameter' = [parameter EXCEPT ![cell] = p]
                   /\ p.hot_threshold = hot_threshold /\ p.hot_threshold_max = NrWalks
                   /\ p.enabled
                   /\ promote_count_kb' < promote_limit_kb =>
                        p.promote_remain = pmem[cell][hot_threshold]
      BY <1>2, SelectHotChoice
    <2>2. /\ parameter'[cell] = p
          /\ \A c \in AllCells : c # cell => parameter'[c] = parameter[c]
      BY <2>1, OrderTypes
    <2>3. /\ promote_count_kb < promote_limit_kb /\ hot_threshold \in 1..NrWalks
      BY <1>0, <1>2, SelectHotChoice
    <2>4. \A c \in AllCells, n \in 1..NrWalks :
            HotVisited(c, n) => HotFull(parameter[c], pmem[c][n], n)
      BY <2>3 DEF HotOrder
    <2>5. \A n \in 0..NrWalks : n > hot_threshold => HotFull(p, pmem[cell][n], n)
      BY <1>0, <2>1 DEF HotFull
    <2>6. \A c \in AllCells :
            parameter'[c].hot_threshold >= hot_threshold /\ HotTaken(parameter'[c])
      <3>1. HotTaken(p) /\ p.hot_threshold >= hot_threshold
        BY <1>0, <2>1 DEF HotTaken
      <3> QED
        BY <2>2, <3>1 DEF HotOrder
    <2>7. ASSUME promote_count_kb' < promote_limit_kb, NEW c \in AllCells,
                 NEW n \in 1..NrWalks, HotVisited(c, n)'
          PROVE  HotFull(parameter'[c], pmem[c][n], n)
      <3>1. CASE c = cell /\ n = hot_threshold
        <4>1. p.promote_remain = pmem[c][n] /\ pmem[c][n] \in Nat
          BY <2>1, <2>7, <3>1, OrderTypes
        <4> QED
          BY <2>1, <2>2, <3>1, <4>1 DEF HotFull
      <3>2. CASE c = cell /\ n # hot_threshold
        <4>1. n > hot_threshold
          BY <1>1, <2>7, <3>2 DEF HotVisited
        <4> QED
          BY <2>2, <2>5, <3>2, <4>1
      <3>3. CASE c # cell
        BY <1>1, <2>2, <2>4, <2>7, <3>3
      <3> QED
        BY <3>1, <3>2, <3>3
    <2>8. ASSUME NEW c \in AllCells, NEW d \in AllCells, NEW m \in Refs, NEW n \in Refs,
                 m < n, parameter'[c].hot_threshold <= m
          PROVE  HotFull(parameter'[d], pmem[d][n], n)
      <3>1. /\ m \in 0..NrWalks /\ n \in 0..NrWalks
            /\ parameter[c].hot_threshold \in 1..(NrWalks + 1)
        BY OrderTypes DEF ParameterType
      <3>2. n > hot_threshold
        <4>1. c # cell => parameter[c].hot_threshold >= hot_threshold
          BY DEF HotOrder
        <4> QED
          BY <1>0, <2>1, <2>2, <2>8, <3>1, <4>1
      <3>3. HotVisited(d, n) /\ n \in 1..NrWalks
        BY <1>0, <3>1, <3>2 DEF HotVisited
      <3>4. CASE d = cell
        BY <2>2, <2>5, <3>1, <3>2, <3>4
      <3>5. CASE d # cell
        BY <2>2, <2>4, <3>3, <3>5
      <3> QED
        BY <3>4, <3>5
    <2> QED
      BY <1>0, <2>6, <2>7, <2>8 DEF HotOrder
  <1>3. CASE SkipHot
    <2>1. UNCHANGED <<parameter, promote_count_kb>> /\ (HotWanted => pmem[cell][hot_threshold] = 0)
      BY <1>3 DEF SkipHot
    <2>2. ASSUME promote_count_kb < promote_limit_kb, NEW c \in AllCells,
                 NEW n \in 1..NrWalks, HotVisited(c, n)'
          PROVE  HotFull(parameter[c], pmem[c][n], n)
      <3>1. CASE c = cell /\ n = hot_threshold
        BY <2>1, <2>2, <3>1 DEF HotWanted, HotFull
      <3>2. CASE HotVisited(c, n)
        BY <2>2, <3>2 DEF HotOrder
      <3> QED
        BY <1>1, <2>2, <3>1, <3>2
    <2> QED
      BY <1>0, <2>1, <2>2 DEF HotOrder
  <1> QED
    BY <1>2, <1>3

\* The hot pages' parameters do not matter to the order of the cold ones.
LEMMA HotStepColdOrder ==
  ASSUME TypeOK, ColdOrder, SelectHot \/ SkipHot
  PROVE  ColdOrder'
  <1>0. /\ UNCHANGED <<input, i, cell>> /\ part = "hot" /\ part' = "cold"
        /\ cold_threshold' = cold_threshold /\ demote_count_kb' = demote_count_kb
        /\ dram' = dram /\ demote_limit_kb' = demote_limit_kb
    BY DEF SelectHot, SkipHot, cold_threshold, dram, demote_limit_kb
  <1>1. \A c, n : ColdVisited(c, n)' <=> ColdVisited(c, n)
    BY <1>0 DEF ColdVisited
  <1>2. \A c \in AllCells :
          /\ parameter'[c].cold_threshold = parameter[c].cold_threshold
          /\ parameter'[c].demote_remain = parameter[c].demote_remain
          /\ ColdTaken(parameter'[c])
    <2>1. CASE SelectHot
      <3>1. PICK p : /\ parameter' = [parameter EXCEPT ![cell] = p]
                     /\ p.enabled
                     /\ p.cold_threshold = parameter[cell].cold_threshold
                     /\ p.cold_threshold_min = parameter[cell].cold_threshold_min
                     /\ p.demote_remain = parameter[cell].demote_remain
        BY <2>1, SelectHotChoice
      <3>2. /\ cell \in AllCells /\ parameter'[cell] = p
            /\ \A c \in AllCells : c # cell => parameter'[c] = parameter[c]
        BY <3>1, OrderTypes
      <3>3. ColdTaken(p)
        BY <3>1, <3>2 DEF ColdOrder, ColdTaken
      <3> QED
        BY <3>1, <3>2, <3>3 DEF ColdOrder
    <2>2. CASE SkipHot
      BY <2>2 DEF SkipHot, ColdOrder
    <2> QED
      BY <2>1, <2>2
  <1>3. \A c \in AllCells : \A nr, n :
          ColdFull(parameter'[c], nr, n) <=> ColdFull(parameter[c], nr, n)
    BY <1>2 DEF ColdFull
  <1> QED
    BY <1>0, <1>1, <1>2, <1>3 DEF ColdOrder

\* The cold pages' parameters do not matter to the order of the hot ones.
LEMMA ColdStepHotOrder ==
  ASSUME TypeOK, HotOrder, SelectCold \/ SkipCold, in_adjust_ratio_stage
  PROVE  HotOrder'
  <1>0. /\ UNCHANGED <<input, promote_count_kb>> /\ part = "cold" /\ NextCell
        /\ pmem' = pmem /\ promote_limit_kb' = promote_limit_kb
    BY DEF SelectCold, SkipCold, pmem, promote_limit_kb
  <1>1. /\ hot_threshold' <= hot_threshold
        /\ \A c \in AllCells : \A n \in 1..NrWalks : HotVisited(c, n)' => HotVisited(c, n)
    BY <1>0, NextCellVisits
  <1>2. \A c \in AllCells :
          /\ parameter'[c].hot_threshold = parameter[c].hot_threshold
          /\ parameter'[c].promote_remain = parameter[c].promote_remain
          /\ HotTaken(parameter'[c])
    <2>1. CASE SelectCold
      <3>1. PICK p : /\ parameter' = [parameter EXCEPT ![cell] = p]
                     /\ p.enabled
                     /\ p.hot_threshold = parameter[cell].hot_threshold
                     /\ p.hot_threshold_max = parameter[cell].hot_threshold_max
                     /\ p.promote_remain = parameter[cell].promote_remain
        BY <2>1, SelectColdChoice
      <3>2. /\ cell \in AllCells /\ parameter'[cell] = p
            /\ \A c \in AllCells : c # cell => parameter'[c] = parameter[c]
        BY <3>1, OrderTypes
      <3>3. HotTaken(p)
        BY <3>1, <3>2 DEF HotOrder, HotTaken
      <3> QED
        BY <3>1, <3>2, <3>3 DEF HotOrder
    <2>2. CASE SkipCold
      BY <2>2 DEF SkipCold, HotOrder
    <2> QED
      BY <2>1, <2>2
  <1>3. \A c \in AllCells : \A nr, n :
          HotFull(parameter'[c], nr, n) <=> HotFull(parameter[c], nr, n)
    BY <1>2 DEF HotFull
  <1>4. \A c \in AllCells : parameter'[c].hot_threshold >= hot_threshold'
    <2> SUFFICES ASSUME NEW c \in AllCells PROVE parameter'[c].hot_threshold >= hot_threshold'
      OBVIOUS
    <2>1. parameter[c].hot_threshold \in Int /\ parameter[c].hot_threshold >= hot_threshold
      BY OrderTypes DEF ParameterType, HotOrder
    <2>2. hot_threshold \in Int /\ hot_threshold' \in Int
      <3>1. i' \in Refs
        BY <1>0, NextCellType
      <3> QED
        BY <3>1, OrderTypes DEF hot_threshold
    <2> QED
      BY <1>1, <1>2, <2>1, <2>2
  <1> QED
    BY <1>0, <1>1, <1>2, <1>3, <1>4 DEF HotOrder

\* SelectCold raises one threshold while there is room, so all that is colder was taken;
\* no cell is skipped, because only anti_thrashing() disables one.
LEMMA ColdStepColdOrder ==
  ASSUME TypeOK, ColdOrder, SelectCold \/ SkipCold, in_adjust_ratio_stage
  PROVE  ColdOrder'
  <1>0. /\ input' = input /\ part = "cold" /\ NextCell
        /\ cold_threshold \in 0..NrWalks /\ NrWalks \in Nat
        /\ dram' = dram /\ demote_limit_kb' = demote_limit_kb
    BY OrderTypes DEF SelectCold, SkipCold, dram, demote_limit_kb
  <1>1. /\ cold_threshold <= cold_threshold' /\ cold_threshold' \in Int
        /\ \A c \in AllCells : \A n \in 0..(NrWalks - 1) : ColdVisited(c, n)' =>
             ColdVisited(c, n) \/ (c = cell /\ n = cold_threshold)
    <2>1. i' \in Refs
      BY <1>0, NextCellType
    <2> QED
      BY <1>0, <2>1, NextCellVisits, OrderTypes DEF cold_threshold
  <1>2. \A c \in AllCells : parameter[c].cold_threshold \in -1..(NrWalks - 1)
                            /\ parameter[c].cold_threshold <= cold_threshold
    BY OrderTypes DEF ParameterType, ColdOrder
  <1>3. CASE SelectCold
    <2>1. PICK p : /\ parameter' = [parameter EXCEPT ![cell] = p]
                   /\ p.cold_threshold = cold_threshold /\ p.cold_threshold_min = 0
                   /\ p.enabled
                   /\ demote_count_kb' < demote_limit_kb =>
                        p.demote_remain = dram[cell][cold_threshold]
      BY <1>3, SelectColdChoice
    <2>2. /\ parameter'[cell] = p
          /\ \A c \in AllCells : c # cell => parameter'[c] = parameter[c]
      BY <2>1, OrderTypes
    <2>3. demote_count_kb < demote_limit_kb /\ cold_threshold \in 0..(NrWalks - 1)
      BY <1>0, <1>3, SelectColdChoice
    <2>4. \A c \in AllCells, n \in 0..(NrWalks - 1) :
            ColdVisited(c, n) => ColdFull(parameter[c], dram[c][n], n)
      BY <2>3 DEF ColdOrder
    <2>5. \A n \in 0..NrWalks : n < cold_threshold => ColdFull(p, dram[cell][n], n)
      BY <1>0, <2>1 DEF ColdFull
    <2>6. \A c \in AllCells :
            parameter'[c].cold_threshold <= cold_threshold' /\ ColdTaken(parameter'[c])
      <3>1. ColdTaken(p) /\ p.cold_threshold <= cold_threshold'
        BY <1>1, <2>1 DEF ColdTaken
      <3>2. \A c \in AllCells : parameter[c].cold_threshold <= cold_threshold'
        BY <1>0, <1>1, <1>2
      <3> QED
        BY <2>2, <3>1, <3>2 DEF ColdOrder
    <2>7. ASSUME demote_count_kb' < demote_limit_kb, NEW c \in AllCells,
                 NEW n \in 0..(NrWalks - 1), ColdVisited(c, n)'
          PROVE  ColdFull(parameter'[c], dram[c][n], n)
      <3>1. CASE c = cell /\ n = cold_threshold
        <4>1. p.demote_remain = dram[c][n] /\ dram[c][n] \in Nat
          BY <1>0, <2>1, <2>7, <3>1, OrderTypes
        <4> QED
          BY <2>1, <2>2, <3>1, <4>1 DEF ColdFull
      <3>2. CASE c = cell /\ n # cold_threshold
        <4>1. n < cold_threshold
          BY <1>1, <2>7, <3>2 DEF ColdVisited
        <4> QED
          BY <1>0, <2>2, <2>5, <3>2, <4>1
      <3>3. CASE c # cell
        BY <1>1, <2>2, <2>4, <2>7, <3>3
      <3> QED
        BY <3>1, <3>2, <3>3
    <2>8. ASSUME NEW c \in AllCells, NEW d \in AllCells, NEW m \in Refs, NEW n \in Refs,
                 m < n, n <= parameter'[c].cold_threshold
          PROVE  ColdFull(parameter'[d], dram[d][m], m)
      <3>1. m \in 0..NrWalks /\ n \in 0..NrWalks
        BY OrderTypes
      <3>2. m < cold_threshold
        BY <1>0, <1>2, <2>1, <2>2, <2>8, <3>1
      <3>3. ColdVisited(d, m) /\ m \in 0..(NrWalks - 1)
        BY <1>0, <3>1, <3>2 DEF ColdVisited
      <3>4. CASE d = cell
        BY <2>2, <2>5, <3>1, <3>2, <3>4
      <3>5. CASE d # cell
        BY <2>2, <2>4, <3>3, <3>5
      <3> QED
        BY <3>4, <3>5
    <2> QED
      BY <1>0, <2>6, <2>7, <2>8 DEF ColdOrder
  <1>4. CASE SkipCold
    <2>1. UNCHANGED <<parameter, demote_count_kb>>
          /\ (ColdWanted => dram[cell][cold_threshold] = 0 \/ ThrashDisabled)
      BY <1>4 DEF SkipCold
    <2>2. ~ThrashDisabled
      BY OrderTypes DEF ThrashDisabled, ColdOrder, ColdTaken
    <2>3. ASSUME demote_count_kb < demote_limit_kb, NEW c \in AllCells,
                 NEW n \in 0..(NrWalks - 1), ColdVisited(c, n)'
          PROVE  ColdFull(parameter[c], dram[c][n], n)
      <3>1. CASE c = cell /\ n = cold_threshold
        BY <1>0, <2>1, <2>2, <2>3, <3>1 DEF ColdWanted, ColdFull
      <3>2. CASE ColdVisited(c, n)
        BY <2>3, <3>2 DEF ColdOrder
      <3> QED
        BY <1>1, <2>3, <3>1, <3>2
    <2>4. \A c \in AllCells : parameter[c].cold_threshold <= cold_threshold'
      BY <1>0, <1>1, <1>2
    <2> QED
      BY <1>0, <2>1, <2>3, <2>4 DEF ColdOrder
  <1> QED
    BY <1>3, <1>4

\* Every step of calc_migrate_parameter() keeps the order.
LEMMA NextOrdered == TypeOK /\ Ordered /\ [Next]_vars => Ordered'
  <1> SUFFICES ASSUME TypeOK, Ordered, [Next]_vars, in_adjust_ratio_stage'
               PROVE  HotOrder' /\ ColdOrder'
    BY DEF Ordered
  <1>1. in_adjust_ratio_stage /\ HotOrder /\ ColdOrder
    BY DEF Next, SelectHot, SkipHot, SelectCold, SkipCold, vars, in_adjust_ratio_stage, Ordered
  <1>2. CASE SelectHot \/ SkipHot
    BY <1>1, <1>2, HotStepHotOrder, HotStepColdOrder
  <1>3. CASE SelectCold \/ SkipCold
    BY <1>1, <1>3, ColdStepHotOrder, ColdStepColdOrder
  <1>4. CASE UNCHANGED vars
    BY <1>1, <1>4 DEF vars, HotOrder, ColdOrder, HotVisited, ColdVisited, hot_threshold,
       cold_threshold, pmem, dram, promote_limit_kb, demote_limit_kb
  <1> QED
    BY <1>2, <1>3, <1>4 DEF Next

\* Before the first cell nothing is visited and nothing selected.
LEMMA InitOrdered == Init => Ordered
  <1> SUFFICES ASSUME Init PROVE HotOrder /\ ColdOrder
    BY DEF Ordered
  <1>0. TypeOK
    BY TypeInit
  <1>1. /\ i = 0 /\ cell = 1 /\ part = "hot" /\ hot_threshold = NrWalks /\ cold_threshold = 0
        /\ \A c \in AllCells : parameter[c] = InitialParameter
        /\ AllCells = 1..Cells /\ Refs = 0..NrWalks /\ NrWalks \in Nat /\ Cells \in Nat
    BY <1>0, OrderTypes DEF Init, hot_threshold, cold_threshold
  <1>2. \A c \in AllCells, n \in 1..NrWalks : ~HotVisited(c, n)
    BY <1>1 DEF HotVisited
  <1>3. \A c \in AllCells, n \in 0..(NrWalks - 1) : ~ColdVisited(c, n)
    BY <1>1 DEF ColdVisited
  <1> QED
    BY <1>1, <1>2, <1>3 DEF HotOrder, ColdOrder, HotTaken, ColdTaken, InitialParameter

-----------------------------------------------------------------------------
(* The theorem.                                                            *)

\* A cell whose pages are all taken moves all of them.
LEMMA FullMoves ==
  ASSUME TypeOK, HotOrder, ColdOrder, NEW c \in AllCells, NEW n \in Refs
  PROVE  /\ HotFull(parameter[c], pmem[c][n], n) => Promoted(c, n) = pmem[c][n]
         /\ ColdFull(parameter[c], dram[c][n], n) => Demoted(c, n) = dram[c][n]
         /\ Promoted(c, n) > 0 => parameter[c].hot_threshold <= n
         /\ Demoted(c, n) > 0 => n <= parameter[c].cold_threshold
  <1>1. /\ n \in 0..NrWalks /\ NrWalks \in Nat /\ pmem[c][n] \in Nat /\ dram[c][n] \in Nat
        /\ parameter[c].hot_threshold \in 1..(NrWalks + 1)
        /\ parameter[c].cold_threshold \in -1..(NrWalks - 1)
        /\ parameter[c].promote_remain \in Nat /\ parameter[c].demote_remain \in Nat
    BY OrderTypes DEF ParameterType
  <1>2. HotTaken(parameter[c]) /\ ColdTaken(parameter[c])
    BY DEF HotOrder, ColdOrder
  <1>3. HotFull(parameter[c], pmem[c][n], n) => Promoted(c, n) = pmem[c][n]
    BY <1>1, <1>2 DEF HotFull, HotTaken, Promoted, Lesser
  <1>4. ColdFull(parameter[c], dram[c][n], n) => Demoted(c, n) = dram[c][n]
    BY <1>1, <1>2 DEF ColdFull, ColdTaken, Demoted, Lesser
  <1>5. Promoted(c, n) > 0 => parameter[c].hot_threshold <= n
    BY <1>1 DEF Promoted
  <1>6. Demoted(c, n) > 0 => n <= parameter[c].cold_threshold
    BY <1>1 DEF Demoted
  <1> QED
    BY <1>3, <1>4, <1>5, <1>6

\* Over all ranges and page types, no page of PMEM is promoted while a hotter one stays,
\* and no page of DRAM is demoted while a colder one stays, whatever the histograms and
\* limits: the loop of calc_migrate_parameter() never misses a page that it passed.
THEOREM HottestFirst == Spec => []HottestAndColdestFirst
  <1>1. TypeOK /\ Ordered => HottestAndColdestFirst
    <2> SUFFICES ASSUME TypeOK, Ordered, in_adjust_ratio_stage,
                        NEW c \in AllCells, NEW d \in AllCells, NEW m \in Refs, NEW n \in Refs,
                        m < n
                 PROVE  /\ Promoted(c, m) > 0 => Promoted(d, n) = pmem[d][n]
                        /\ Demoted(c, n) > 0 => Demoted(d, m) = dram[d][m]
      BY DEF HottestAndColdestFirst
    <2>1. HotOrder /\ ColdOrder
      BY DEF Ordered
    <2>2. Promoted(c, m) > 0 => HotFull(parameter[d], pmem[d][n], n)
      BY <2>1, FullMoves DEF HotOrder
    <2>3. Demoted(c, n) > 0 => ColdFull(parameter[d], dram[d][m], m)
      BY <2>1, FullMoves DEF ColdOrder
    <2> QED
      BY <2>1, <2>2, <2>3, FullMoves
  <1> QED
    BY <1>1, TypeInit, TypeStep, InitOrdered, NextOrdered, PTL DEF Spec

-----------------------------------------------------------------------------
(* The books of calc_migrate_parameter(): what the counts, the numbers of  *)
(* pages and the thresholds say of each other.                             *)

\* Pages of the histogram h with a reference count in N
PagesIn(h, N) ==
  SumTo([m \in 1..(NrWalks + 1) |-> IF m - 1 \in N THEN h[m - 1] ELSE 0], NrWalks + 1)

\* Pages with more, and with less than n references
Above(h, n) == PagesIn(h, (n + 1)..NrWalks)
Below(h, n) == PagesIn(h, 0..(n - 1))

\* Kilobytes of pages[c] pages in each cell c
KbSum(pages) == SumTo([c \in AllCells |-> pages[c] * CellKb(c)], Cells)

\* The pages of h that the thresholds and the remainders of the parameter p select
HotSelected(p, h) ==
  IF p.hot_threshold > NrWalks THEN 0
  ELSE Above(h, p.hot_threshold) + Lesser(h[p.hot_threshold], p.promote_remain)

ColdSelected(p, h) ==
  IF p.cold_threshold < 0 THEN 0
  ELSE Below(h, p.cold_threshold) + Lesser(h[p.cold_threshold], p.demote_remain)

\* The loop has passed the cell's pages above the hot and below the cold mark.
HotMark(c) ==
  IF hot_threshold > 0 /\ (c < cell \/ (c = cell /\ part # "hot")) THEN hot_threshold - 1
  ELSE hot_threshold
ColdMark(c) ==
  IF cold_threshold < NrWalks /\ c < cell THEN cold_threshold + 1 ELSE cold_threshold

BiggestPageKb == Greater(PageKb[1], PageKb[2])
NrPromote == [c \in AllCells |-> parameter[c].nr_promote]
NrDemote == [c \in AllCells |-> parameter[c].nr_demote]

\* The count is what the pages of nr take, and while the limit is not used up no page was cut.
Charged(count, limit, nr) ==
  /\ KbSum(nr) <= count /\ count < KbSum(nr) + BiggestPageKb
  /\ count < limit => count = KbSum(nr)

\* The account of the hot pages: with room left all that was passed is taken, and the final
\* threshold and remainder select the pages counted.
HotBooks ==
  /\ Charged(promote_count_kb, promote_limit_kb, NrPromote)
  /\ promote_count_kb < promote_limit_kb =>
       \A c \in AllCells : parameter[c].nr_promote = Above(pmem[c], HotMark(c))
  /\ \A c \in AllCells :
       /\ parameter[c].hot_threshold <= NrWalks => parameter[c].hot_threshold_max = NrWalks
       /\ HotSelected(parameter[c], pmem[c]) <= parameter[c].nr_promote
       /\ in_adjust_ratio_stage => HotSelected(parameter[c], pmem[c]) = parameter[c].nr_promote

\* anti_thrashing() gave the cell up.
Disabled(p) == ~p.enabled /\ p.nr_demote # 0

\* The account of the cold pages.
ColdBooks ==
  /\ Charged(demote_count_kb, demote_limit_kb, NrDemote)
  /\ demote_count_kb < demote_limit_kb =>
       \A c \in AllCells :
         Disabled(parameter[c]) \/ parameter[c].nr_demote = Below(dram[c], ColdMark(c))
  /\ \A c \in AllCells :
       /\ parameter[c].cold_threshold >= 0 => parameter[c].cold_threshold_min = 0
       /\ ColdSelected(parameter[c], dram[c]) <= parameter[c].nr_demote
       /\ in_adjust_ratio_stage => ColdSelected(parameter[c], dram[c]) = parameter[c].nr_demote

\* While the ratio is right only the first turn takes hot pages, before the cell has cold ones,
\* and what anti_thrashing() left enabled keeps its thresholds apart.
HotFirst ==
  /\ i > 0 => promote_count_kb >= promote_limit_kb
  /\ \A c \in AllCells :
       LET p == parameter[c] IN
       /\ p.hot_threshold >= NrWalks
       /\ i = 0 /\ (c > cell \/ (c = cell /\ part = "hot")) => p = InitialParameter
       /\ p.enabled /\ p.hot_threshold <= NrWalks /\ p.cold_threshold >= 0 => FarApart(p)

\* The limits come from calc_migrate_count(), and the loop ends after its last turn.
Stage ==
  /\ input \in Inputs /\ (part = "done" => i = NrWalks)
  /\ ~in_adjust_ratio_stage => HotFirst

\* Together they are inductive.
Books == HotBooks /\ ColdBooks /\ Stage

-----------------------------------------------------------------------------
(* Pages of a histogram.                                                   *)

\* Pages of a histogram are numbers.
IsHistogram(h) == \A n \in Refs : h[n] \in Nat

\* What a sum of pages adds up.
PageTerms(h, N) == [m \in 1..(NrWalks + 1) |-> IF m - 1 \in N THEN h[m - 1] ELSE 0]

\* The terms of such a sum are numbers.
LEMMA TermNumbers ==
  ASSUME NEW h, NEW N, IsHistogram(h), NEW m \in 1..(NrWalks + 1)
  PROVE  m - 1 \in Refs /\ PageTerms(h, N)[m] \in Nat
  <1>1. m - 1 \in Refs
    BY Constants DEF Refs
  <1>2. h[m - 1] \in Nat
    BY <1>1 DEF IsHistogram
  <1> QED
    BY <1>1, <1>2 DEF PageTerms

\* A number of pages is a number.
LEMMA PagesInNat ==
  ASSUME NEW h, NEW N, IsHistogram(h)
  PROVE  PagesIn(h, N) \in Nat
  <1>1. \A m \in 1..(NrWalks + 1) : PageTerms(h, N)[m] \in Nat
    BY TermNumbers
  <1>2. NrWalks + 1 \in Nat
    BY Constants
  <1>3. SumTo(PageTerms(h, N), NrWalks + 1) \in Nat
    BY <1>1, <1>2, SumParts
  <1> QED
    BY <1>3 DEF PagesIn, PageTerms

\* More reference counts, more pages.
LEMMA PagesInMore ==
  ASSUME NEW h, NEW N, NEW M, IsHistogram(h), \A n \in Refs : n \in N => n \in M
  PROVE  PagesIn(h, N) <= PagesIn(h, M)
  <1>1. \A m \in 1..(NrWalks + 1) :
          /\ PageTerms(h, N)[m] \in Int /\ PageTerms(h, M)[m] \in Int
          /\ PageTerms(h, N)[m] <= PageTerms(h, M)[m]
    <2> SUFFICES ASSUME NEW m \in 1..(NrWalks + 1)
                 PROVE  /\ PageTerms(h, N)[m] \in Int /\ PageTerms(h, M)[m] \in Int
                        /\ PageTerms(h, N)[m] <= PageTerms(h, M)[m]
      OBVIOUS
    <2>1. m - 1 \in Refs /\ PageTerms(h, N)[m] \in Nat /\ PageTerms(h, M)[m] \in Nat
      BY TermNumbers
    <2> QED
      BY <2>1 DEF PageTerms
  <1>2. NrWalks + 1 \in Nat
    BY Constants
  <1>3. SumTo(PageTerms(h, N), NrWalks + 1) <= SumTo(PageTerms(h, M), NrWalks + 1)
    BY <1>1, <1>2, SumLess
  <1> QED
    BY <1>3 DEF PagesIn, PageTerms

\* Two sums of pages that differ in one reference count.
LEMMA PagesInChange ==
  ASSUME NEW h, NEW N, NEW g, NEW M, IsHistogram(h), IsHistogram(g), NEW n \in Refs,
         n \notin N, n \in M,
         \A m \in Refs : m # n =>
           (IF m \in M THEN g[m] ELSE 0) = (IF m \in N THEN h[m] ELSE 0)
  PROVE  PagesIn(g, M) = PagesIn(h, N) + g[n]
  <1>1. n + 1 \in 1..(NrWalks + 1) /\ (n + 1) - 1 = n /\ NrWalks + 1 \in Nat
    BY Constants DEF Refs
  <1>2. \A m \in 1..(NrWalks + 1) : PageTerms(h, N)[m] \in Int /\ PageTerms(g, M)[m] \in Int
    BY TermNumbers
  <1>3. \A m \in 1..(NrWalks + 1) : m # n + 1 => PageTerms(g, M)[m] = PageTerms(h, N)[m]
    <2> SUFFICES ASSUME NEW m \in 1..(NrWalks + 1), m # n + 1
                 PROVE  PageTerms(g, M)[m] = PageTerms(h, N)[m]
      OBVIOUS
    <2>1. m - 1 \in Refs /\ m - 1 # n
      BY Constants DEF Refs
    <2> QED
      BY <2>1 DEF PageTerms
  <1>4. SumTo(PageTerms(g, M), NrWalks + 1)
          = SumTo(PageTerms(h, N), NrWalks + 1) + PageTerms(g, M)[n + 1] - PageTerms(h, N)[n + 1]
    BY <1>1, <1>2, <1>3, SumChange
  <1>5. PageTerms(g, M)[n + 1] = g[n] /\ PageTerms(h, N)[n + 1] = 0
    BY <1>1 DEF PageTerms
  <1>6. SumTo(PageTerms(h, N), NrWalks + 1) \in Nat /\ g[n] \in Nat
    BY PagesInNat DEF PagesIn, PageTerms, IsHistogram
  <1> QED
    BY <1>4, <1>5, <1>6 DEF PagesIn, PageTerms

\* No page with a reference count in N.
LEMMA PagesInNone ==
  ASSUME NEW h, NEW N, \A n \in Refs : n \in N => h[n] = 0
  PROVE  PagesIn(h, N) = 0
  <1>1. \A m \in 1..(NrWalks + 1) : PageTerms(h, N)[m] = 0
    <2> SUFFICES ASSUME NEW m \in 1..(NrWalks + 1) PROVE PageTerms(h, N)[m] = 0
      OBVIOUS
    <2>1. m - 1 \in Refs
      BY Constants DEF Refs
    <2> QED
      BY <2>1 DEF PageTerms
  <1>2. NrWalks + 1 \in Nat
    BY Constants
  <1>3. SumTo(PageTerms(h, N), NrWalks + 1) = 0
    BY <1>1, <1>2, SumZero
  <1> QED
    BY <1>3 DEF PagesIn, PageTerms

\* One reference count more adds its pages: what a turn of the loop passes.
LEMMA AboveBelow ==
  ASSUME NEW h, IsHistogram(h)
  PROVE  /\ Above(h, NrWalks) = 0 /\ Below(h, 0) = 0
         /\ \A n \in Int : Above(h, n) \in Nat /\ Below(h, n) \in Nat
         /\ \A n \in Refs : /\ Above(h, n - 1) = Above(h, n) + h[n]
                            /\ Below(h, n + 1) = Below(h, n) + h[n]
         /\ \A m, n \in Int : m <= n => Above(h, n) <= Above(h, m) /\ Below(h, m) <= Below(h, n)
  <1>0. Refs = 0..NrWalks /\ NrWalks \in Nat
    BY Constants DEF Refs
  <1>1. Above(h, NrWalks) = 0 /\ Below(h, 0) = 0
    BY <1>0, PagesInNone DEF Above, Below
  <1>2. \A n \in Int : Above(h, n) \in Nat /\ Below(h, n) \in Nat
    BY PagesInNat DEF Above, Below
  <1>3. ASSUME NEW n \in Refs
        PROVE  /\ Above(h, n - 1) = Above(h, n) + h[n]
               /\ Below(h, n + 1) = Below(h, n) + h[n]
    <2> DEFINE more == ((n - 1) + 1)..NrWalks
               less == (n + 1)..NrWalks
               longer == 0..((n + 1) - 1)
               shorter == 0..(n - 1)
    <2>1. /\ n \notin less /\ n \in more
          /\ \A m \in Refs : m # n =>
               (IF m \in more THEN h[m] ELSE 0) = (IF m \in less THEN h[m] ELSE 0)
      BY <1>0
    <2>2. /\ n \notin shorter /\ n \in longer
          /\ \A m \in Refs : m # n =>
               (IF m \in longer THEN h[m] ELSE 0) = (IF m \in shorter THEN h[m] ELSE 0)
      BY <1>0
    <2> HIDE DEF more, less, longer, shorter
    <2>3. PagesIn(h, more) = PagesIn(h, less) + h[n]
      BY <2>1, PagesInChange
    <2>4. PagesIn(h, longer) = PagesIn(h, shorter) + h[n]
      BY <2>2, PagesInChange
    <2> QED
      BY <2>3, <2>4 DEF Above, Below, more, less, longer, shorter
  <1>4. ASSUME NEW m \in Int, NEW n \in Int, m <= n
        PROVE  Above(h, n) <= Above(h, m) /\ Below(h, m) <= Below(h, n)
    <2>1. \A r \in Refs : r \in (n + 1)..NrWalks => r \in (m + 1)..NrWalks
      BY <1>0, <1>4
    <2>2. \A r \in Refs : r \in 0..(m - 1) => r \in 0..(n - 1)
      BY <1>0, <1>4
    <2> QED
      BY <2>1, <2>2, PagesInMore DEF Above, Below
  <1> QED
    BY <1>1, <1>2, <1>3, <1>4

-----------------------------------------------------------------------------
(* Kilobytes of the cells.                                                 *)

\* What KbSum adds up.
CellTerms(pages) == [c \in AllCells |-> pages[c] * CellKb(c)]

\* The terms of the sum over the cells are numbers.
LEMMA CellTermsNat ==
  ASSUME NEW pages, \A c \in AllCells : pages[c] \in Nat
  PROVE  /\ AllCells = 1..Cells /\ Cells \in Nat
         /\ \A c \in AllCells : CellTerms(pages)[c] \in Nat /\ CellTerms(pages)[c] = pages[c] * CellKb(c)
  <1>1. AllCells = 1..Cells /\ Cells \in Nat
    BY Constants DEF AllCells
  <1>2. ASSUME NEW c \in AllCells PROVE pages[c] * CellKb(c) \in Nat
    <2>1. pages[c] \in Nat /\ CellKb(c) \in Nat
      BY Constants
    <2>2. \A a, b \in Nat : a * b \in Nat
      OBVIOUS
    <2> QED
      BY <2>1, <2>2
  <1> QED
    BY <1>1, <1>2 DEF CellTerms

\* Kilobytes are a number.
LEMMA KbSumNat ==
  ASSUME NEW pages, \A c \in AllCells : pages[c] \in Nat
  PROVE  KbSum(pages) \in Nat
  <1>1. SumTo(CellTerms(pages), Cells) \in Nat
    BY CellTermsNat, SumParts
  <1> QED
    BY <1>1 DEF KbSum, CellTerms

\* Fewer pages in every cell take less.
LEMMA KbSumLess ==
  ASSUME NEW fewer, NEW pages,
         \A c \in AllCells : fewer[c] \in Nat /\ pages[c] \in Nat /\ fewer[c] <= pages[c]
  PROVE  KbSum(fewer) <= KbSum(pages)
  <1>1. /\ AllCells = 1..Cells /\ Cells \in Nat
        /\ \A c \in AllCells : /\ CellTerms(pages)[c] \in Nat
                               /\ CellTerms(pages)[c] = pages[c] * CellKb(c)
    BY CellTermsNat
  <1>2. \A c \in AllCells : /\ CellTerms(fewer)[c] \in Nat
                            /\ CellTerms(fewer)[c] = fewer[c] * CellKb(c)
    BY CellTermsNat
  <1>3. \A a, b, k \in Nat : a <= b => a * k <= b * k
    <2> SUFFICES ASSUME NEW a \in Nat, NEW b \in Nat, NEW k \in Nat, a <= b PROVE a * k <= b * k
      OBVIOUS
    <2>1. (b - a) * k >= 0 /\ (b - a) * k = b * k - a * k
      OBVIOUS
    <2>2. a * k \in Int /\ b * k \in Int
      OBVIOUS
    <2> QED
      BY <2>1, <2>2
  <1>4. \A c \in AllCells : CellTerms(fewer)[c] <= CellTerms(pages)[c]
    <2> SUFFICES ASSUME NEW c \in AllCells PROVE CellTerms(fewer)[c] <= CellTerms(pages)[c]
      OBVIOUS
    <2>1. fewer[c] * CellKb(c) <= pages[c] * CellKb(c)
      BY <1>3, Constants
    <2> QED
      BY <1>1, <1>2, <2>1
  <1>5. SumTo(CellTerms(fewer), Cells) <= SumTo(CellTerms(pages), Cells)
    <2>1. \A c \in 1..Cells : /\ CellTerms(fewer)[c] \in Int /\ CellTerms(pages)[c] \in Int
                              /\ CellTerms(fewer)[c] <= CellTerms(pages)[c]
      BY <1>1, <1>2, <1>4
    <2> QED
      BY <1>1, <2>1, SumLess
  <1> QED
    BY <1>5 DEF KbSum, CellTerms

\* The pages of one cell change, as in every step of the loop.
LEMMA KbSumChange ==
  ASSUME NEW pages, NEW after, NEW c \in AllCells,
         \A d \in AllCells : pages[d] \in Nat /\ after[d] \in Nat,
         \A d \in AllCells : d # c => after[d] = pages[d],
         NEW added \in Nat, after[c] = pages[c] + added
  PROVE  KbSum(after) = KbSum(pages) + added * CellKb(c)
  <1>1. /\ AllCells = 1..Cells /\ Cells \in Nat
        /\ \A d \in AllCells : /\ CellTerms(pages)[d] \in Nat
                               /\ CellTerms(pages)[d] = pages[d] * CellKb(d)
    BY CellTermsNat
  <1>2. \A d \in AllCells : /\ CellTerms(after)[d] \in Nat
                            /\ CellTerms(after)[d] = after[d] * CellKb(d)
    BY CellTermsNat
  <1>3. SumTo(CellTerms(after), Cells)
          = SumTo(CellTerms(pages), Cells) + CellTerms(after)[c] - CellTerms(pages)[c]
    <2>1. \A d \in 1..Cells : CellTerms(pages)[d] \in Int /\ CellTerms(after)[d] \in Int
      BY <1>1, <1>2
    <2>2. \A d \in 1..Cells : d # c => CellTerms(after)[d] = CellTerms(pages)[d]
      BY <1>1, <1>2
    <2>3. c \in 1..Cells
      BY <1>1
    <2> QED
      BY <1>1, <2>1, <2>2, <2>3, SumChange
  <1>4. CellTerms(after)[c] = CellTerms(pages)[c] + added * CellKb(c)
    <2>1. \A a, b, k \in Nat : (a + b) * k = a * k + b * k
      OBVIOUS
    <2>2. (pages[c] + added) * CellKb(c) = pages[c] * CellKb(c) + added * CellKb(c)
      BY <2>1, Constants
    <2> QED
      BY <1>1, <1>2, <2>2
  <1>5. SumTo(CellTerms(pages), Cells) \in Int /\ CellTerms(pages)[c] \in Int /\ added * CellKb(c) \in Int
    <2>1. SumTo(CellTerms(pages), Cells) \in Nat
      BY <1>1, SumParts
    <2>2. \A a, b \in Nat : a * b \in Int
      OBVIOUS
    <2> QED
      BY <1>1, <2>1, <2>2, Constants
  <1> QED
    BY <1>3, <1>4, <1>5 DEF KbSum, CellTerms

-----------------------------------------------------------------------------
(* KbOf, the sums of calc_memory_size() and calc_migrate_count().          *)

\* The terms of KbOf's inner sum.
KbTerms(hist, C, n) == [c \in 1..Cells |-> IF c \in C THEN hist[c][n] * CellKb(c) ELSE 0]

\* KbOf() adds up the reference counts, and for each of them the cells.
LEMMA KbOfRows ==
  ASSUME NEW hist, NEW C, NEW N
  PROVE  KbOf(hist, C, N) =
           SumTo([m \in 1..(NrWalks + 1) |->
                    IF m - 1 \in N THEN SumTo(KbTerms(hist, C, m - 1), Cells) ELSE 0], NrWalks + 1)
  <1> DEFINE inCells(n) ==
               LET sum[c \in 0..Cells] ==
                     IF c = 0 THEN 0
                     ELSE sum[c - 1] + (IF c \in C THEN hist[c][n] * CellKb(c) ELSE 0)
               IN  sum[Cells]
             Is(f) == f = [n \in -1..NrWalks |->
                IF n = -1 THEN 0 ELSE f[n - 1] + (IF n \in N THEN inCells(n) ELSE 0)]
             total == CHOOSE f : Is(f)
             rows == [m \in 1..(NrWalks + 1) |->
                    IF m - 1 \in N THEN SumTo(KbTerms(hist, C, m - 1), Cells) ELSE 0]
  <1>0. Cells \in Nat /\ NrWalks \in Nat /\ NrWalks + 1 \in Nat
    BY Constants
  <1>1. ASSUME NEW n PROVE inCells(n) = SumTo(KbTerms(hist, C, n), Cells)
    <2> DEFINE IsSum(f) == f = [c \in 0..Cells |->
                 IF c = 0 THEN 0
                     ELSE f[c - 1] + (IF c \in C THEN hist[c][n] * CellKb(c) ELSE 0)]
               sum == CHOOSE f : IsSum(f)
    <2>1. \E f : IsSum(f)
      <3>1. PICK f : f = [c \in 0..Cells |-> IF c = 0 THEN 0 ELSE f[c - 1] + KbTerms(hist, C, n)[c]]
        BY <1>0, SumExists
      <3>2. \A c \in 0..Cells : f[c] = IF c = 0 THEN 0
                     ELSE f[c - 1] + (IF c \in C THEN hist[c][n] * CellKb(c) ELSE 0)
        <4> SUFFICES ASSUME NEW c \in 0..Cells
                     PROVE  f[c] = IF c = 0 THEN 0
                     ELSE f[c - 1] + (IF c \in C THEN hist[c][n] * CellKb(c) ELSE 0)
          OBVIOUS
        <4>1. f[c] = IF c = 0 THEN 0 ELSE f[c - 1] + KbTerms(hist, C, n)[c]
          BY <3>1
        <4>2. c # 0 => KbTerms(hist, C, n)[c] = IF c \in C THEN hist[c][n] * CellKb(c) ELSE 0
          BY <1>0 DEF KbTerms
        <4> QED
          BY <4>1, <4>2
      <3>3. f = [c \in 0..Cells |-> f[c]]
        BY <3>1
      <3>4. IsSum(f)
        BY <3>2, <3>3
      <3> QED
        BY <3>4
    <2>2. IsSum(sum)
      BY <2>1, Zenon
    <2>3. inCells(n) = sum[Cells]
      BY Zenon
    <2> HIDE DEF sum
    <2>4. RunsThrough(sum, KbTerms(hist, C, n), Cells)
      BY <1>0, <2>2 DEF RunsThrough, KbTerms
    <2>5. sum[Cells] = SumTo(KbTerms(hist, C, n), Cells)
      BY <1>0, <2>4, RunsToSum
    <2> HIDE DEF inCells
    <2> QED
      BY <2>3, <2>5
  <1>2. KbOf(hist, C, N) = total[NrWalks]
    BY Zenon DEF KbOf
  <1> HIDE DEF inCells
  <1>3. \E f : Is(f)
    <2>1. PICK g : g = [k \in 0..(NrWalks + 1) |-> IF k = 0 THEN 0 ELSE g[k - 1] + rows[k]]
      <3> HIDE DEF rows
      <3> QED
        BY <1>0, SumExists
    <2> DEFINE f == [n \in -1..NrWalks |-> g[n + 1]]
    <2>2. \A n \in -1..NrWalks :
            f[n] = IF n = -1 THEN 0 ELSE f[n - 1] + (IF n \in N THEN inCells(n) ELSE 0)
      <3> SUFFICES ASSUME NEW n \in -1..NrWalks
                   PROVE  f[n] = IF n = -1 THEN 0
                                 ELSE f[n - 1] + (IF n \in N THEN inCells(n) ELSE 0)
        OBVIOUS
      <3>1. n + 1 \in 0..(NrWalks + 1) /\ (n + 1) - 1 = n
        BY <1>0
      <3>2. f[n] = IF n + 1 = 0 THEN 0 ELSE g[(n + 1) - 1] + rows[n + 1]
        BY <2>1, <3>1
      <3>3. CASE n = -1
        BY <3>2, <3>3
      <3>4. CASE n # -1
        <4>1. n + 1 # 0 /\ n + 1 \in 1..(NrWalks + 1) /\ n - 1 \in -1..NrWalks /\ (n - 1) + 1 = n
          BY <1>0, <3>4
        <4>2. f[n - 1] = g[n]
          BY <4>1
        <4>3. rows[n + 1] = IF n \in N THEN inCells(n) ELSE 0
          BY <1>1, <3>1, <4>1
        <4> HIDE DEF f, rows
        <4> QED
          BY <3>1, <3>2, <3>4, <4>1, <4>2, <4>3
      <3> QED
        BY <3>3, <3>4
    <2>3. f = [n \in -1..NrWalks |-> f[n]]
      OBVIOUS
    <2> HIDE DEF f
    <2>4. Is(f)
      BY <2>2, <2>3
    <2> QED
      BY <2>4
  <1>4. Is(total)
    BY <1>3, Zenon
  <1> HIDE DEF total
  <1> DEFINE sums == [k \in 0..(NrWalks + 1) |-> total[k - 1]]
  <1>5. RunsThrough(sums, rows, NrWalks + 1)
    <2>1. sums[0] = 0
      BY <1>0, <1>4
    <2>2. ASSUME NEW k \in 1..(NrWalks + 1) PROVE sums[k] = sums[k - 1] + rows[k]
      <3>1. k - 1 \in 0..NrWalks /\ k - 1 \in -1..NrWalks /\ k - 1 # -1 /\ k \in 0..(NrWalks + 1)
            /\ k - 1 \in 0..(NrWalks + 1)
        BY <1>0
      <3>2. total[k - 1] = total[(k - 1) - 1] + (IF k - 1 \in N THEN inCells(k - 1) ELSE 0)
        BY <1>4, <3>1
      <3>3. rows[k] = IF k - 1 \in N THEN inCells(k - 1) ELSE 0
        BY <1>1
      <3>4. sums[k] = total[k - 1] /\ sums[k - 1] = total[(k - 1) - 1]
        BY <3>1
      <3> HIDE DEF sums, rows
      <3> QED
        BY <3>2, <3>3, <3>4
    <2> HIDE DEF sums, rows
    <2> QED
      BY <2>1, <2>2 DEF RunsThrough
  <1>6. sums[NrWalks + 1] = total[NrWalks]
    BY <1>0
  <1>7. sums[NrWalks + 1] = SumTo(rows, NrWalks + 1)
    <2> HIDE DEF sums, rows
    <2> QED
      BY <1>0, <1>5, RunsToSum
  <1> HIDE DEF sums
  <1> QED
    BY <1>2, <1>6, <1>7

AreHistograms(hist) == \A c \in AllCells : IsHistogram(hist[c])

\* What the cells of C add up.
CellKbs(hist, C, N) ==
  [c \in 1..Cells |-> IF c \in C THEN PagesIn(hist[c], N) * CellKb(c) ELSE 0]

\* KbOf() may as well add up the cells, and for each of them the reference counts.
LEMMA KbOfCells ==
  ASSUME NEW hist, NEW C, NEW N, AreHistograms(hist)
  PROVE  KbOf(hist, C, N) = SumTo(CellKbs(hist, C, N), Cells)
  <1> DEFINE term(c, m) == IF c \in C /\ m - 1 \in N THEN hist[c][m - 1] * CellKb(c) ELSE 0
             t == [c \in 1..Cells |-> [m \in 1..(NrWalks + 1) |-> term(c, m)]]
             column(m) == [c \in 1..Cells |-> t[c][m]]
             columns == [m \in 1..(NrWalks + 1) |-> SumTo(column(m), Cells)]
             rows == [c \in 1..Cells |-> SumTo(t[c], NrWalks + 1)]
  <1>0. /\ Cells \in Nat /\ NrWalks \in Nat /\ NrWalks + 1 \in Nat
        /\ AllCells = 1..Cells /\ Refs = 0..NrWalks
    BY Constants DEF AllCells, Refs
  <1>1. \A a, b \in Nat : a * b \in Nat
    OBVIOUS
  <1>2. ASSUME NEW c \in 1..Cells, NEW m \in 1..(NrWalks + 1)
        PROVE  /\ hist[c][m - 1] \in Nat /\ CellKb(c) \in Nat /\ term(c, m) \in Nat
               /\ t[c][m] = term(c, m)
    <2>1. m - 1 \in Refs
      BY <1>0
    <2>2. hist[c][m - 1] \in Nat /\ CellKb(c) \in Nat
      BY <1>0, <2>1, Constants DEF AreHistograms, IsHistogram
    <2> QED
      BY <1>1, <2>2
  <1>3. SumTo(columns, NrWalks + 1) = SumTo(rows, Cells)
    <2>1. \A c \in 1..Cells, m \in 1..(NrWalks + 1) : t[c][m] \in Int
      BY <1>2
    <2> HIDE DEF t
    <2> QED
      BY <1>0, <2>1, SumSwap
  <1>4. KbOf(hist, C, N) = SumTo(columns, NrWalks + 1)
    <2> DEFINE kbs == [m \in 1..(NrWalks + 1) |->
                    IF m - 1 \in N THEN SumTo(KbTerms(hist, C, m - 1), Cells) ELSE 0]
    <2>1. \A m \in 1..(NrWalks + 1) : kbs[m] = columns[m]
      <3> SUFFICES ASSUME NEW m \in 1..(NrWalks + 1)
                   PROVE  (IF m - 1 \in N THEN SumTo(KbTerms(hist, C, m - 1), Cells) ELSE 0)
                            = SumTo(column(m), Cells)
        OBVIOUS
      <3>1. CASE m - 1 \in N
        <4>1. \A c \in 1..Cells : KbTerms(hist, C, m - 1)[c] = column(m)[c]
          BY <1>2, <3>1 DEF KbTerms
        <4> HIDE DEF column
        <4>2. SumTo(KbTerms(hist, C, m - 1), Cells) = SumTo(column(m), Cells)
          BY <1>0, <4>1, SumSame
        <4> QED
          BY <3>1, <4>2
      <3>2. CASE m - 1 \notin N
        <4>1. \A c \in 1..Cells : column(m)[c] = 0
          BY <1>2, <3>2
        <4> HIDE DEF column
        <4>2. SumTo(column(m), Cells) = 0
          BY <1>0, <4>1, SumZero
        <4> QED
          BY <3>2, <4>2
      <3> QED
        BY <3>1, <3>2
    <2>2. KbOf(hist, C, N) = SumTo(kbs, NrWalks + 1)
      BY KbOfRows
    <2> HIDE DEF kbs, columns
    <2> QED
      BY <1>0, <2>1, <2>2, SumSame
  <1>5. SumTo(rows, Cells) = SumTo(CellKbs(hist, C, N), Cells)
    <2>1. ASSUME NEW c \in 1..Cells PROVE rows[c] = CellKbs(hist, C, N)[c]
      <3>1. CASE c \in C
        <4>0. IsHistogram(hist[c]) /\ CellKb(c) \in Int
          BY <1>0, Constants DEF AreHistograms
        <4>1. \A m \in 1..(NrWalks + 1) : /\ PageTerms(hist[c], N)[m] \in Int
                                          /\ t[c][m] = PageTerms(hist[c], N)[m] * CellKb(c)
          <5> SUFFICES ASSUME NEW m \in 1..(NrWalks + 1)
                       PROVE  /\ PageTerms(hist[c], N)[m] \in Int
                              /\ t[c][m] = PageTerms(hist[c], N)[m] * CellKb(c)
            OBVIOUS
          <5>1. PageTerms(hist[c], N)[m] \in Nat
            BY <4>0, TermNumbers
          <5>2. 0 * CellKb(c) = 0
            BY <4>0
          <5>3. t[c][m] = term(c, m)
            BY <1>2
          <5>4. PageTerms(hist[c], N)[m] = IF m - 1 \in N THEN hist[c][m - 1] ELSE 0
            BY DEF PageTerms
          <5>5. term(c, m) = IF m - 1 \in N THEN hist[c][m - 1] * CellKb(c) ELSE 0
            BY <3>1
          <5> HIDE DEF t, term
          <5>6. t[c][m] = PageTerms(hist[c], N)[m] * CellKb(c)
            <6>1. CASE m - 1 \in N
              BY <5>3, <5>4, <5>5, <6>1
            <6>2. CASE m - 1 \notin N
              BY <5>2, <5>3, <5>4, <5>5, <6>2
            <6> QED
              BY <6>1, <6>2
          <5>7. PageTerms(hist[c], N)[m] \in Int
            BY <5>1
          <5> QED
            BY <5>6, <5>7, Zenon
        <4>2. rows[c] = SumTo(t[c], NrWalks + 1)
          OBVIOUS
        <4> HIDE DEF t, rows
        <4>3. SumTo(t[c], NrWalks + 1) = SumTo(PageTerms(hist[c], N), NrWalks + 1) * CellKb(c)
          <5>1. PICK u, v, k, n : u = t[c] /\ v = PageTerms(hist[c], N) /\ k = CellKb(c) /\ n = NrWalks + 1
            OBVIOUS
          <5>2. n \in Nat /\ k \in Int /\ \A m \in 1..n : v[m] \in Int /\ u[m] = v[m] * k
            BY <1>0, <4>0, <4>1, <5>1, Zenon
          <5>3. SumTo(u, n) = SumTo(v, n) * k
            BY <5>2, SumTimes
          <5> QED
            BY <5>1, <5>3
        <4> QED
          BY <3>1, <4>2, <4>3 DEF CellKbs, PagesIn, PageTerms
      <3>2. CASE c \notin C
        <4>1. \A m \in 1..(NrWalks + 1) : t[c][m] = 0
          BY <1>2, <3>2
        <4>2. rows[c] = SumTo(t[c], NrWalks + 1)
          OBVIOUS
        <4> HIDE DEF t, rows
        <4>3. SumTo(t[c], NrWalks + 1) = 0
          BY <1>0, <4>1, SumZero
        <4> QED
          BY <3>2, <4>2, <4>3 DEF CellKbs
      <3> QED
        BY <3>1, <3>2
    <2> HIDE DEF rows
    <2> QED
      BY <1>0, <2>1, SumSame
  <1> HIDE DEF columns, rows
  <1> QED
    BY <1>3, <1>4, <1>5

\* Kilobytes of all cells, from the pages of each.
LEMMA KbOfAll ==
  ASSUME NEW hist, NEW N, AreHistograms(hist)
  PROVE  KbOf(hist, AllCells, N) = KbSum([c \in AllCells |-> PagesIn(hist[c], N)])
  <1>0. Cells \in Nat /\ AllCells = 1..Cells
    BY Constants DEF AllCells
  <1> DEFINE pages == [c \in AllCells |-> PagesIn(hist[c], N)]
             kbs == [c \in AllCells |-> pages[c] * CellKb(c)]
  <1>1. \A c \in 1..Cells : CellKbs(hist, AllCells, N)[c] = kbs[c]
    BY <1>0 DEF CellKbs
  <1>2. SumTo(CellKbs(hist, AllCells, N), Cells) = SumTo(kbs, Cells)
    <2> HIDE DEF kbs
    <2> QED
      BY <1>0, <1>1, SumSame
  <1> QED
    BY <1>2, KbOfCells DEF KbSum

\* Kilobytes of one cell.
LEMMA KbOfOne ==
  ASSUME NEW hist, NEW c \in AllCells, NEW N, AreHistograms(hist)
  PROVE  KbOf(hist, {c}, N) = PagesIn(hist[c], N) * CellKb(c)
  <1>0. Cells \in Nat /\ AllCells = 1..Cells
    BY Constants DEF AllCells
  <1> DEFINE none == [d \in 1..Cells |-> 0]
             kb == PagesIn(hist[c], N) * CellKb(c)
  <1>1. kb \in Nat
    <2>1. \A a, b \in Nat : a * b \in Nat
      OBVIOUS
    <2> QED
      BY <2>1, Constants, PagesInNat DEF AreHistograms
  <1>2. \A d \in 1..Cells : CellKbs(hist, {c}, N)[d] = IF d = c THEN kb ELSE 0
    BY DEF CellKbs
  <1>3. \A d \in 1..Cells : none[d] = 0
    OBVIOUS
  <1> HIDE DEF none, kb
  <1>4. SumTo(CellKbs(hist, {c}, N), Cells) = SumTo(none, Cells) + CellKbs(hist, {c}, N)[c] - none[c]
    <2>1. \A d \in 1..Cells : none[d] \in Int /\ CellKbs(hist, {c}, N)[d] \in Int
      BY <1>1, <1>2, <1>3
    <2>2. \A d \in 1..Cells : d # c => CellKbs(hist, {c}, N)[d] = none[d]
      BY <1>2, <1>3
    <2>3. c \in 1..Cells
      BY <1>0
    <2> QED
      BY <1>0, <2>1, <2>2, <2>3, SumChange
  <1>5. SumTo(none, Cells) = 0
    BY <1>0, <1>3, SumZero
  <1>6. CellKbs(hist, {c}, N)[c] = kb /\ none[c] = 0
    BY <1>0, <1>2, <1>3
  <1>7. SumTo(CellKbs(hist, {c}, N), Cells) = kb
    BY <1>1, <1>4, <1>5, <1>6
  <1> QED
    BY <1>7, KbOfCells DEF kb

-----------------------------------------------------------------------------
(* What a parameter selects.                                               *)

\* What migrate() moves are histograms, like what it moves them from.
LEMMA Histories ==
  ASSUME TypeOK
  PROVE  /\ AreHistograms(pmem) /\ AreHistograms(dram)
         /\ AreHistograms(PromotedPages) /\ AreHistograms(DemotedPages)
         /\ \A c \in AllCells, n \in Refs : /\ PromotedPages[c][n] = Promoted(c, n)
                                            /\ DemotedPages[c][n] = Demoted(c, n)
  <1>1. AreHistograms(pmem) /\ AreHistograms(dram)
    BY OrderTypes DEF AreHistograms, IsHistogram
  <1>2. \A c \in AllCells, n \in Refs : /\ PromotedPages[c][n] = Promoted(c, n)
                                        /\ DemotedPages[c][n] = Demoted(c, n)
    BY DEF PromotedPages, DemotedPages
  <1>3. ASSUME NEW c \in AllCells, NEW n \in Refs
        PROVE  Promoted(c, n) \in Nat /\ Demoted(c, n) \in Nat
    <2>1. /\ pmem[c][n] \in Nat /\ dram[c][n] \in Nat
          /\ parameter[c].promote_remain \in Nat /\ parameter[c].demote_remain \in Nat
      BY OrderTypes DEF ParameterType
    <2>2. Promoted(c, n) \in {0, pmem[c][n], parameter[c].promote_remain}
      BY DEF Promoted, Lesser
    <2>3. Demoted(c, n) \in {0, dram[c][n], parameter[c].demote_remain}
      BY DEF Demoted, Lesser
    <2> QED
      BY <2>1, <2>2, <2>3
  <1> QED
    BY <1>1, <1>2, <1>3 DEF AreHistograms, IsHistogram

\* promote_and_demote() moves what the thresholds and the remainders select, cell by cell.
LEMMA SelectedPages ==
  ASSUME TypeOK, NEW c \in AllCells,
         parameter[c].hot_threshold <= NrWalks => parameter[c].hot_threshold_max = NrWalks,
         parameter[c].cold_threshold >= 0 => parameter[c].cold_threshold_min = 0
  PROVE  /\ PagesIn(PromotedPages[c], Refs) =
              IF parameter[c].enabled THEN HotSelected(parameter[c], pmem[c]) ELSE 0
         /\ PagesIn(DemotedPages[c], Refs) =
              IF parameter[c].enabled THEN ColdSelected(parameter[c], dram[c]) ELSE 0
  <1> DEFINE p == parameter[c]
             ht == p.hot_threshold
             ct == p.cold_threshold
             above == (ht + 1)..NrWalks
             below == 0..(ct - 1)
  <1>0. /\ NrWalks \in Nat /\ Refs = 0..NrWalks
        /\ ht \in 1..(NrWalks + 1) /\ ct \in -1..(NrWalks - 1)
        /\ IsHistogram(pmem[c]) /\ IsHistogram(dram[c])
        /\ IsHistogram(PromotedPages[c]) /\ IsHistogram(DemotedPages[c])
        /\ \A n \in Refs : PromotedPages[c][n] = Promoted(c, n) /\ DemotedPages[c][n] = Demoted(c, n)
    BY OrderTypes, Histories DEF ParameterType, AreHistograms
  <1>1. CASE ~p.enabled
    <2>1. \A n \in Refs : PromotedPages[c][n] = 0 /\ DemotedPages[c][n] = 0
      BY <1>0, <1>1 DEF Promoted, Demoted
    <2>2. PagesIn(PromotedPages[c], Refs) = 0 /\ PagesIn(DemotedPages[c], Refs) = 0
      BY <2>1, PagesInNone
    <2> QED
      BY <1>1, <2>2
  <1>2. CASE p.enabled
    <2>1. PagesIn(PromotedPages[c], Refs) = HotSelected(p, pmem[c])
      <3>1. CASE ht > NrWalks
        <4>1. \A n \in Refs : PromotedPages[c][n] = 0
          BY <1>0, <3>1 DEF Promoted
        <4>2. PagesIn(PromotedPages[c], Refs) = 0
          BY <4>1, PagesInNone
        <4> QED
          BY <3>1, <4>2 DEF HotSelected
      <3>2. CASE ht <= NrWalks
        <4>1. ht \in Refs /\ ht \notin above /\ p.hot_threshold_max = NrWalks
          BY <1>0, <3>2
        <4>2. \A n \in Refs : n # ht => (IF n \in Refs THEN PromotedPages[c][n] ELSE 0) =
                                         (IF n \in above THEN pmem[c][n] ELSE 0)
          BY <1>0, <1>2, <4>1 DEF Promoted
        <4>3. PromotedPages[c][ht] = Lesser(pmem[c][ht], p.promote_remain)
          BY <1>0, <1>2, <4>1 DEF Promoted
        <4> HIDE DEF ht, above, p
        <4>4. PagesIn(PromotedPages[c], Refs) = PagesIn(pmem[c], above) + PromotedPages[c][ht]
          BY <1>0, <4>1, <4>2, PagesInChange
        <4>5. ~(ht > NrWalks)
          BY <1>0, <3>2
        <4> QED
          BY <4>3, <4>4, <4>5 DEF HotSelected, Above, ht, above, p
      <3> QED
        BY <1>0, <3>1, <3>2
    <2>2. PagesIn(DemotedPages[c], Refs) = ColdSelected(p, dram[c])
      <3>1. CASE ct < 0
        <4>1. \A n \in Refs : DemotedPages[c][n] = 0
          <5> SUFFICES ASSUME NEW n \in Refs PROVE DemotedPages[c][n] = 0
            OBVIOUS
          <5>1. n # ct /\ ~(n < ct)
            BY <1>0, <3>1
          <5> QED
            BY <1>0, <5>1 DEF Demoted
        <4>2. PagesIn(DemotedPages[c], Refs) = 0
          BY <4>1, PagesInNone
        <4> QED
          BY <3>1, <4>2 DEF ColdSelected
      <3>2. CASE ct >= 0
        <4>1. ct \in Refs /\ ct \notin below /\ p.cold_threshold_min = 0
          BY <1>0, <3>2
        <4>2. \A n \in Refs : n # ct => (IF n \in Refs THEN DemotedPages[c][n] ELSE 0) =
                                         (IF n \in below THEN dram[c][n] ELSE 0)
          BY <1>0, <1>2, <4>1 DEF Demoted
        <4>3. DemotedPages[c][ct] = Lesser(dram[c][ct], p.demote_remain)
          BY <1>0, <1>2, <4>1 DEF Demoted
        <4> HIDE DEF ct, below, p
        <4>4. PagesIn(DemotedPages[c], Refs) = PagesIn(dram[c], below) + DemotedPages[c][ct]
          BY <1>0, <4>1, <4>2, PagesInChange
        <4>5. ~(ct < 0)
          BY <1>0, <3>2
        <4> QED
          BY <4>3, <4>4, <4>5 DEF ColdSelected, Below, ct, below, p
      <3> QED
        BY <1>0, <3>1, <3>2
    <2> QED
      BY <1>2, <2>1, <2>2
  <1> QED
    BY <1>1, <1>2

-----------------------------------------------------------------------------
\* What a parameter selects is a number of pages.
LEMMA SelectedNat ==
  ASSUME NEW p \in ParameterType, NEW h, IsHistogram(h)
  PROVE  HotSelected(p, h) \in Nat /\ ColdSelected(p, h) \in Nat
  <1>0. /\ p.promote_remain \in Nat /\ p.demote_remain \in Nat /\ NrWalks \in Nat
        /\ p.hot_threshold \in 1..(NrWalks + 1) /\ p.cold_threshold \in -1..(NrWalks - 1)
        /\ Refs = 0..NrWalks /\ \A n \in Refs : h[n] \in Nat
    BY Constants DEF ParameterType, Refs, IsHistogram
  <1>1. ASSUME NEW n \in Refs PROVE Above(h, n) \in Nat /\ Below(h, n) \in Nat
    <2>1. n \in Int
      BY <1>0
    <2> QED
      BY <2>1, AboveBelow
  <1>2. HotSelected(p, h) \in Nat
    <2>1. CASE p.hot_threshold > NrWalks
      BY <2>1 DEF HotSelected
    <2>2. CASE ~(p.hot_threshold > NrWalks)
      <3>1. p.hot_threshold \in Refs
        BY <1>0, <2>2
      <3>2. Above(h, p.hot_threshold) \in Nat /\ h[p.hot_threshold] \in Nat
        BY <1>0, <1>1, <3>1
      <3>3. Lesser(h[p.hot_threshold], p.promote_remain) \in Nat
        BY <1>0, <3>2 DEF Lesser
      <3>4. HotSelected(p, h) = Above(h, p.hot_threshold) + Lesser(h[p.hot_threshold], p.promote_remain)
        BY <2>2 DEF HotSelected
      <3> QED
        BY <3>2, <3>3, <3>4
    <2> QED
      BY <2>1, <2>2
  <1>3. ColdSelected(p, h) \in Nat
    <2>1. CASE p.cold_threshold < 0
      BY <2>1 DEF ColdSelected
    <2>2. CASE ~(p.cold_threshold < 0)
      <3>1. p.cold_threshold \in Refs
        BY <1>0, <2>2
      <3>2. Below(h, p.cold_threshold) \in Nat /\ h[p.cold_threshold] \in Nat
        BY <1>0, <1>1, <3>1
      <3>3. Lesser(h[p.cold_threshold], p.demote_remain) \in Nat
        BY <1>0, <3>2 DEF Lesser
      <3>4. ColdSelected(p, h) = Below(h, p.cold_threshold) + Lesser(h[p.cold_threshold], p.demote_remain)
        BY <2>2 DEF ColdSelected
      <3> QED
        BY <3>2, <3>3, <3>4
    <2> QED
      BY <2>1, <2>2
  <1> QED
    BY <1>2, <1>3

\* It selects all that lies beyond a threshold, and more.
LEMMA SelectedBounds ==
  ASSUME NEW p \in ParameterType, NEW h, IsHistogram(h)
  PROVE  /\ p.hot_threshold <= NrWalks => Above(h, p.hot_threshold) <= HotSelected(p, h)
         /\ p.cold_threshold >= 0 => Below(h, p.cold_threshold) <= ColdSelected(p, h)
  <1>0. /\ p.promote_remain \in Nat /\ p.demote_remain \in Nat /\ NrWalks \in Nat
        /\ p.hot_threshold \in 1..(NrWalks + 1) /\ p.cold_threshold \in -1..(NrWalks - 1)
        /\ Refs = 0..NrWalks /\ \A n \in Refs : h[n] \in Nat
    BY Constants DEF ParameterType, Refs, IsHistogram
  <1>1. ASSUME NEW n \in Refs PROVE Above(h, n) \in Nat /\ Below(h, n) \in Nat
    <2>1. n \in Int
      BY <1>0
    <2> QED
      BY <2>1, AboveBelow
  <1>2. ASSUME p.hot_threshold <= NrWalks
        PROVE  Above(h, p.hot_threshold) <= HotSelected(p, h)
    <2>1. p.hot_threshold \in Refs /\ ~(p.hot_threshold > NrWalks)
      BY <1>0, <1>2
    <2>2. Above(h, p.hot_threshold) \in Nat /\ h[p.hot_threshold] \in Nat
      BY <1>0, <1>1, <2>1
    <2>3. Lesser(h[p.hot_threshold], p.promote_remain) \in Nat
      BY <1>0, <2>2 DEF Lesser
    <2>4. HotSelected(p, h) = Above(h, p.hot_threshold) + Lesser(h[p.hot_threshold], p.promote_remain)
      BY <2>1 DEF HotSelected
    <2> QED
      BY <2>2, <2>3, <2>4
  <1>3. ASSUME p.cold_threshold >= 0
        PROVE  Below(h, p.cold_threshold) <= ColdSelected(p, h)
    <2>1. p.cold_threshold \in Refs /\ ~(p.cold_threshold < 0)
      BY <1>0, <1>3
    <2>2. Below(h, p.cold_threshold) \in Nat /\ h[p.cold_threshold] \in Nat
      BY <1>0, <1>1, <2>1
    <2>3. Lesser(h[p.cold_threshold], p.demote_remain) \in Nat
      BY <1>0, <2>2 DEF Lesser
    <2>4. ColdSelected(p, h) = Below(h, p.cold_threshold) + Lesser(h[p.cold_threshold], p.demote_remain)
      BY <2>1 DEF ColdSelected
    <2> QED
      BY <2>2, <2>3, <2>4
  <1> QED
    BY <1>2, <1>3

\* anti_thrashing() only takes pages away, and what it leaves enabled is far apart.
LEMMA AntiThrashingTakes ==
  ASSUME TypeOK, NEW p \in ParameterType
  PROVE  LET q == AntiThrashing(p) IN
         /\ HotSelected(q, pmem[cell]) <= HotSelected(p, pmem[cell])
         /\ ColdSelected(p, dram[cell]) <= p.nr_demote => ColdSelected(q, dram[cell]) <= p.nr_demote
         /\ q.hot_threshold_max = p.hot_threshold_max
         /\ q.cold_threshold_min = p.cold_threshold_min
         /\ q.hot_threshold <= NrWalks => p.hot_threshold <= NrWalks
         /\ q.cold_threshold >= 0 => p.cold_threshold >= 0
         /\ p.hot_threshold >= NrWalks => q.hot_threshold = p.hot_threshold
         /\ q.enabled /\ q.hot_threshold <= NrWalks /\ q.cold_threshold >= 0 => FarApart(q)
  <1> DEFINE cold == Greater(p.hot_threshold - AntiThrash, 0)
             hot == Lesser(p.cold_threshold + AntiThrash, NrWalks)
             kept == p.cold_threshold < 0 \/ p.hot_threshold > NrWalks \/ FarApart(p)
             h == pmem[cell]
             g == dram[cell]
  <1>0. /\ NrWalks \in Nat \ {0} /\ AntiThrash \in Nat /\ Refs = 0..NrWalks
        /\ p.hot_threshold \in 1..(NrWalks + 1) /\ p.cold_threshold \in -1..(NrWalks - 1)
        /\ p.nr_promote \in Nat /\ p.nr_demote \in Nat
        /\ p.promote_remain \in Nat /\ p.demote_remain \in Nat
        /\ IsHistogram(h) /\ IsHistogram(g)
    BY OrderTypes, Histories, Constants DEF ParameterType, AreHistograms
  <1>1. HotSelected(p, h) \in Nat /\ ColdSelected(p, g) \in Nat
    BY <1>0, SelectedNat
  <1>2. CASE kept
    <2>1. AntiThrashing(p) = p
      BY <1>2 DEF AntiThrashing
    <2> QED
      BY <1>0, <1>1, <1>2, <2>1
  <1>3. CASE ~kept
    <2>1. p.hot_threshold - p.cold_threshold < AntiThrash
      BY <1>0, <1>3 DEF FarApart
    <2>2. p.cold_threshold >= 0 /\ p.hot_threshold <= NrWalks
      BY <1>0, <1>3
    <2>3. CASE p.hot_threshold = NrWalks
      <3> DEFINE q == AntiThrashing(p)
      <3>1. q = [p EXCEPT !.cold_threshold = cold,
                          !.demote_remain = Lesser(g[cold], p.nr_demote), !.enabled = FALSE]
        BY <1>3, <2>3 DEF AntiThrashing, ParameterType
      <3>2. /\ q.cold_threshold = cold /\ q.demote_remain = Lesser(g[cold], p.nr_demote)
            /\ q.enabled = FALSE /\ q.hot_threshold = p.hot_threshold
            /\ q.hot_threshold_max = p.hot_threshold_max
            /\ q.cold_threshold_min = p.cold_threshold_min
            /\ q.promote_remain = p.promote_remain
        BY <3>1 DEF ParameterType
      <3> HIDE DEF q
      <3>3. HotSelected(q, h) = HotSelected(p, h)
        BY <3>2 DEF HotSelected
      <3>4. /\ cold \in Refs /\ (cold < p.cold_threshold \/ (cold = 0 /\ p.cold_threshold = 0))
            /\ cold \in Nat
        BY <1>0, <2>1, <2>2, <2>3 DEF Greater
      <3> HIDE DEF cold
      <3>5. ASSUME ColdSelected(p, g) <= p.nr_demote PROVE ColdSelected(q, g) <= p.nr_demote
        <4>1. g[cold] \in Nat
          BY <1>0, <3>4 DEF IsHistogram
        <4>2. ColdSelected(q, g) = Below(g, cold) + Lesser(g[cold], Lesser(g[cold], p.nr_demote))
          BY <3>2, <3>4 DEF ColdSelected
        <4> HIDE DEF g
        <4>3. CASE cold = 0 /\ p.cold_threshold = 0
          <5>1. Below(g, cold) = 0
            BY <1>0, <4>3, AboveBelow
          <5> QED
            BY <1>0, <4>1, <4>2, <5>1 DEF Lesser
        <4>4. CASE cold < p.cold_threshold
          <5>1. Below(g, cold + 1) = Below(g, cold) + g[cold]
            BY <1>0, <3>4, AboveBelow
          <5>2. /\ cold + 1 \in Int /\ p.cold_threshold \in Int /\ cold + 1 <= p.cold_threshold
                /\ cold \in Int
            BY <1>0, <3>4, <4>4
          <5>3. Below(g, cold + 1) <= Below(g, p.cold_threshold)
            BY <1>0, <5>2, AboveBelow
          <5>4. Below(g, p.cold_threshold) \in Nat /\ Below(g, cold) \in Nat
            BY <1>0, <5>2, AboveBelow
          <5>5. Below(g, p.cold_threshold) <= ColdSelected(p, g)
            BY <1>0, <2>2, SelectedBounds
          <5> QED
            BY <1>0, <1>1, <3>5, <4>1, <4>2, <5>1, <5>3, <5>4, <5>5 DEF Lesser
        <4> QED
          BY <3>4, <4>3, <4>4
      <3> QED
        BY <1>0, <1>1, <2>2, <2>3, <3>2, <3>3, <3>5 DEF q
    <2>4. CASE p.hot_threshold # NrWalks
      <3> DEFINE q == AntiThrashing(p)
      <3>1. q = [p EXCEPT !.hot_threshold = hot,
                          !.promote_remain = Lesser(h[hot], p.nr_promote), !.enabled = FALSE]
        BY <1>3, <2>4 DEF AntiThrashing, ParameterType
      <3>2. /\ q.hot_threshold = hot /\ q.promote_remain = Lesser(h[hot], p.nr_promote)
            /\ q.enabled = FALSE /\ q.cold_threshold = p.cold_threshold
            /\ q.hot_threshold_max = p.hot_threshold_max
            /\ q.cold_threshold_min = p.cold_threshold_min
            /\ q.demote_remain = p.demote_remain
        BY <3>1 DEF ParameterType
      <3> HIDE DEF q
      <3>3. ColdSelected(q, g) = ColdSelected(p, g)
        BY <3>2 DEF ColdSelected
      <3>4. hot \in Refs /\ hot > p.hot_threshold /\ hot \in Nat /\ ~(hot > NrWalks)
        <4>1. p.hot_threshold < p.cold_threshold + AntiThrash /\ p.hot_threshold < NrWalks
          BY <1>0, <2>1, <2>2, <2>4
        <4>2. hot \in Int /\ hot <= NrWalks /\ hot > p.hot_threshold
          BY <1>0, <4>1 DEF Lesser
        <4> HIDE DEF hot
        <4> QED
          BY <1>0, <4>2
      <3> HIDE DEF hot
      <3>5. HotSelected(q, h) <= HotSelected(p, h)
        <4>1. h[hot] \in Nat
          BY <1>0, <3>4 DEF IsHistogram
        <4>2. HotSelected(q, h) = Above(h, hot) + Lesser(h[hot], Lesser(h[hot], p.nr_promote))
          BY <3>2, <3>4 DEF HotSelected
        <4> HIDE DEF h
        <4>3. Above(h, hot - 1) = Above(h, hot) + h[hot]
          BY <1>0, <3>4, AboveBelow
        <4>4. /\ hot - 1 \in Int /\ p.hot_threshold \in Int /\ p.hot_threshold <= hot - 1
              /\ hot \in Int
          BY <1>0, <3>4
        <4>5. Above(h, hot - 1) <= Above(h, p.hot_threshold)
          BY <1>0, <4>4, AboveBelow
        <4>6. Above(h, p.hot_threshold) \in Nat /\ Above(h, hot) \in Nat
          BY <1>0, <4>4, AboveBelow
        <4>7. Above(h, p.hot_threshold) <= HotSelected(p, h)
          BY <1>0, <2>2, SelectedBounds
        <4> QED
          BY <1>0, <1>1, <4>1, <4>2, <4>3, <4>5, <4>6, <4>7 DEF Lesser
      <3>6. ~(p.hot_threshold >= NrWalks)
        BY <1>0, <2>2, <2>4
      <3> QED
        BY <1>0, <1>1, <2>2, <3>2, <3>3, <3>5, <3>6 DEF q
    <2> QED
      BY <2>3, <2>4
  <1> QED
    BY <1>2, <1>3

-----------------------------------------------------------------------------
(* One step.                                                               *)

\* Going to the next cell leaves this cell's cold pages behind, and no hot page.
LEMMA NextCellMarks ==
  ASSUME TypeOK, NextCell, part = "cold"
  PROVE  /\ \A c \in AllCells : HotMark(c)' = HotMark(c)
         /\ \A c \in AllCells : c # cell => ColdMark(c)' = ColdMark(c)
         /\ \A c \in AllCells : c = cell =>
              /\ ColdMark(c) = cold_threshold
              /\ ColdMark(c)' = IF cold_threshold < NrWalks THEN cold_threshold + 1 ELSE cold_threshold
  <1>1. /\ cell \in 1..Cells /\ i \in 0..NrWalks /\ Cells \in Nat /\ NrWalks \in Nat
        /\ AllCells = 1..Cells
    BY OrderTypes
  <1>2. \/ cell < Cells /\ i' = i /\ cell' = cell + 1 /\ part' = "hot"
        \/ cell = Cells /\ i < NrWalks /\ i' = i + 1 /\ cell' = 1 /\ part' = "hot"
        \/ cell = Cells /\ i = NrWalks /\ i' = i /\ cell' = 1
    BY <1>1 DEF NextCell
  <1>3. hot_threshold = NrWalks - i /\ hot_threshold' = NrWalks - i' /\ cold_threshold = i /\ cold_threshold' = i'
    BY DEF hot_threshold, cold_threshold
  <1>4. \A c \in AllCells : HotMark(c)' = HotMark(c)
    BY <1>1, <1>2, <1>3 DEF HotMark
  <1>5. \A c \in AllCells : c # cell => ColdMark(c)' = ColdMark(c)
    BY <1>1, <1>2, <1>3 DEF ColdMark
  <1>6. \A c \in AllCells : c = cell =>
              /\ ColdMark(c) = cold_threshold
              /\ ColdMark(c)' = IF cold_threshold < NrWalks THEN cold_threshold + 1 ELSE cold_threshold
    BY <1>1, <1>2, <1>3 DEF ColdMark
  <1> QED
    BY <1>4, <1>5, <1>6

\* The hot part of a cell leaves its hot pages behind, and no cold page.
LEMMA HotPartMarks ==
  ASSUME TypeOK, SelectHot \/ SkipHot
  PROVE  /\ \A c \in AllCells : ColdMark(c)' = ColdMark(c)
         /\ \A c \in AllCells : c # cell => HotMark(c)' = HotMark(c)
         /\ \A c \in AllCells : c = cell =>
              /\ HotMark(c) = hot_threshold
              /\ HotMark(c)' = IF hot_threshold > 0 THEN hot_threshold - 1 ELSE hot_threshold
  <1>1. /\ cell \in 1..Cells /\ i \in 0..NrWalks /\ Cells \in Nat /\ NrWalks \in Nat
        /\ AllCells = 1..Cells
    BY OrderTypes
  <1>2. i' = i /\ cell' = cell /\ part = "hot" /\ part' = "cold"
    BY DEF SelectHot, SkipHot
  <1>3. hot_threshold = NrWalks - i /\ hot_threshold' = NrWalks - i' /\ cold_threshold = i /\ cold_threshold' = i'
    BY DEF hot_threshold, cold_threshold
  <1>4. \A c \in AllCells : ColdMark(c)' = ColdMark(c)
    BY <1>1, <1>2, <1>3 DEF ColdMark
  <1>5. \A c \in AllCells : c # cell => HotMark(c)' = HotMark(c)
    BY <1>1, <1>2, <1>3 DEF HotMark
  <1>6. \A c \in AllCells : c = cell =>
              /\ HotMark(c) = hot_threshold
              /\ HotMark(c)' = IF hot_threshold > 0 THEN hot_threshold - 1 ELSE hot_threshold
    BY <1>1, <1>2, <1>3 DEF HotMark
  <1> QED
    BY <1>4, <1>5, <1>6

\* What is taken of a cell is whole pages and less than one page more; it is all that the
\* cell offers unless the room ends.
LEMMA TakenWithin ==
  ASSUME TypeOK, NEW nr \in Nat, NEW room \in Nat
  PROVE  /\ WholePages(Taken(nr, room)) \in Nat
         /\ WholePages(Taken(nr, room)) <= nr
         /\ WholePages(Taken(nr, room)) * CellKb(cell) <= Taken(nr, room)
         /\ Taken(nr, room) < WholePages(Taken(nr, room)) * CellKb(cell) + CellKb(cell)
         /\ Taken(nr, room) < room =>
              /\ WholePages(Taken(nr, room)) = nr
              /\ Taken(nr, room) = WholePages(Taken(nr, room)) * CellKb(cell)
  <1> DEFINE k == CellKb(cell)
             kb == Taken(nr, room)
             page == WholePages(kb)
  <1>1. k \in Nat \ {0}
    BY Constants DEF TypeOK
  <1>2. kb \in Nat /\ page \in Nat /\ page * k <= kb
    BY TakenPages
  <1>3. kb <= nr * k /\ (kb < room => kb = nr * k)
    <2> DEFINE offered == nr * k
    <2>1. offered \in Nat
      <3> HIDE DEF k
      <3> QED
        BY <1>1
    <2>2. kb = Lesser(offered, room)
      BY DEF Taken
    <2> HIDE DEF offered, kb
    <2>3. kb <= offered /\ (kb < room => kb = offered)
      BY <2>1, <2>2 DEF Lesser
    <2> QED
      BY <2>3 DEF offered
  <1>4. kb < page * k + k
    <2>1. \A a \in Nat, b \in Nat \ {0} : a < (a \div b) * b + b
      OBVIOUS
    <2> QED
      BY <1>1, <1>2, <2>1 DEF WholePages
  <1>5. page <= nr
    <2>1. ASSUME NEW a \in Nat, NEW b \in Nat, NEW c \in Nat \ {0}, a * c <= b * c PROVE a <= b
      <3> SUFFICES ASSUME a > b PROVE FALSE
        OBVIOUS
      <3>1. a - b \in Nat \ {0}
        OBVIOUS
      <3>2. (a - b) * c > 0
        BY <3>1
      <3>3. (a - b) * c = a * c - b * c
        OBVIOUS
      <3>4. a * c \in Int /\ b * c \in Int
        OBVIOUS
      <3> QED
        BY <2>1, <3>2, <3>3, <3>4
    <2>2. page * k <= nr * k
      <3>1. page * k \in Int /\ nr * k \in Int
        <4> HIDE DEF page, k
        <4> QED
          BY <1>1, <1>2
      <3> HIDE DEF page, k, kb
      <3> QED
        BY <1>2, <1>3, <3>1
    <2> HIDE DEF page, k, kb
    <2> QED
      BY <1>1, <1>2, <2>1, <2>2
  <1>6. kb < room => page = nr
    BY TakenAll
  <1> HIDE DEF page, kb, k
  <1>7. kb < room => page = nr /\ kb = page * k
    BY <1>3, <1>6
  <1> QED
    BY <1>2, <1>4, <1>5, <1>7 DEF page, kb, k

\* A step keeps the account: only the one that uses up the limit is cut inside a page.
LEMMA ChargeMore ==
  ASSUME TypeOK, NEW count \in Nat, NEW limit \in Nat, count < limit, NEW offered \in Nat,
         NEW nr, NEW after,
         \A c \in AllCells : nr[c] \in Nat /\ after[c] \in Nat,
         \A c \in AllCells : c # cell => after[c] = nr[c],
         after[cell] = nr[cell] + WholePages(Taken(offered, limit - count)),
         Charged(count, limit, nr)
  PROVE  Charged(count + Taken(offered, limit - count), limit, after)
  <1> DEFINE room == limit - count
             kb == Taken(offered, room)
             page == WholePages(kb)
             k == CellKb(cell)
             more == page * k
  <1>1. /\ cell \in AllCells /\ k \in Nat \ {0} /\ room \in Nat
    BY Constants DEF TypeOK
  <1>2. /\ kb \in Nat /\ page \in Nat /\ more <= kb /\ kb < more + k
        /\ kb < room => kb = more
    <2> HIDE DEF room
    <2> QED
      BY <1>1, TakenWithin, TakenPages
  <1>3. more \in Nat
    <2> HIDE DEF page, k
    <2> QED
      BY <1>1, <1>2
  <1>4. k <= BiggestPageKb /\ BiggestPageKb \in Nat
    <2>1. PageKb[1] \in Nat /\ PageKb[2] \in Nat
      BY MigrateCountAssumption DEF Types
    <2>2. k \in {PageKb[1], PageKb[2]}
      <3>1. cell \in Nat
        BY <1>1, Constants DEF AllCells
      <3>2. TypeOf(cell) \in {1, 2}
        BY <3>1 DEF TypeOf
      <3> QED
        BY <3>2 DEF CellKb
    <2> QED
      BY <2>1, <2>2 DEF BiggestPageKb, Greater
  <1>5. KbSum(after) = KbSum(nr) + more
    <2>1. after[cell] = nr[cell] + page
      OBVIOUS
    <2> HIDE DEF page
    <2> QED
      BY <1>1, <1>2, <2>1, KbSumChange
  <1>6. KbSum(nr) \in Nat
    BY KbSumNat
  <1>7. count = KbSum(nr)
    BY DEF Charged
  <1>8. count + kb < limit => kb < room
    <2> HIDE DEF kb
    <2> QED
      BY <1>2
  <1>9. Charged(count + kb, limit, after)
    <2> HIDE DEF kb, more, k, room
    <2> QED
      BY <1>1, <1>2, <1>3, <1>4, <1>5, <1>6, <1>7, <1>8 DEF Charged
  <1> QED
    BY <1>9

\* All that SelectHot does to the cell's parameter and to the count.
LEMMA SelectHotBooks ==
  ASSUME TypeOK, SelectHot
  PROVE  /\ promote_count_kb < promote_limit_kb /\ hot_threshold \in 1..NrWalks
         /\ UNCHANGED <<input, i, cell, demote_count_kb>> /\ part = "hot" /\ part' = "cold"
         /\ \E p \in ParameterType, page \in Nat :
              /\ parameter' = [parameter EXCEPT ![cell] = p]
              /\ page = WholePages(Taken(pmem[cell][hot_threshold], promote_limit_kb - promote_count_kb))
              /\ p.nr_promote = parameter[cell].nr_promote + page
              /\ p.promote_remain = page
              /\ p.hot_threshold = hot_threshold /\ p.hot_threshold_max = NrWalks /\ p.enabled
              /\ p.nr_demote = parameter[cell].nr_demote
              /\ p.cold_threshold = parameter[cell].cold_threshold
              /\ p.cold_threshold_min = parameter[cell].cold_threshold_min
              /\ p.demote_remain = parameter[cell].demote_remain
         /\ promote_count_kb' = promote_count_kb
              + Taken(pmem[cell][hot_threshold], promote_limit_kb - promote_count_kb)
  <1> DEFINE room == promote_limit_kb - promote_count_kb
             nr == pmem[cell][hot_threshold]
             page == WholePages(Taken(nr, room))
             p == [parameter[cell] EXCEPT
                     !.nr_promote = @ + page, !.promote_remain = page,
                     !.hot_threshold = hot_threshold, !.hot_threshold_max = NrWalks,
                     !.enabled = TRUE]
  <1>1. /\ promote_count_kb < promote_limit_kb /\ hot_threshold > 0
        /\ UNCHANGED <<input, i, cell, demote_count_kb>> /\ part = "hot" /\ part' = "cold"
    BY DEF SelectHot, HotWanted
  <1>2. hot_threshold \in 1..NrWalks
    BY <1>1, OrderTypes
  <1>3. room \in Nat /\ nr \in Nat /\ parameter[cell] \in ParameterType
    BY <1>1, OrderTypes
  <1>4. page \in Nat
    <2> HIDE DEF nr, room
    <2> QED
      BY <1>3, TakenPages
  <1>5. /\ parameter' = [parameter EXCEPT ![cell] = p]
        /\ promote_count_kb' = promote_count_kb + Taken(nr, room)
    BY DEF SelectHot
  <1>6. /\ p \in ParameterType
        /\ p.nr_promote = parameter[cell].nr_promote + page
        /\ p.promote_remain = page
        /\ p.hot_threshold = hot_threshold /\ p.hot_threshold_max = NrWalks /\ p.enabled
        /\ p.nr_demote = parameter[cell].nr_demote
        /\ p.cold_threshold = parameter[cell].cold_threshold
        /\ p.cold_threshold_min = parameter[cell].cold_threshold_min
        /\ p.demote_remain = parameter[cell].demote_remain
    <2> HIDE DEF page
    <2>1. parameter[cell].nr_promote + page \in Nat
      BY <1>3, <1>4 DEF ParameterType
    <2>2. hot_threshold \in 1..(NrWalks + 1) /\ NrWalks \in {NrWalks, NrWalks + 1}
      BY <1>2, Constants
    <2> QED
      BY <1>3, <1>4, <2>1, <2>2 DEF ParameterType
  <1>7. page = WholePages(Taken(pmem[cell][hot_threshold], promote_limit_kb - promote_count_kb))
    OBVIOUS
  <1> HIDE DEF p, page
  <1> QED
    BY <1>1, <1>2, <1>4, <1>5, <1>6, <1>7

\* All that SelectCold does to the cell's parameter and to the count.
LEMMA SelectColdBooks ==
  ASSUME TypeOK, SelectCold
  PROVE  /\ demote_count_kb < demote_limit_kb /\ cold_threshold \in 0..(NrWalks - 1)
         /\ UNCHANGED <<input, promote_count_kb>> /\ NextCell /\ part = "cold" /\ ~ThrashDisabled
         /\ \E p \in ParameterType, page \in Nat :
              /\ parameter' = [parameter EXCEPT ![cell] =
                                 IF in_adjust_ratio_stage THEN p ELSE AntiThrashing(p)]
              /\ page = WholePages(Taken(dram[cell][cold_threshold], demote_limit_kb - demote_count_kb))
              /\ p.nr_demote = parameter[cell].nr_demote + page
              /\ p.demote_remain = page
              /\ p.cold_threshold = cold_threshold /\ p.cold_threshold_min = 0 /\ p.enabled
              /\ p.nr_promote = parameter[cell].nr_promote
              /\ p.hot_threshold = parameter[cell].hot_threshold
              /\ p.hot_threshold_max = parameter[cell].hot_threshold_max
              /\ p.promote_remain = parameter[cell].promote_remain
         /\ demote_count_kb' = demote_count_kb
              + Taken(dram[cell][cold_threshold], demote_limit_kb - demote_count_kb)
  <1> DEFINE room == demote_limit_kb - demote_count_kb
             nr == dram[cell][cold_threshold]
             page == WholePages(Taken(nr, room))
             p == [parameter[cell] EXCEPT
                     !.nr_demote = @ + page, !.demote_remain = page,
                     !.cold_threshold = cold_threshold, !.cold_threshold_min = 0,
                     !.enabled = TRUE]
  <1>1. /\ demote_count_kb < demote_limit_kb /\ cold_threshold < NrWalks
        /\ UNCHANGED <<input, promote_count_kb>> /\ NextCell /\ part = "cold" /\ ~ThrashDisabled
    BY DEF SelectCold, ColdWanted
  <1>2. cold_threshold \in 0..(NrWalks - 1)
    BY <1>1, OrderTypes
  <1>3. room \in Nat /\ nr \in Nat /\ parameter[cell] \in ParameterType
    BY <1>1, OrderTypes
  <1>4. page \in Nat
    <2> HIDE DEF nr, room
    <2> QED
      BY <1>3, TakenPages
  <1>5. /\ parameter' = [parameter EXCEPT ![cell] =
                           IF in_adjust_ratio_stage THEN p ELSE AntiThrashing(p)]
        /\ demote_count_kb' = demote_count_kb + Taken(nr, room)
    BY DEF SelectCold
  <1>6. /\ p \in ParameterType
        /\ p.nr_demote = parameter[cell].nr_demote + page
        /\ p.demote_remain = page
        /\ p.cold_threshold = cold_threshold /\ p.cold_threshold_min = 0 /\ p.enabled
        /\ p.nr_promote = parameter[cell].nr_promote
        /\ p.hot_threshold = parameter[cell].hot_threshold
        /\ p.hot_threshold_max = parameter[cell].hot_threshold_max
        /\ p.promote_remain = parameter[cell].promote_remain
    <2> HIDE DEF page
    <2>1. parameter[cell].nr_demote + page \in Nat
      BY <1>3, <1>4 DEF ParameterType
    <2>2. cold_threshold \in -1..(NrWalks - 1)
      BY <1>2, Constants
    <2> QED
      BY <1>3, <1>4, <2>1, <2>2 DEF ParameterType
  <1>7. page = WholePages(Taken(dram[cell][cold_threshold], demote_limit_kb - demote_count_kb))
    OBVIOUS
  <1> HIDE DEF p, page
  <1> QED
    BY <1>1, <1>2, <1>4, <1>5, <1>6, <1>7

-----------------------------------------------------------------------------
(* Every step keeps the books.                                             *)

\* SelectHot adds to nr_promote the pages at the threshold that it sets.
LEMMA HotStepHotBooks ==
  ASSUME TypeOK, HotBooks, SelectHot
  PROVE  HotBooks'
  <1> DEFINE n == hot_threshold
             offered == pmem[cell][n]
             room == promote_limit_kb - promote_count_kb
             kb == Taken(offered, room)
             h == pmem[cell]
  <1>0. /\ promote_count_kb < promote_limit_kb /\ n \in 1..NrWalks /\ n \in Refs
        /\ promote_count_kb \in Nat /\ promote_limit_kb \in Nat /\ room \in Nat
        /\ offered \in Nat /\ cell \in AllCells /\ NrWalks \in Nat
        /\ promote_limit_kb' = promote_limit_kb /\ pmem' = pmem
        /\ in_adjust_ratio_stage' = in_adjust_ratio_stage
        /\ promote_count_kb' = promote_count_kb + kb
    BY SelectHotBooks, OrderTypes DEF promote_limit_kb, pmem, in_adjust_ratio_stage
  <1>1. PICK p \in ParameterType, page \in Nat :
              /\ parameter' = [parameter EXCEPT ![cell] = p]
              /\ page = WholePages(kb)
              /\ p.nr_promote = parameter[cell].nr_promote + page
              /\ p.promote_remain = page
              /\ p.hot_threshold = n /\ p.hot_threshold_max = NrWalks
    BY SelectHotBooks
  <1>2. /\ parameter'[cell] = p
        /\ \A c \in AllCells : c # cell => parameter'[c] = parameter[c]
    BY <1>1, OrderTypes
  <1>3. /\ \A c \in AllCells : NrPromote[c] = parameter[c].nr_promote /\ NrPromote[c] \in Nat
        /\ \A c \in AllCells : NrPromote'[c] = parameter'[c].nr_promote
    BY OrderTypes DEF NrPromote, ParameterType
  <1>4. /\ \A c \in AllCells : c # cell => NrPromote'[c] = NrPromote[c]
        /\ NrPromote'[cell] = NrPromote[cell] + page
        /\ \A c \in AllCells : NrPromote'[c] \in Nat
    <2>1. NrPromote'[cell] = NrPromote[cell] + page
      BY <1>0, <1>1, <1>2, <1>3
    <2>2. \A c \in AllCells : c # cell => NrPromote'[c] = NrPromote[c]
      BY <1>2, <1>3
    <2>3. NrPromote[cell] + page \in Nat
      BY <1>0, <1>3
    <2>4. \A c \in AllCells : NrPromote'[c] \in Nat
      BY <1>3, <2>1, <2>2, <2>3
    <2> QED
      BY <2>1, <2>2, <2>4
  <1>5. Charged(promote_count_kb, promote_limit_kb, NrPromote)
    BY DEF HotBooks
  <1>6. Charged(promote_count_kb', promote_limit_kb', NrPromote')
    <2> DEFINE nr == NrPromote
               after == NrPromote'
    <2>1. /\ \A c \in AllCells : nr[c] \in Nat /\ after[c] \in Nat
          /\ \A c \in AllCells : c # cell => after[c] = nr[c]
          /\ after[cell] = nr[cell] + WholePages(Taken(offered, promote_limit_kb - promote_count_kb))
          /\ Charged(promote_count_kb, promote_limit_kb, nr)
      BY <1>1, <1>3, <1>4, <1>5
    <2> HIDE DEF nr, after, offered
    <2>2. Charged(promote_count_kb + Taken(offered, promote_limit_kb - promote_count_kb),
                  promote_limit_kb, after)
      BY <1>0, <2>1, ChargeMore
    <2> QED
      BY <1>0, <2>2 DEF after
  <1>7. page <= offered /\ (promote_count_kb' < promote_limit_kb => page = offered)
    <2> HIDE DEF offered, room
    <2>1. kb \in Nat
      BY <1>0, TakenPages
    <2>2. promote_count_kb' < promote_limit_kb => kb < room
      <3> HIDE DEF kb
      <3> QED
        BY <1>0, <2>1 DEF room
    <2> QED
      BY <1>0, <1>1, <2>2, TakenWithin
  <1>8. \A c \in AllCells : parameter[c].nr_promote = Above(pmem[c], HotMark(c))
    BY <1>0 DEF HotBooks
  <1>9. /\ \A c \in AllCells : c # cell => HotMark(c)' = HotMark(c)
        /\ HotMark(cell) = n
        /\ \A c \in AllCells : c = cell => HotMark(c)' = n - 1
    <2>1. \A c \in AllCells : c = cell => HotMark(c) = n /\ HotMark(c)' = n - 1
      BY <1>0, HotPartMarks
    <2> QED
      BY <1>0, <2>1, HotPartMarks
  <1>10. IsHistogram(h)
    BY <1>0, Histories DEF AreHistograms
  <1>11. /\ Above(h, n - 1) = Above(h, n) + offered /\ Above(h, n) \in Nat
    <2>1. n \in Int
      BY <1>0
    <2> QED
      BY <1>0, <1>10, <2>1, AboveBelow
  <1>12. parameter[cell].nr_promote = Above(h, n)
    BY <1>0, <1>8, <1>9
  <1>13. ASSUME promote_count_kb' < promote_limit_kb', NEW c \in AllCells
         PROVE  parameter'[c].nr_promote = Above(pmem'[c], HotMark(c)')
    <2>1. CASE c = cell
      <3>1. Above(pmem'[c], HotMark(c)') = Above(h, n - 1)
        BY <1>0, <1>9, <2>1
      <3>2. parameter'[c].nr_promote = Above(h, n) + page /\ page = offered
        BY <1>0, <1>1, <1>2, <1>7, <1>12, <1>13, <2>1
      <3> QED
        BY <1>11, <3>1, <3>2
    <2>2. CASE c # cell
      BY <1>0, <1>2, <1>8, <1>9, <2>2
    <2> QED
      BY <2>1, <2>2
  <1>14. HotSelected(p, h) = p.nr_promote
    <2>1. HotSelected(p, h) = Above(h, n) + Lesser(offered, page)
      BY <1>0, <1>1 DEF HotSelected
    <2>2. Lesser(offered, page) = page
      <3> HIDE DEF offered
      <3> QED
        BY <1>0, <1>1, <1>7 DEF Lesser
    <2> QED
      BY <1>1, <1>12, <2>1, <2>2
  <1>15. ASSUME NEW c \in AllCells
         PROVE  /\ parameter'[c].hot_threshold <= NrWalks => parameter'[c].hot_threshold_max = NrWalks
                /\ HotSelected(parameter'[c], pmem'[c]) <= parameter'[c].nr_promote
                /\ in_adjust_ratio_stage' =>
                     HotSelected(parameter'[c], pmem'[c]) = parameter'[c].nr_promote
    <2>1. CASE c = cell
      <3>1. p.nr_promote \in Int
        BY DEF ParameterType
      <3> QED
        BY <1>0, <1>1, <1>2, <1>14, <2>1, <3>1
    <2>2. CASE c # cell
      BY <1>0, <1>2, <2>2 DEF HotBooks
    <2> QED
      BY <2>1, <2>2
  <1> HIDE DEF kb, room, n, offered, h
  <1> QED
    BY <1>6, <1>13, <1>15 DEF HotBooks

\* SkipHot passes a reference count without pages, or the limit is used up.
LEMMA SkipHotKeepsHotBooks ==
  ASSUME TypeOK, HotBooks, SkipHot
  PROVE  HotBooks'
  <1>0. /\ UNCHANGED <<input, parameter, promote_count_kb>>
        /\ promote_limit_kb' = promote_limit_kb /\ pmem' = pmem
        /\ in_adjust_ratio_stage' = in_adjust_ratio_stage
        /\ NrPromote' = NrPromote
        /\ hot_threshold \in Refs /\ NrWalks \in Nat /\ Refs = 0..NrWalks /\ cell \in AllCells
    BY OrderTypes DEF SkipHot, promote_limit_kb, pmem, in_adjust_ratio_stage, NrPromote
  <1>1. ASSUME promote_count_kb < promote_limit_kb, NEW c \in AllCells
        PROVE  parameter[c].nr_promote = Above(pmem[c], HotMark(c)')
    <2>1. parameter[c].nr_promote = Above(pmem[c], HotMark(c))
      BY <1>1 DEF HotBooks
    <2>2. CASE c = cell /\ hot_threshold > 0
      <3>1. pmem[c][hot_threshold] = 0
        BY <1>1, <2>2 DEF SkipHot, HotWanted
      <3>2. HotMark(c) = hot_threshold /\ HotMark(c)' = hot_threshold - 1
        BY <2>2, HotPartMarks
      <3>3. IsHistogram(pmem[c])
        BY Histories DEF AreHistograms
      <3>4. /\ Above(pmem[c], hot_threshold - 1) = Above(pmem[c], hot_threshold) + pmem[c][hot_threshold]
            /\ Above(pmem[c], hot_threshold) \in Nat
        <4>1. hot_threshold \in Int
          BY <1>0
        <4> QED
          BY <1>0, <3>3, <4>1, AboveBelow
      <3>5. Above(pmem[c], hot_threshold - 1) = Above(pmem[c], hot_threshold)
        BY <3>1, <3>4
      <3> QED
        BY <2>1, <3>2, <3>5
    <2>3. CASE ~(c = cell /\ hot_threshold > 0)
      <3>1. HotMark(c)' = HotMark(c)
        BY <2>3, HotPartMarks
      <3> QED
        BY <2>1, <3>1
    <2> QED
      BY <2>2, <2>3
  <1> QED
    BY <1>0, <1>1 DEF HotBooks

\* The hot part of a cell does not re-enable what anti_thrashing() disabled: while the ratio
\* is adjusted nothing is disabled, and else hot pages are taken in the first turn only,
\* before the cell has cold ones.
LEMMA HotStepColdBooks ==
  ASSUME TypeOK, ColdBooks, Ordered, Stage, SelectHot \/ SkipHot
  PROVE  ColdBooks'
  <1>0. /\ UNCHANGED <<input, demote_count_kb>>
        /\ demote_limit_kb' = demote_limit_kb /\ dram' = dram
        /\ in_adjust_ratio_stage' = in_adjust_ratio_stage
        /\ \A c \in AllCells : ColdMark(c)' = ColdMark(c)
        /\ cell \in AllCells
    BY OrderTypes, HotPartMarks DEF SelectHot, SkipHot, demote_limit_kb, dram, in_adjust_ratio_stage
  <1>1. /\ NrDemote' = NrDemote
        /\ \A c \in AllCells :
             /\ parameter'[c].nr_demote = parameter[c].nr_demote
             /\ parameter'[c].cold_threshold = parameter[c].cold_threshold
             /\ parameter'[c].cold_threshold_min = parameter[c].cold_threshold_min
             /\ parameter'[c].demote_remain = parameter[c].demote_remain
             /\ Disabled(parameter[c]) => Disabled(parameter'[c])
    <2>1. CASE SkipHot
      <3>1. parameter' = parameter
        BY <2>1 DEF SkipHot
      <3> QED
        BY <3>1 DEF NrDemote
    <2>2. CASE SelectHot
      <3>1. PICK p \in ParameterType, page \in Nat :
              /\ parameter' = [parameter EXCEPT ![cell] = p]
              /\ p.nr_demote = parameter[cell].nr_demote
              /\ p.cold_threshold = parameter[cell].cold_threshold
              /\ p.cold_threshold_min = parameter[cell].cold_threshold_min
              /\ p.demote_remain = parameter[cell].demote_remain
        BY <2>2, SelectHotBooks
      <3>2. /\ parameter'[cell] = p
            /\ \A c \in AllCells : c # cell => parameter'[c] = parameter[c]
        BY <3>1, OrderTypes
      <3>3. NrDemote' = NrDemote
        BY <3>1, <3>2 DEF NrDemote
      <3>4. ~Disabled(parameter[cell])
        <4>1. CASE in_adjust_ratio_stage
          BY <1>0, <4>1 DEF Ordered, ColdOrder, ColdTaken, Disabled
        <4>2. CASE ~in_adjust_ratio_stage
          <5>1. i = 0 /\ part = "hot"
            <6>1. promote_count_kb < promote_limit_kb /\ part = "hot"
              BY <2>2, SelectHotBooks
            <6>2. ~(i > 0)
              BY <4>2, <6>1, OrderTypes DEF Stage, HotFirst
            <6> QED
              BY <6>1, <6>2, OrderTypes
          <5>2. parameter[cell] = InitialParameter
            BY <1>0, <4>2, <5>1 DEF Stage, HotFirst
          <5> QED
            BY <5>2 DEF InitialParameter, Disabled
        <4> QED
          BY <4>1, <4>2
      <3> QED
        BY <3>1, <3>2, <3>3, <3>4
    <2> QED
      BY <2>1, <2>2
  <1>2. Charged(demote_count_kb', demote_limit_kb', NrDemote')
    BY <1>0, <1>1 DEF ColdBooks
  <1>3. \A c \in AllCells : ColdSelected(parameter'[c], dram'[c]) = ColdSelected(parameter[c], dram[c])
    BY <1>0, <1>1 DEF ColdSelected
  <1>4. ASSUME demote_count_kb' < demote_limit_kb', NEW c \in AllCells
        PROVE  Disabled(parameter'[c]) \/ parameter'[c].nr_demote = Below(dram'[c], ColdMark(c)')
    <2>1. Disabled(parameter[c]) \/ parameter[c].nr_demote = Below(dram[c], ColdMark(c))
      BY <1>0, <1>4 DEF ColdBooks
    <2> QED
      BY <1>0, <1>1, <2>1
  <1>5. \A c \in AllCells :
          /\ parameter'[c].cold_threshold >= 0 => parameter'[c].cold_threshold_min = 0
          /\ ColdSelected(parameter'[c], dram'[c]) <= parameter'[c].nr_demote
          /\ in_adjust_ratio_stage' => ColdSelected(parameter'[c], dram'[c]) = parameter'[c].nr_demote
    BY <1>0, <1>1, <1>3 DEF ColdBooks
  <1> QED
    BY <1>2, <1>4, <1>5 DEF ColdBooks

\* The cold part of a cell leaves nr_promote alone, and anti_thrashing() selects no more.
LEMMA ColdStepHotBooks ==
  ASSUME TypeOK, HotBooks, SelectCold \/ SkipCold
  PROVE  HotBooks'
  <1>0. /\ UNCHANGED <<input, promote_count_kb>> /\ part = "cold" /\ NextCell
        /\ promote_limit_kb' = promote_limit_kb /\ pmem' = pmem
        /\ in_adjust_ratio_stage' = in_adjust_ratio_stage /\ cell \in AllCells
    BY OrderTypes DEF SelectCold, SkipCold, promote_limit_kb, pmem, in_adjust_ratio_stage
  <1>1. \A c \in AllCells : HotMark(c)' = HotMark(c)
    BY <1>0, NextCellMarks
  <1>2. CASE SkipCold
    <2>1. parameter' = parameter
      BY <1>2 DEF SkipCold
    <2>2. NrPromote' = NrPromote
      BY <2>1 DEF NrPromote
    <2> QED
      BY <1>0, <1>1, <2>1, <2>2 DEF HotBooks
  <1>3. CASE SelectCold
    <2>1. PICK p \in ParameterType, page \in Nat :
              /\ parameter' = [parameter EXCEPT ![cell] =
                                 IF in_adjust_ratio_stage THEN p ELSE AntiThrashing(p)]
              /\ p.nr_promote = parameter[cell].nr_promote
              /\ p.hot_threshold = parameter[cell].hot_threshold
              /\ p.hot_threshold_max = parameter[cell].hot_threshold_max
              /\ p.promote_remain = parameter[cell].promote_remain
      BY <1>3, SelectColdBooks
    <2> DEFINE q == IF in_adjust_ratio_stage THEN p ELSE AntiThrashing(p)
               h == pmem[cell]
    <2>2. /\ parameter'[cell] = q
          /\ \A c \in AllCells : c # cell => parameter'[c] = parameter[c]
      BY <1>0, <2>1, OrderTypes
    <2>3. HotSelected(p, h) = HotSelected(parameter[cell], h)
      BY <2>1 DEF HotSelected
    <2>4. /\ q.nr_promote = parameter[cell].nr_promote
          /\ q.hot_threshold <= NrWalks => q.hot_threshold_max = NrWalks
          /\ HotSelected(q, h) <= q.nr_promote
          /\ in_adjust_ratio_stage => HotSelected(q, h) = q.nr_promote
      <3>1. /\ p.hot_threshold <= NrWalks => p.hot_threshold_max = NrWalks
            /\ HotSelected(p, h) <= p.nr_promote
            /\ in_adjust_ratio_stage => HotSelected(p, h) = p.nr_promote
        <4>1. /\ parameter[cell].hot_threshold <= NrWalks => parameter[cell].hot_threshold_max = NrWalks
              /\ HotSelected(parameter[cell], h) <= parameter[cell].nr_promote
              /\ in_adjust_ratio_stage => HotSelected(parameter[cell], h) = parameter[cell].nr_promote
          BY <1>0 DEF HotBooks
        <4> QED
          BY <2>1, <2>3, <4>1
      <3>2. CASE in_adjust_ratio_stage
        BY <2>1, <3>1, <3>2
      <3>3. CASE ~in_adjust_ratio_stage
        <4>1. q = AntiThrashing(p)
          BY <3>3
        <4>2. /\ q.nr_promote = p.nr_promote
              /\ HotSelected(q, h) <= HotSelected(p, h)
              /\ q.hot_threshold_max = p.hot_threshold_max
              /\ q.hot_threshold <= NrWalks => p.hot_threshold <= NrWalks
              /\ q \in ParameterType
          BY <4>1, AntiThrashingTakes, AntiThrashingType
        <4>3. HotSelected(q, h) \in Nat /\ HotSelected(p, h) \in Nat /\ p.nr_promote \in Nat
          <5>1. IsHistogram(h)
            BY <1>0, Histories DEF AreHistograms
          <5> HIDE DEF q, h
          <5> QED
            BY <4>2, <5>1, SelectedNat DEF ParameterType
        <4> HIDE DEF q, h
        <4> QED
          BY <2>1, <3>1, <3>3, <4>2, <4>3
      <3> QED
        BY <3>2, <3>3
    <2> HIDE DEF q
    <2>5. \A c \in AllCells : parameter'[c].nr_promote = parameter[c].nr_promote
      BY <2>2, <2>4
    <2>6. NrPromote' = NrPromote
      BY <2>5 DEF NrPromote
    <2>7. ASSUME NEW c \in AllCells
          PROVE  /\ parameter'[c].hot_threshold <= NrWalks => parameter'[c].hot_threshold_max = NrWalks
                 /\ HotSelected(parameter'[c], pmem'[c]) <= parameter'[c].nr_promote
                 /\ in_adjust_ratio_stage' =>
                      HotSelected(parameter'[c], pmem'[c]) = parameter'[c].nr_promote
      <3>1. CASE c = cell
        BY <1>0, <2>2, <2>4, <3>1
      <3>2. CASE c # cell
        BY <1>0, <2>2, <3>2 DEF HotBooks
      <3> QED
        BY <3>1, <3>2
    <2>8. ASSUME promote_count_kb' < promote_limit_kb', NEW c \in AllCells
          PROVE  parameter'[c].nr_promote = Above(pmem'[c], HotMark(c)')
      <3>1. parameter[c].nr_promote = Above(pmem[c], HotMark(c))
        BY <1>0, <2>8 DEF HotBooks
      <3> QED
        BY <1>0, <1>1, <2>5, <3>1
    <2>9. Charged(promote_count_kb', promote_limit_kb', NrPromote')
      BY <1>0, <2>6 DEF HotBooks
    <2> QED
      BY <2>7, <2>8, <2>9 DEF HotBooks
  <1> QED
    BY <1>2, <1>3

\* SkipCold passes a reference count without pages or a disabled cell, or the limit is used up.
LEMMA SkipColdKeepsColdBooks ==
  ASSUME TypeOK, ColdBooks, SkipCold
  PROVE  ColdBooks'
  <1>0. /\ UNCHANGED <<input, parameter, demote_count_kb>> /\ part = "cold" /\ NextCell
        /\ demote_limit_kb' = demote_limit_kb /\ dram' = dram
        /\ in_adjust_ratio_stage' = in_adjust_ratio_stage
        /\ NrDemote' = NrDemote
        /\ cold_threshold \in Refs /\ NrWalks \in Nat /\ Refs = 0..NrWalks /\ cell \in AllCells
    BY OrderTypes DEF SkipCold, demote_limit_kb, dram, in_adjust_ratio_stage, NrDemote
  <1>1. ASSUME demote_count_kb < demote_limit_kb, NEW c \in AllCells
        PROVE  Disabled(parameter[c]) \/ parameter[c].nr_demote = Below(dram[c], ColdMark(c)')
    <2>1. Disabled(parameter[c]) \/ parameter[c].nr_demote = Below(dram[c], ColdMark(c))
      BY <1>1 DEF ColdBooks
    <2>2. CASE c = cell /\ cold_threshold < NrWalks
      <3>1. dram[c][cold_threshold] = 0 \/ Disabled(parameter[c])
        BY <1>1, <2>2 DEF SkipCold, ColdWanted, ThrashDisabled, Disabled
      <3>2. ColdMark(c) = cold_threshold /\ ColdMark(c)' = cold_threshold + 1
        BY <1>0, <2>2, NextCellMarks
      <3>3. IsHistogram(dram[c])
        BY Histories DEF AreHistograms
      <3>4. /\ Below(dram[c], cold_threshold + 1) = Below(dram[c], cold_threshold) + dram[c][cold_threshold]
            /\ Below(dram[c], cold_threshold) \in Nat
        <4>1. cold_threshold \in Int
          BY <1>0
        <4> QED
          BY <1>0, <3>3, <4>1, AboveBelow
      <3>5. Disabled(parameter[c]) \/ Below(dram[c], cold_threshold + 1) = Below(dram[c], cold_threshold)
        BY <3>1, <3>4
      <3> QED
        BY <2>1, <3>2, <3>5
    <2>3. CASE ~(c = cell /\ cold_threshold < NrWalks)
      <3>1. ColdMark(c)' = ColdMark(c)
        BY <1>0, <2>3, NextCellMarks
      <3> QED
        BY <2>1, <3>1
    <2> QED
      BY <2>2, <2>3
  <1> QED
    BY <1>0, <1>1 DEF ColdBooks

\* SelectCold adds to nr_demote the pages at the threshold that it sets; anti_thrashing()
\* then selects no more.
LEMMA ColdStepColdBooks ==
  ASSUME TypeOK, ColdBooks, SelectCold
  PROVE  ColdBooks'
  <1> DEFINE n == cold_threshold
             offered == dram[cell][n]
             room == demote_limit_kb - demote_count_kb
             kb == Taken(offered, room)
             h == dram[cell]
  <1>0. /\ demote_count_kb < demote_limit_kb /\ n \in 0..(NrWalks - 1) /\ n \in Refs
        /\ demote_count_kb \in Nat /\ demote_limit_kb \in Nat /\ room \in Nat
        /\ offered \in Nat /\ cell \in AllCells /\ NrWalks \in Nat
        /\ demote_limit_kb' = demote_limit_kb /\ dram' = dram
        /\ in_adjust_ratio_stage' = in_adjust_ratio_stage
        /\ demote_count_kb' = demote_count_kb + kb
        /\ part = "cold" /\ NextCell /\ ~ThrashDisabled
    BY SelectColdBooks, OrderTypes DEF demote_limit_kb, dram, in_adjust_ratio_stage
  <1>1. PICK p \in ParameterType, page \in Nat :
              /\ parameter' = [parameter EXCEPT ![cell] =
                                 IF in_adjust_ratio_stage THEN p ELSE AntiThrashing(p)]
              /\ page = WholePages(kb)
              /\ p.nr_demote = parameter[cell].nr_demote + page
              /\ p.demote_remain = page
              /\ p.cold_threshold = n /\ p.cold_threshold_min = 0
    BY SelectColdBooks
  <1> DEFINE q == IF in_adjust_ratio_stage THEN p ELSE AntiThrashing(p)
  <1>2. /\ parameter'[cell] = q
        /\ \A c \in AllCells : c # cell => parameter'[c] = parameter[c]
    BY <1>0, <1>1, OrderTypes
  <1>a. q.nr_demote = p.nr_demote /\ q \in ParameterType
    BY AntiThrashingType
  <1> HIDE DEF q
  <1>3. /\ \A c \in AllCells : NrDemote[c] = parameter[c].nr_demote /\ NrDemote[c] \in Nat
        /\ \A c \in AllCells : NrDemote'[c] = parameter'[c].nr_demote
    BY OrderTypes DEF NrDemote, ParameterType
  <1>4. /\ \A c \in AllCells : c # cell => NrDemote'[c] = NrDemote[c]
        /\ NrDemote'[cell] = NrDemote[cell] + page
        /\ \A c \in AllCells : NrDemote'[c] \in Nat
    <2>1. NrDemote'[cell] = NrDemote[cell] + page
      BY <1>0, <1>1, <1>2, <1>3, <1>a
    <2>2. \A c \in AllCells : c # cell => NrDemote'[c] = NrDemote[c]
      BY <1>2, <1>3
    <2>3. NrDemote[cell] + page \in Nat
      BY <1>0, <1>3
    <2>4. \A c \in AllCells : NrDemote'[c] \in Nat
      BY <1>3, <2>1, <2>2, <2>3
    <2> QED
      BY <2>1, <2>2, <2>4
  <1>5. Charged(demote_count_kb, demote_limit_kb, NrDemote)
    BY DEF ColdBooks
  <1>6. Charged(demote_count_kb', demote_limit_kb', NrDemote')
    <2> DEFINE nr == NrDemote
               after == NrDemote'
    <2>1. /\ \A c \in AllCells : nr[c] \in Nat /\ after[c] \in Nat
          /\ \A c \in AllCells : c # cell => after[c] = nr[c]
          /\ after[cell] = nr[cell] + WholePages(Taken(offered, demote_limit_kb - demote_count_kb))
          /\ Charged(demote_count_kb, demote_limit_kb, nr)
      BY <1>1, <1>3, <1>4, <1>5
    <2> HIDE DEF nr, after, offered
    <2>2. Charged(demote_count_kb + Taken(offered, demote_limit_kb - demote_count_kb),
                  demote_limit_kb, after)
      BY <1>0, <2>1, ChargeMore
    <2> QED
      BY <1>0, <2>2 DEF after
  <1>7. page <= offered /\ (demote_count_kb' < demote_limit_kb => page = offered)
    <2> HIDE DEF offered, room
    <2>1. kb \in Nat
      BY <1>0, TakenPages
    <2>2. demote_count_kb' < demote_limit_kb => kb < room
      <3> HIDE DEF kb
      <3> QED
        BY <1>0, <2>1 DEF room
    <2> QED
      BY <1>0, <1>1, <2>2, TakenWithin
  <1>8. \A c \in AllCells : Disabled(parameter[c]) \/ parameter[c].nr_demote = Below(dram[c], ColdMark(c))
    BY <1>0 DEF ColdBooks
  <1>9. /\ \A c \in AllCells : c # cell => ColdMark(c)' = ColdMark(c)
        /\ ColdMark(cell) = n
        /\ \A c \in AllCells : c = cell => ColdMark(c)' = n + 1
    <2>1. \A c \in AllCells : c = cell => ColdMark(c) = n /\ ColdMark(c)' = n + 1
      BY <1>0, NextCellMarks
    <2> QED
      BY <1>0, <2>1, NextCellMarks
  <1>10. IsHistogram(h)
    BY <1>0, Histories DEF AreHistograms
  <1>11. /\ Below(h, n + 1) = Below(h, n) + offered /\ Below(h, n) \in Nat
    <2>1. n \in Int
      BY <1>0
    <2> QED
      BY <1>0, <1>10, <2>1, AboveBelow
  <1>12. parameter[cell].nr_demote = Below(h, n)
    <2>1. ~Disabled(parameter[cell])
      BY <1>0 DEF Disabled, ThrashDisabled
    <2> QED
      BY <1>0, <1>8, <1>9, <2>1
  <1>13. ASSUME demote_count_kb' < demote_limit_kb', NEW c \in AllCells
         PROVE  Disabled(parameter'[c]) \/ parameter'[c].nr_demote = Below(dram'[c], ColdMark(c)')
    <2>1. CASE c = cell
      <3>1. Below(dram'[c], ColdMark(c)') = Below(h, n + 1)
        BY <1>0, <1>9, <2>1
      <3>2. parameter'[c].nr_demote = Below(h, n) + page /\ page = offered
        BY <1>0, <1>1, <1>2, <1>7, <1>12, <1>13, <1>a, <2>1
      <3> QED
        BY <1>11, <3>1, <3>2
    <2>2. CASE c # cell
      BY <1>0, <1>2, <1>8, <1>9, <2>2
    <2> QED
      BY <2>1, <2>2
  <1>14. ColdSelected(p, h) = p.nr_demote
    <2>1. ColdSelected(p, h) = Below(h, n) + Lesser(offered, page)
      BY <1>0, <1>1 DEF ColdSelected
    <2>2. Lesser(offered, page) = page
      <3> HIDE DEF offered
      <3> QED
        BY <1>0, <1>1, <1>7 DEF Lesser
    <2> QED
      BY <1>1, <1>12, <2>1, <2>2
  <1>15. /\ q.cold_threshold >= 0 => q.cold_threshold_min = 0
         /\ ColdSelected(q, h) <= q.nr_demote
         /\ in_adjust_ratio_stage => ColdSelected(q, h) = q.nr_demote
    <2>0. p.nr_demote \in Nat
      BY DEF ParameterType
    <2>1. CASE in_adjust_ratio_stage
      BY <1>1, <1>14, <2>0, <2>1 DEF q
    <2>2. CASE ~in_adjust_ratio_stage
      <3>1. q = AntiThrashing(p)
        BY <2>2 DEF q
      <3>2. /\ ColdSelected(p, h) <= p.nr_demote => ColdSelected(q, h) <= p.nr_demote
            /\ q.cold_threshold_min = p.cold_threshold_min
        BY <3>1, AntiThrashingTakes
      <3>3. ColdSelected(p, h) <= p.nr_demote
        BY <1>14, <2>0
      <3> QED
        BY <1>1, <1>a, <2>2, <3>2, <3>3
    <2> QED
      BY <2>1, <2>2
  <1>16. ASSUME NEW c \in AllCells
         PROVE  /\ parameter'[c].cold_threshold >= 0 => parameter'[c].cold_threshold_min = 0
                /\ ColdSelected(parameter'[c], dram'[c]) <= parameter'[c].nr_demote
                /\ in_adjust_ratio_stage' =>
                     ColdSelected(parameter'[c], dram'[c]) = parameter'[c].nr_demote
    <2>1. CASE c = cell
      BY <1>0, <1>2, <1>15, <2>1
    <2>2. CASE c # cell
      BY <1>0, <1>2, <2>2 DEF ColdBooks
    <2> QED
      BY <2>1, <2>2
  <1> HIDE DEF kb, room, n, offered, h
  <1> QED
    BY <1>6, <1>13, <1>16 DEF ColdBooks

\* While the ratio is right, SelectHot takes the hottest pages of a cell in the first turn only.
LEMMA HotStepHotFirst ==
  ASSUME TypeOK, HotFirst, SelectHot \/ SkipHot
  PROVE  HotFirst'
  <1>0. /\ i' = i /\ cell' = cell /\ part = "hot" /\ part' = "cold" /\ input' = input
        /\ promote_limit_kb' = promote_limit_kb
    BY DEF SelectHot, SkipHot, promote_limit_kb
  <1>1. CASE SkipHot
    <2>1. UNCHANGED <<parameter, promote_count_kb>>
      BY <1>1 DEF SkipHot
    <2> QED
      BY <1>0, <2>1 DEF HotFirst
  <1>2. CASE SelectHot
    <2>1. i = 0
      <3>1. promote_count_kb < promote_limit_kb
        BY <1>2, SelectHotBooks
      <3> QED
        BY <3>1, OrderTypes DEF HotFirst
    <2>2. PICK p \in ParameterType :
            /\ parameter' = [parameter EXCEPT ![cell] = p]
            /\ p.hot_threshold = hot_threshold
            /\ p.cold_threshold = parameter[cell].cold_threshold
      BY <1>2, SelectHotBooks
    <2>3. /\ parameter'[cell] = p
          /\ \A c \in AllCells : c # cell => parameter'[c] = parameter[c]
      BY <2>2, OrderTypes
    <2>4. hot_threshold = NrWalks
      BY <2>1, Constants DEF hot_threshold
    <2>5. p.cold_threshold = -1
      <3>1. parameter[cell] = InitialParameter
        BY <1>0, <2>1, OrderTypes DEF HotFirst
      <3> QED
        BY <2>2, <3>1 DEF InitialParameter
    <2>6. ASSUME NEW c \in AllCells
          PROVE  /\ parameter'[c].hot_threshold >= NrWalks
                 /\ i' = 0 /\ (c > cell' \/ (c = cell' /\ part' = "hot")) =>
                      parameter'[c] = InitialParameter
                 /\ parameter'[c].enabled /\ parameter'[c].hot_threshold <= NrWalks
                      /\ parameter'[c].cold_threshold >= 0 => FarApart(parameter'[c])
      <3>1. CASE c = cell
        BY <1>0, <2>2, <2>3, <2>4, <2>5, <3>1, OrderTypes
      <3>2. CASE c # cell
        BY <1>0, <2>3, <3>2 DEF HotFirst
      <3> QED
        BY <3>1, <3>2
    <2>7. i' > 0 => promote_count_kb' >= promote_limit_kb'
      BY <1>0, <2>1
    <2> QED
      BY <2>6, <2>7 DEF HotFirst, FarApart
  <1> QED
    BY <1>1, <1>2

-----------------------------------------------------------------------------
(* The limits of calc_migrate_count().                                     *)

\* A share of a: a number of kilobytes multiplied by d and divided by p.
LEMMA ScaledDown ==
  ASSUME NEW a \in Nat, NEW d \in Nat, NEW p \in Nat \ {0}
  PROVE  /\ (a * d) \div p \in Nat
         /\ d <= p => (a * d) \div p <= a
         /\ p <= d => a <= (a * d) \div p
  <1>1. a * d \in Nat
    OBVIOUS
  <1>2. \A x \in Nat : x \div p \in Nat /\ (x \div p) * p <= x /\ x < (x \div p) * p + p
    OBVIOUS
  <1> DEFINE q == (a * d) \div p
  <1>3. q \in Nat /\ q * p <= a * d /\ a * d < q * p + p
    BY <1>1, <1>2
  <1> HIDE DEF q
  <1>4. ASSUME NEW x \in Nat, NEW y \in Nat, NEW z \in Nat, x <= y PROVE x * z <= y * z
    <2>1. (y - x) * z >= 0 /\ (y - x) * z = y * z - x * z
      BY <1>4
    <2>2. x * z \in Int /\ y * z \in Int
      OBVIOUS
    <2> QED
      BY <2>1, <2>2
  <1>5. ASSUME d <= p PROVE q <= a
    <2> SUFFICES ASSUME q >= a + 1 PROVE FALSE
      BY <1>3
    <2>1. (a + 1) * p <= q * p
      BY <1>3, <1>4
    <2>2. d * a <= p * a
      BY <1>4, <1>5
    <2>3. (a + 1) * p = p * a + p /\ a * d = d * a
      OBVIOUS
    <2>4. p * a \in Int /\ d * a \in Int /\ q * p \in Int
      BY <1>3
    <2> QED
      BY <1>3, <2>1, <2>2, <2>3, <2>4
  <1>6. ASSUME p <= d PROVE a <= q
    <2> SUFFICES ASSUME q + 1 <= a PROVE FALSE
      BY <1>3
    <2>1. (q + 1) * p <= a * p
      BY <1>3, <1>4
    <2>2. p * a <= d * a
      BY <1>4, <1>6
    <2>3. (q + 1) * p = q * p + p /\ a * d = d * a /\ a * p = p * a
      BY <1>3
    <2>4. p * a \in Int /\ d * a \in Int /\ q * p \in Int
      BY <1>3
    <2> QED
      BY <1>3, <2>1, <2>2, <2>3, <2>4
  <1> QED
    BY <1>3, <1>5, <1>6 DEF q

\* What is scaled and cut off is not more when it is scaled back.
LEMMA ScaledBack ==
  ASSUME NEW a \in Nat, NEW d \in Nat \ {0}, NEW p \in Nat \ {0}, NEW l \in Nat,
         l <= (a * d) \div p
  PROVE  (l * p) \div d <= a
  <1> DEFINE q == (a * d) \div p
             r == (l * p) \div d
  <1>0. a * d \in Nat /\ l * p \in Nat
    OBVIOUS
  <1>1. \A x \in Nat, y \in Nat \ {0} : x \div y \in Nat /\ (x \div y) * y <= x
    OBVIOUS
  <1>2. q \in Nat /\ q * p <= a * d /\ r \in Nat /\ r * d <= l * p /\ l <= q
    BY <1>0, <1>1
  <1> HIDE DEF q, r
  <1>3. ASSUME NEW x \in Nat, NEW y \in Nat, NEW z \in Nat, x <= y PROVE x * z <= y * z
    <2>1. (y - x) * z >= 0 /\ (y - x) * z = y * z - x * z
      BY <1>3
    <2>2. x * z \in Int /\ y * z \in Int
      OBVIOUS
    <2> QED
      BY <2>1, <2>2
  <1>4. l * p <= q * p
    BY <1>2, <1>3
  <1>5. r * d <= a * d
    <2>1. r * d \in Int /\ l * p \in Int /\ q * p \in Int /\ a * d \in Int
      BY <1>2
    <2> QED
      BY <1>2, <1>4, <2>1
  <1>6. r <= a
    <2> SUFFICES ASSUME a + 1 <= r PROVE FALSE
      BY <1>2
    <2>1. (a + 1) * d <= r * d
      BY <1>2, <1>3
    <2>2. (a + 1) * d = a * d + d
      OBVIOUS
    <2>3. r * d \in Int /\ a * d \in Int
      BY <1>2
    <2> QED
      BY <1>5, <2>1, <2>2, <2>3
  <1> QED
    BY <1>6 DEF r

\* Both shares of a limit of 16 KB or more are positive, and the larger one leads to the
\* target.
LEMMA SharesSplit ==
  ASSUME NEW limit \in Nat, limit >= 16, NEW pmem_kb \in Nat, NEW dram_kb \in Nat,
         NEW target \in Int, NEW percent, NEW size, size.dram_kb = dram_kb,
         TargetKb(size, percent) = target
  PROVE  LET shares == Shares(limit, size, percent) IN
         /\ shares.promote \in Nat \ {0} /\ shares.demote \in Nat \ {0}
         /\ percent # 0 /\ dram_kb < target => shares.demote < shares.promote
         /\ percent # 0 /\ dram_kb > target => shares.promote < shares.demote
  <1> DEFINE most == limit - limit \div 8
             delta == IF percent = 0 THEN 0
                      ELSE Greater(-most, Lesser(target - dram_kb, most))
  <1>1. most \in Nat /\ most <= limit - 2 /\ most >= 1
    OBVIOUS
  <1>2. Shares(limit, size, percent) = [promote |-> (limit + delta) \div 2,
                                        demote |-> (limit - delta) \div 2]
    BY DEF Shares
  <1> HIDE DEF most
  <1>3. /\ delta \in Int /\ delta <= most /\ -most <= delta
        /\ percent # 0 /\ dram_kb < target => delta >= 1
        /\ percent # 0 /\ dram_kb > target => delta <= -1
    BY <1>1 DEF Lesser, Greater
  <1> HIDE DEF delta
  <1>4. /\ (limit + delta) \div 2 \in Nat \ {0} /\ (limit - delta) \div 2 \in Nat \ {0}
        /\ delta >= 1 => (limit - delta) \div 2 < (limit + delta) \div 2
        /\ delta <= -1 => (limit + delta) \div 2 < (limit - delta) \div 2
    BY <1>1, <1>3
  <1> QED
    BY <1>2, <1>3, <1>4

\* The two limits that calc_migrate_count() leaves of the shares p and d, when there are
\* hot and cold KB of pages to move.
CutDown(hot, cold, p, d, unbalanced) ==
  LET need_more_cold == d > p
      page_kb == (hot * d) \div p
      demote_limit == Lesser(cold, page_kb)
      limits(x, y) == [promote |-> x, demote |-> y]
  IN  CASE cold > 0 /\ hot > 0 ->
             limits(IF need_more_cold /\ page_kb > cold
                      THEN (demote_limit * p) \div d ELSE hot,
                    demote_limit)
        [] cold = 0 /\ hot > 0 ->
             limits(IF unbalanced /\ ~need_more_cold THEN hot ELSE 0, 0)
        [] cold > 0 /\ hot = 0 ->
             limits(0, IF unbalanced /\ need_more_cold THEN cold ELSE 0)
        [] OTHER -> limits(0, 0)

\* Neither limit exceeds what there is, and the larger share gets the larger limit.
LEMMA CutDownBounds ==
  ASSUME NEW hot \in Nat, NEW cold \in Nat, NEW p \in Nat \ {0}, NEW d \in Nat \ {0},
         NEW unbalanced \in BOOLEAN
  PROVE  LET limits == CutDown(hot, cold, p, d, unbalanced) IN
         /\ limits.promote \in Nat /\ limits.demote \in Nat
         /\ limits.promote <= hot /\ limits.demote <= cold
         /\ d < p => limits.demote <= limits.promote
         /\ p < d => limits.promote <= limits.demote
  <1> DEFINE page_kb == (hot * d) \div p
             demote_limit == Lesser(cold, page_kb)
             back == (demote_limit * p) \div d
  <1>1. /\ page_kb \in Nat
        /\ d <= p => page_kb <= hot
        /\ p <= d => hot <= page_kb
    BY ScaledDown
  <1>2. CASE cold > 0 /\ hot > 0
    <2>1. CutDown(hot, cold, p, d, unbalanced) =
            [promote |-> IF d > p /\ page_kb > cold THEN back ELSE hot, demote |-> demote_limit]
      BY <1>2 DEF CutDown
    <2> HIDE DEF page_kb
    <2>2. demote_limit \in Nat /\ demote_limit <= cold /\ demote_limit <= page_kb
          /\ demote_limit \in {cold, page_kb}
      BY <1>1 DEF Lesser
    <2>3. ~(page_kb > cold) => demote_limit = page_kb
      BY <1>1 DEF Lesser
    <2> HIDE DEF demote_limit
    <2>4. /\ back \in Nat
          /\ p <= d => back <= demote_limit
      BY <2>2, ScaledDown
    <2>5. back <= hot
      BY <2>2, ScaledBack DEF page_kb
    <2> HIDE DEF back
    <2> QED
      BY <1>1, <2>1, <2>2, <2>3, <2>4, <2>5
  <1>3. CASE cold = 0 /\ hot > 0
    <2>1. CutDown(hot, cold, p, d, unbalanced) =
            [promote |-> IF unbalanced /\ ~(d > p) THEN hot ELSE 0, demote |-> 0]
      BY <1>3 DEF CutDown
    <2> QED
      BY <1>3, <2>1
  <1>4. CASE cold > 0 /\ hot = 0
    <2>1. CutDown(hot, cold, p, d, unbalanced) =
            [promote |-> 0, demote |-> IF unbalanced /\ d > p THEN cold ELSE 0]
      BY <1>4 DEF CutDown
    <2> QED
      BY <1>4, <2>1
  <1>5. CASE cold = 0 /\ hot = 0
    <2>1. CutDown(hot, cold, p, d, unbalanced) = [promote |-> 0, demote |-> 0]
      BY <1>5 DEF CutDown
    <2> QED
      BY <1>5, <2>1
  <1> QED
    BY <1>2, <1>3, <1>4, <1>5

\* A sum of kilobytes is a number.
LEMMA KbOfNat ==
  ASSUME NEW hist, NEW C, NEW N, AreHistograms(hist)
  PROVE  KbOf(hist, C, N) \in Nat
  <1>0. Cells \in Nat /\ AllCells = 1..Cells
    BY Constants DEF AllCells
  <1>1. \A c \in 1..Cells : CellKbs(hist, C, N)[c] \in Nat
    <2> SUFFICES ASSUME NEW c \in 1..Cells PROVE CellKbs(hist, C, N)[c] \in Nat
      OBVIOUS
    <2>1. PagesIn(hist[c], N) \in Nat /\ CellKb(c) \in Nat
      BY <1>0, Constants, PagesInNat DEF AreHistograms
    <2>2. \A a, b \in Nat : a * b \in Nat
      OBVIOUS
    <2> QED
      BY <2>1, <2>2 DEF CellKbs
  <1>2. SumTo(CellKbs(hist, C, N), Cells) \in Nat
    BY <1>0, <1>1, SumParts
  <1> QED
    BY <1>2, KbOfCells

\* More reference counts, more kilobytes.
LEMMA KbOfMore ==
  ASSUME NEW hist, NEW N, NEW M, AreHistograms(hist), \A n \in Refs : n \in N => n \in M
  PROVE  KbOf(hist, AllCells, N) <= KbOf(hist, AllCells, M)
  <1> DEFINE fewer == [c \in AllCells |-> PagesIn(hist[c], N)]
             pages == [c \in AllCells |-> PagesIn(hist[c], M)]
  <1>1. \A c \in AllCells : fewer[c] \in Nat /\ pages[c] \in Nat /\ fewer[c] <= pages[c]
    BY PagesInMore, PagesInNat DEF AreHistograms
  <1>2. KbOf(hist, AllCells, N) = KbSum(fewer) /\ KbOf(hist, AllCells, M) = KbSum(pages)
    BY KbOfAll
  <1> HIDE DEF fewer, pages
  <1> QED
    BY <1>1, <1>2, KbSumLess

\* The cells of the two page types are all there are.
LEMMA KbOfTypes ==
  ASSUME NEW hist, NEW N, AreHistograms(hist)
  PROVE  KbOf(hist, {c \in AllCells : TypeOf(c) = 1}, N) + KbOf(hist, {c \in AllCells : TypeOf(c) = 2}, N)
           = KbOf(hist, AllCells, N)
  <1> DEFINE small == {c \in AllCells : TypeOf(c) = 1}
             large == {c \in AllCells : TypeOf(c) = 2}
             u == CellKbs(hist, AllCells, N)
             v == CellKbs(hist, small, N)
             w == CellKbs(hist, large, N)
  <1>0. Cells \in Nat /\ AllCells = 1..Cells
    BY Constants DEF AllCells
  <1>1. \A c \in 1..Cells : v[c] \in Int /\ w[c] \in Int /\ u[c] = v[c] + w[c]
    <2> SUFFICES ASSUME NEW c \in 1..Cells
                 PROVE  v[c] \in Int /\ w[c] \in Int /\ u[c] = v[c] + w[c]
      OBVIOUS
    <2>1. PagesIn(hist[c], N) \in Nat /\ CellKb(c) \in Nat
      BY <1>0, Constants, PagesInNat DEF AreHistograms
    <2>2. \A a, b \in Nat : a * b \in Nat
      OBVIOUS
    <2> DEFINE kb == PagesIn(hist[c], N) * CellKb(c)
    <2>3. kb \in Nat
      BY <2>1, <2>2
    <2>4. /\ u[c] = kb
          /\ v[c] = IF TypeOf(c) = 1 THEN kb ELSE 0
          /\ w[c] = IF TypeOf(c) = 2 THEN kb ELSE 0
      BY <1>0 DEF CellKbs
    <2>5. TypeOf(c) \in {1, 2}
      BY DEF TypeOf
    <2> HIDE DEF kb, u, v, w
    <2> QED
      BY <2>3, <2>4, <2>5
  <1>2. /\ KbOf(hist, AllCells, N) = SumTo(u, Cells)
        /\ KbOf(hist, small, N) = SumTo(v, Cells)
        /\ KbOf(hist, large, N) = SumTo(w, Cells)
    BY KbOfCells
  <1> HIDE DEF u, v, w, small, large
  <1>3. SumTo(u, Cells) = SumTo(v, Cells) + SumTo(w, Cells)
    BY <1>0, <1>1, SumPlus
  <1>4. SumTo(v, Cells) \in Int /\ SumTo(w, Cells) \in Int
    BY <1>0, <1>1, SumType
  <1>5. KbOf(hist, small, N) + KbOf(hist, large, N) = KbOf(hist, AllCells, N)
    BY <1>2, <1>3
  <1> QED
    BY <1>5 DEF small, large

\* calc_migrate_count() for the histograms P of PMEM and D of DRAM: no limit exceeds what
\* the loop can find, and the limits lead to the target.  While the ratio is right the
\* hottest pages alone reach the limit.
LEMMA LimitsBound ==
  ASSUME NEW P \in Histograms, NEW D \in Histograms, NEW percent \in 0..100
  PROVE  LET size == MemorySize(P, D)
             limits == MigrateLimits(P, D, percent)
         IN  /\ limits.promote <= KbOf(P, AllCells, Refs \ {0})
             /\ limits.demote <= KbOf(D, AllCells, Refs \ {NrWalks})
             /\ ~AdjustsRatio(size, percent) => limits.promote <= KbOf(P, AllCells, {NrWalks})
             /\ percent # 0 /\ size.dram_kb < TargetKb(size, percent) => limits.demote <= limits.promote
             /\ percent # 0 /\ size.dram_kb > TargetKb(size, percent) => limits.promote <= limits.demote
  <1> DEFINE size == MemorySize(P, D)
             unbalanced == IsUnbalanced(size, percent)
             gap == size.pmem_kb - (size.mem_kb * (100 - percent)) \div 100
             too_many_aep == unbalanced /\ gap > 0
             limit == IF too_many_aep THEN Greater(PeriodKb, gap \div 8) ELSE PeriodKb
             promote_kb == Shares(limit, size, percent).promote
             demote_kb == Shares(limit, size, percent).demote
             hottest(t) == Lesser(KbOf(P, {c \in AllCells : TypeOf(c) = t}, {NrWalks}), promote_kb)
             avail_hot == IF too_many_aep
                            THEN Lesser(KbOf(P, AllCells, Refs \ {0}), promote_kb)
                            ELSE hottest(1) + hottest(2)
             avail_cold == Lesser(KbOf(D, AllCells, Refs \ {NrWalks}), demote_kb)
             pmem_kb == KbOf(P, AllCells, Refs)
             dram_kb == KbOf(D, AllCells, Refs)
             mem_kb == pmem_kb + dram_kb
             target == TargetKb(size, percent)
             L == MigrateLimits(P, D, percent)
  <1>1. L = CutDown(avail_hot, avail_cold, promote_kb, demote_kb, unbalanced)
    BY DEF MigrateLimits, CutDown
  <1>2. AreHistograms(P) /\ AreHistograms(D)
    BY DEF Histograms, AreHistograms, IsHistogram
  <1>3. pmem_kb \in Nat /\ dram_kb \in Nat /\ mem_kb \in Nat
    <2>1. pmem_kb \in Nat /\ dram_kb \in Nat
      BY <1>2, KbOfNat
    <2> HIDE DEF pmem_kb, dram_kb
    <2> QED
      BY <2>1
  <1>4. /\ size.pmem_kb = pmem_kb /\ size.dram_kb = dram_kb /\ size.mem_kb = mem_kb
        /\ size.ratio = IF mem_kb = 0 THEN 0 ELSE (100 * dram_kb) \div mem_kb
    BY DEF MemorySize
  <1> HIDE DEF size, pmem_kb, dram_kb, mem_kb
  <1>5. target \in Int
    BY <1>3, <1>4 DEF TargetKb
  <1>6. gap \in Int /\ unbalanced \in BOOLEAN
    <2>1. (size.mem_kb * (100 - percent)) \div 100 \in Int
      BY <1>3, <1>4
    <2> QED
      BY <1>3, <1>4, <2>1 DEF IsUnbalanced
  <1>7. limit \in Nat /\ limit >= 16
    <2> HIDE DEF gap, unbalanced
    <2>1. gap \div 8 \in Int /\ PeriodKb \in Nat /\ PeriodKb >= 16
      BY <1>6, MigrateCountAssumption
    <2> QED
      BY <2>1 DEF Greater
  <1>8. ~AdjustsRatio(size, percent) => ~too_many_aep
    <2> SUFFICES ASSUME ~AdjustsRatio(size, percent), too_many_aep PROVE FALSE
      OBVIOUS
    <2>1. percent # 0
      BY DEF IsUnbalanced
    <2>2. size.ratio = percent
      BY <2>1 DEF AdjustsRatio
    <2>3. mem_kb # 0
      BY <1>4, <2>1, <2>2
    <2>4. mem_kb * percent <= 100 * dram_kb
      <3>1. \A a \in Nat, b \in Nat \ {0} : (a \div b) * b <= a
        OBVIOUS
      <3>2. percent = (100 * dram_kb) \div mem_kb /\ 100 * dram_kb \in Nat
        BY <1>3, <1>4, <2>2, <2>3
      <3>3. percent * mem_kb <= 100 * dram_kb
        BY <1>3, <2>3, <3>1, <3>2
      <3>4. percent * mem_kb = mem_kb * percent
        BY <1>3
      <3> QED
        BY <3>3, <3>4
    <2>5. mem_kb * (100 - percent) >= 100 * pmem_kb
      <3>1. mem_kb * (100 - percent) = 100 * mem_kb - mem_kb * percent /\ mem_kb * percent \in Int
        BY <1>3
      <3>2. mem_kb = pmem_kb + dram_kb
        BY DEF mem_kb
      <3> QED
        BY <1>3, <2>4, <3>1, <3>2
    <2>6. (mem_kb * (100 - percent)) \div 100 >= pmem_kb
      <3> DEFINE m == mem_kb * (100 - percent)
      <3>1. m \in Int
        BY <1>3
      <3> HIDE DEF m
      <3>2. m >= 100 * pmem_kb
        BY <2>5 DEF m
      <3>3. m \div 100 >= pmem_kb
        BY <1>3, <3>1, <3>2
      <3> QED
        BY <3>3 DEF m
    <2>7. gap <= 0
      <3> DEFINE k == (mem_kb * (100 - percent)) \div 100
      <3>1. k \in Int
        BY <1>3
      <3> HIDE DEF k
      <3>2. gap = pmem_kb - k
        BY <1>4 DEF k
      <3>3. k >= pmem_kb
        BY <2>6 DEF k
      <3> QED
        BY <1>3, <3>1, <3>2, <3>3
    <2> HIDE DEF gap
    <2> QED
      BY <1>6, <2>7
  <1> HIDE DEF gap, unbalanced, limit
  <1>9. /\ promote_kb \in Nat \ {0} /\ demote_kb \in Nat \ {0}
        /\ percent # 0 /\ dram_kb < target => demote_kb < promote_kb
        /\ percent # 0 /\ dram_kb > target => promote_kb < demote_kb
    BY <1>3, <1>4, <1>5, <1>7, SharesSplit
  <1> HIDE DEF promote_kb, demote_kb, target
  <1> DEFINE warm == KbOf(P, AllCells, Refs \ {0})
             top == KbOf(P, AllCells, {NrWalks})
             top1 == KbOf(P, {c \in AllCells : TypeOf(c) = 1}, {NrWalks})
             top2 == KbOf(P, {c \in AllCells : TypeOf(c) = 2}, {NrWalks})
             cold == KbOf(D, AllCells, Refs \ {NrWalks})
  <1>10. /\ warm \in Nat /\ top1 \in Nat /\ top2 \in Nat /\ cold \in Nat
         /\ top = top1 + top2 /\ top <= warm
    <2>1. \A n \in Refs : n \in {NrWalks} => n \in Refs \ {0}
      BY Constants
    <2>2. top <= warm
      BY <1>2, <2>1, KbOfMore
    <2> QED
      BY <1>2, <2>2, KbOfNat, KbOfTypes
  <1>11. /\ avail_hot = IF too_many_aep THEN Lesser(warm, promote_kb)
                        ELSE Lesser(top1, promote_kb) + Lesser(top2, promote_kb)
         /\ avail_cold = Lesser(cold, demote_kb)
    OBVIOUS
  <1> HIDE DEF warm, top, top1, top2, cold, too_many_aep, avail_hot, avail_cold
  <1>12. /\ avail_hot \in Nat /\ avail_hot <= warm /\ (~too_many_aep => avail_hot <= top)
         /\ avail_cold \in Nat /\ avail_cold <= cold
    BY <1>9, <1>10, <1>11 DEF Lesser
  <1>13. /\ L.promote \in Nat /\ L.demote \in Nat
         /\ L.promote <= avail_hot /\ L.demote <= avail_cold
         /\ demote_kb < promote_kb => L.demote <= L.promote
         /\ promote_kb < demote_kb => L.promote <= L.demote
    BY <1>1, <1>6, <1>9, <1>12, CutDownBounds
  <1> HIDE DEF L
  <1>14. /\ L.promote <= warm /\ L.demote <= cold
         /\ ~too_many_aep => L.promote <= top
    BY <1>10, <1>12, <1>13
  <1>15. ~AdjustsRatio(size, percent) => L.promote <= top
    BY <1>8, <1>14
  <1>16. /\ percent # 0 /\ size.dram_kb < target => L.demote <= L.promote
         /\ percent # 0 /\ size.dram_kb > target => L.promote <= L.demote
    BY <1>4, <1>9, <1>13
  <1> QED
    BY <1>14, <1>15, <1>16, Zenon DEF L, target, warm, top, cold, size

\* The same of the limits that the loop works with.
LEMMA InputLimits ==
  ASSUME TypeOK, Stage
  PROVE  LET size == MemorySize(pmem, dram)
             target == TargetKb(size, input.dram_percent)
         IN  /\ promote_limit_kb <= KbOf(pmem, AllCells, Refs \ {0})
             /\ demote_limit_kb <= KbOf(dram, AllCells, Refs \ {NrWalks})
             /\ ~in_adjust_ratio_stage => promote_limit_kb <= KbOf(pmem, AllCells, {NrWalks})
             /\ in_adjust_ratio_stage /\ size.dram_kb < target => demote_limit_kb <= promote_limit_kb
             /\ in_adjust_ratio_stage /\ size.dram_kb > target => promote_limit_kb <= demote_limit_kb
  <1> DEFINE P == input.pmem
             D == input.dram
             percent == input.dram_percent
             L == MigrateLimits(P, D, percent)
             size == MemorySize(P, D)
  <1>1. P \in Histograms /\ D \in Histograms /\ percent \in 0..100
    BY DEF TypeOK, InputType
  <1>2. input = InputOf(P, D, percent)
    BY MigrateParamAssumption DEF Stage
  <1> HIDE DEF P, D, percent
  <1>3. /\ input.adjusting = AdjustsRatio(size, percent)
        /\ input.promote_limit_kb = L.promote /\ input.demote_limit_kb = L.demote
    BY <1>2 DEF InputOf
  <1>4. in_adjust_ratio_stage => percent # 0
    BY <1>3 DEF in_adjust_ratio_stage, AdjustsRatio
  <1>5. /\ L.promote <= KbOf(P, AllCells, Refs \ {0})
        /\ L.demote <= KbOf(D, AllCells, Refs \ {NrWalks})
        /\ ~AdjustsRatio(size, percent) => L.promote <= KbOf(P, AllCells, {NrWalks})
        /\ percent # 0 /\ size.dram_kb < TargetKb(size, percent) => L.demote <= L.promote
        /\ percent # 0 /\ size.dram_kb > TargetKb(size, percent) => L.promote <= L.demote
    BY <1>1, LimitsBound
  <1> HIDE DEF L, size
  <1>6. /\ promote_limit_kb <= KbOf(P, AllCells, Refs \ {0})
        /\ demote_limit_kb <= KbOf(D, AllCells, Refs \ {NrWalks})
        /\ ~in_adjust_ratio_stage => promote_limit_kb <= KbOf(P, AllCells, {NrWalks})
        /\ in_adjust_ratio_stage /\ size.dram_kb < TargetKb(size, percent) =>
             demote_limit_kb <= promote_limit_kb
        /\ in_adjust_ratio_stage /\ size.dram_kb > TargetKb(size, percent) =>
             promote_limit_kb <= demote_limit_kb
    BY <1>3, <1>4, <1>5 DEF promote_limit_kb, demote_limit_kb, in_adjust_ratio_stage
  <1> QED
    BY <1>6 DEF P, D, percent, size, pmem, dram

\* A limit with room left after the turns down to n references: all hot pages were taken.
LEMMA AllHotTaken ==
  ASSUME TypeOK, HotBooks, NEW n \in 1..NrWalks, promote_count_kb < promote_limit_kb,
         \A c \in AllCells : HotMark(c) = n - 1
  PROVE  promote_count_kb = KbOf(pmem, AllCells, n..NrWalks)
  <1> DEFINE pages == [c \in AllCells |-> PagesIn(pmem[c], n..NrWalks)]
  <1>0. AreHistograms(pmem)
    BY Histories
  <1>1. \A c \in AllCells : NrPromote[c] = pages[c]
    <2> SUFFICES ASSUME NEW c \in AllCells PROVE NrPromote[c] = pages[c]
      OBVIOUS
    <2>1. parameter[c].nr_promote = Above(pmem[c], HotMark(c))
      BY DEF HotBooks
    <2>2. HotMark(c) = n - 1 /\ (n - 1) + 1 = n
      OBVIOUS
    <2>3. Above(pmem[c], n - 1) = PagesIn(pmem[c], n..NrWalks)
      BY <2>2 DEF Above
    <2> QED
      BY <2>1, <2>2, <2>3 DEF NrPromote
  <1>2. NrPromote = pages
    BY <1>1 DEF NrPromote
  <1>3. KbOf(pmem, AllCells, n..NrWalks) = KbSum(pages)
    BY <1>0, KbOfAll
  <1>4. promote_count_kb = KbSum(NrPromote)
    BY DEF HotBooks, Charged
  <1> HIDE DEF pages
  <1> QED
    BY <1>2, <1>3, <1>4

\* A limit with room left after the last turn: all cold pages were taken.
LEMMA AllColdTaken ==
  ASSUME TypeOK, ColdBooks, demote_count_kb < demote_limit_kb,
         \A c \in AllCells : ColdMark(c) = NrWalks /\ ~Disabled(parameter[c])
  PROVE  demote_count_kb = KbOf(dram, AllCells, 0..(NrWalks - 1))
  <1> DEFINE pages == [c \in AllCells |-> PagesIn(dram[c], 0..(NrWalks - 1))]
  <1>0. AreHistograms(dram)
    BY Histories
  <1>1. \A c \in AllCells : NrDemote[c] = pages[c]
    BY DEF ColdBooks, Below, NrDemote
  <1>2. NrDemote = pages
    BY <1>1 DEF NrDemote
  <1>3. KbOf(dram, AllCells, 0..(NrWalks - 1)) = KbSum(pages)
    BY <1>0, KbOfAll
  <1>4. demote_count_kb = KbSum(NrDemote)
    BY DEF ColdBooks, Charged
  <1> HIDE DEF pages
  <1> QED
    BY <1>2, <1>3, <1>4

\* After the first turn the hot limit is used up: calc_migrate_count() cut it down to the
\* hottest pages, and the turn took those.
LEMMA ColdStepHotFirst ==
  ASSUME TypeOK, HotBooks, Stage, ~in_adjust_ratio_stage, SelectCold \/ SkipCold
  PROVE  HotFirst'
  <1>0. /\ UNCHANGED <<input, promote_count_kb>> /\ part = "cold" /\ NextCell
        /\ promote_limit_kb' = promote_limit_kb /\ cell \in AllCells
        /\ cell \in 1..Cells /\ i \in 0..NrWalks /\ Cells \in Nat /\ NrWalks \in Nat \ {0}
        /\ AllCells = 1..Cells /\ \A c \in AllCells : c \in Int
        /\ promote_limit_kb \in Nat /\ promote_count_kb \in Nat
    BY OrderTypes, Constants DEF SelectCold, SkipCold, promote_limit_kb
  <1>1. HotFirst
    BY DEF Stage
  <1>2. \/ cell < Cells /\ i' = i /\ cell' = cell + 1
        \/ cell = Cells /\ i < NrWalks /\ i' = i + 1 /\ cell' = 1
        \/ cell = Cells /\ i = NrWalks /\ i' = i /\ cell' = 1
    BY <1>0 DEF NextCell
  <1>3. ASSUME i' > 0 PROVE promote_count_kb >= promote_limit_kb
    <2>1. CASE i > 0
      BY <1>1, <2>1 DEF HotFirst
    <2>2. CASE ~(i > 0)
      <3>1. i = 0 /\ cell = Cells
        BY <1>0, <1>2, <1>3, <2>2
      <3>2. \A c \in AllCells : HotMark(c) = NrWalks - 1
        BY <1>0, <3>1 DEF HotMark, hot_threshold
      <3>3. ASSUME promote_count_kb < promote_limit_kb PROVE FALSE
        <4>1. NrWalks \in 1..NrWalks
          BY <1>0
        <4>2. promote_count_kb = KbOf(pmem, AllCells, NrWalks..NrWalks)
          BY <3>2, <3>3, <4>1, AllHotTaken
        <4>3. NrWalks..NrWalks = {NrWalks}
          BY <1>0
        <4>4. promote_limit_kb <= KbOf(pmem, AllCells, {NrWalks})
          BY InputLimits
        <4> QED
          BY <1>0, <3>3, <4>2, <4>3, <4>4
      <3> QED
        BY <1>0, <3>3
    <2> QED
      BY <2>1, <2>2
  <1>4. ASSUME NEW c \in AllCells, i' = 0, c > cell' \/ (c = cell' /\ part' = "hot")
        PROVE  parameter[c] = InitialParameter /\ c # cell
    <2>1. i = 0 /\ c > cell
      BY <1>0, <1>2, <1>4
    <2> QED
      BY <1>0, <1>1, <2>1 DEF HotFirst
  <1>5. CASE SkipCold
    <2>1. parameter' = parameter
      BY <1>5 DEF SkipCold
    <2> QED
      BY <1>0, <1>1, <1>3, <1>4, <2>1 DEF HotFirst, FarApart
  <1>6. CASE SelectCold
    <2>1. PICK p \in ParameterType :
              /\ parameter' = [parameter EXCEPT ![cell] =
                                 IF in_adjust_ratio_stage THEN p ELSE AntiThrashing(p)]
              /\ p.cold_threshold = cold_threshold
              /\ p.hot_threshold = parameter[cell].hot_threshold
      BY <1>6, SelectColdBooks
    <2> DEFINE q == AntiThrashing(p)
    <2>2. /\ parameter'[cell] = q
          /\ \A c \in AllCells : c # cell => parameter'[c] = parameter[c]
      BY <1>0, <2>1, OrderTypes
    <2>3. /\ q.hot_threshold >= NrWalks
          /\ q.enabled /\ q.hot_threshold <= NrWalks /\ q.cold_threshold >= 0 => FarApart(q)
      <3>1. parameter[cell].hot_threshold >= NrWalks
        BY <1>0, <1>1 DEF HotFirst
      <3> QED
        BY <2>1, <3>1, AntiThrashingTakes
    <2> HIDE DEF q
    <2>4. ASSUME NEW c \in AllCells
          PROVE  /\ parameter'[c].hot_threshold >= NrWalks
                 /\ i' = 0 /\ (c > cell' \/ (c = cell' /\ part' = "hot")) =>
                      parameter'[c] = InitialParameter
                 /\ parameter'[c].enabled /\ parameter'[c].hot_threshold <= NrWalks
                      /\ parameter'[c].cold_threshold >= 0 => FarApart(parameter'[c])
      <3>1. CASE c = cell
        BY <1>4, <2>2, <2>3, <3>1
      <3>2. CASE c # cell
        BY <1>1, <1>4, <2>2, <3>2 DEF HotFirst
      <3> QED
        BY <3>1, <3>2
    <2> QED
      BY <1>0, <1>3, <2>4 DEF HotFirst, FarApart
  <1> QED
    BY <1>5, <1>6

\* Before the first cell the books are empty.
LEMMA InitBooks == Init => Books
  <1> SUFFICES ASSUME Init PROVE Books
    OBVIOUS
  <1>0. TypeOK
    BY TypeInit
  <1>1. /\ i = 0 /\ cell = 1 /\ part = "hot" /\ hot_threshold = NrWalks /\ cold_threshold = 0
        /\ \A c \in AllCells : parameter[c] = InitialParameter
        /\ AllCells = 1..Cells /\ Refs = 0..NrWalks /\ NrWalks \in Nat \ {0} /\ Cells \in Nat
        /\ promote_count_kb = 0 /\ demote_count_kb = 0 /\ input \in Inputs
    BY <1>0, OrderTypes, Constants DEF Init, hot_threshold, cold_threshold
  <1>2. \A c \in AllCells : HotMark(c) = NrWalks /\ ColdMark(c) = 0
    BY <1>1 DEF HotMark, ColdMark
  <1>3. \A c \in AllCells : Above(pmem[c], NrWalks) = 0 /\ Below(dram[c], 0) = 0
    BY <1>0, Histories, AboveBelow DEF AreHistograms
  <1>4. ASSUME NEW nr, \A c \in AllCells : nr[c] = 0, NEW limit \in Nat
        PROVE  Charged(0, limit, nr)
    <2>1. \A c \in 1..Cells : CellTerms(nr)[c] = 0
      <3> SUFFICES ASSUME NEW c \in 1..Cells PROVE nr[c] * CellKb(c) = 0
        BY <1>1 DEF CellTerms
      <3>1. nr[c] = 0 /\ CellKb(c) \in Int
        BY <1>1, <1>4, Constants
      <3> QED
        BY <3>1
    <2>2. SumTo(CellTerms(nr), Cells) = 0
      BY <1>1, <2>1, SumZero
    <2>3. KbSum(nr) = 0
      BY <2>2 DEF KbSum, CellTerms
    <2>4. BiggestPageKb \in Nat \ {0}
      <3>1. PageKb[1] \in Nat \ {0} /\ PageKb[2] \in Nat \ {0}
        BY MigrateCountAssumption DEF Types
      <3> QED
        BY <3>1 DEF BiggestPageKb, Greater
    <2> QED
      BY <2>3, <2>4 DEF Charged
  <1>5. /\ Charged(0, promote_limit_kb, NrPromote) /\ Charged(0, demote_limit_kb, NrDemote)
    <2>1. \A c \in AllCells : NrPromote[c] = 0 /\ NrDemote[c] = 0
      BY <1>1 DEF NrPromote, NrDemote, InitialParameter
    <2> QED
      BY <1>0, <1>4, <2>1, OrderTypes
  <1>6. HotBooks
    BY <1>1, <1>2, <1>3, <1>5 DEF HotBooks, HotSelected, InitialParameter
  <1>7. ColdBooks
    BY <1>1, <1>2, <1>3, <1>5 DEF ColdBooks, ColdSelected, InitialParameter
  <1>8. Stage
    <2>1. \A c \in AllCells : /\ parameter[c].hot_threshold >= NrWalks
                              /\ parameter[c] = InitialParameter /\ ~parameter[c].enabled
      <3>1. InitialParameter.hot_threshold = NrWalks + 1 /\ InitialParameter.enabled = FALSE
        BY DEF InitialParameter
      <3> QED
        BY <1>1, <3>1
    <2> QED
      BY <1>1, <2>1 DEF Stage, HotFirst
  <1> QED
    BY <1>6, <1>7, <1>8 DEF Books

\* Every step of calc_migrate_parameter() keeps the books.
LEMMA NextBooks == TypeOK /\ Ordered /\ Books /\ [Next]_vars => Books'
  <1> SUFFICES ASSUME TypeOK, Ordered, Books, [Next]_vars PROVE Books'
    OBVIOUS
  <1>0. HotBooks /\ ColdBooks /\ Stage
    BY DEF Books
  <1>1. CASE SelectHot \/ SkipHot
    <2>1. HotBooks'
      BY <1>0, <1>1, HotStepHotBooks, SkipHotKeepsHotBooks
    <2>2. ColdBooks'
      BY <1>0, <1>1, HotStepColdBooks
    <2>3. input' = input /\ part' = "cold"
      BY <1>1 DEF SelectHot, SkipHot
    <2>4. ~in_adjust_ratio_stage => HotFirst'
      BY <1>0, <1>1, HotStepHotFirst DEF Stage
    <2>5. Stage'
      BY <1>0, <2>3, <2>4 DEF Stage, in_adjust_ratio_stage
    <2> QED
      BY <2>1, <2>2, <2>5 DEF Books
  <1>2. CASE SelectCold \/ SkipCold
    <2>1. HotBooks'
      BY <1>0, <1>2, ColdStepHotBooks
    <2>2. ColdBooks'
      BY <1>0, <1>2, ColdStepColdBooks, SkipColdKeepsColdBooks
    <2>3. input' = input /\ (part' = "done" => i' = NrWalks)
      BY <1>2, OrderTypes DEF SelectCold, SkipCold, NextCell
    <2>4. ~in_adjust_ratio_stage => HotFirst'
      BY <1>0, <1>2, ColdStepHotFirst
    <2>5. Stage'
      BY <1>0, <2>3, <2>4 DEF Stage, in_adjust_ratio_stage
    <2> QED
      BY <2>1, <2>2, <2>5 DEF Books
  <1>3. CASE UNCHANGED vars
    <2>1. /\ UNCHANGED vars /\ pmem' = pmem /\ dram' = dram /\ NrPromote' = NrPromote /\ NrDemote' = NrDemote
          /\ \A c \in AllCells : HotMark(c)' = HotMark(c) /\ ColdMark(c)' = ColdMark(c)
          /\ promote_limit_kb' = promote_limit_kb /\ demote_limit_kb' = demote_limit_kb
          /\ in_adjust_ratio_stage' = in_adjust_ratio_stage
      BY <1>3 DEF vars, pmem, dram, NrPromote, NrDemote, HotMark, ColdMark, promote_limit_kb,
         demote_limit_kb, in_adjust_ratio_stage, hot_threshold, cold_threshold
    <2>2. HotBooks'
      BY <1>0, <2>1 DEF vars, HotBooks
    <2>3. ColdBooks'
      BY <1>0, <2>1 DEF vars, ColdBooks
    <2>4. Stage'
      BY <1>0, <2>1 DEF vars, Stage, HotFirst, FarApart
    <2> QED
      BY <2>2, <2>3, <2>4 DEF Books
  <1> QED
    BY <1>1, <1>2, <1>3 DEF Next

-----------------------------------------------------------------------------
(* What is moved in the end.                                               *)

\* What promote_and_demote() moves of a cell is within what the cell counted; while the
\* ratio is adjusted it is the same.
LEMMA MovedPages ==
  ASSUME TypeOK, Ordered, Books, NEW c \in AllCells
  PROVE  /\ PagesIn(PromotedPages[c], Refs) \in Nat /\ PagesIn(DemotedPages[c], Refs) \in Nat
         /\ PagesIn(PromotedPages[c], Refs) <= parameter[c].nr_promote
         /\ PagesIn(DemotedPages[c], Refs) <= parameter[c].nr_demote
         /\ in_adjust_ratio_stage =>
              /\ PagesIn(PromotedPages[c], Refs) = parameter[c].nr_promote
              /\ PagesIn(DemotedPages[c], Refs) = parameter[c].nr_demote
  <1> DEFINE p == parameter[c]
             promoted == PagesIn(PromotedPages[c], Refs)
             demoted == PagesIn(DemotedPages[c], Refs)
  <1>1. /\ p \in ParameterType /\ p.nr_promote \in Nat /\ p.nr_demote \in Nat
        /\ p.hot_threshold \in 1..(NrWalks + 1) /\ p.cold_threshold \in -1..(NrWalks - 1)
        /\ NrWalks \in Nat
    BY OrderTypes DEF ParameterType
  <1>2. promoted \in Nat /\ demoted \in Nat
    BY Histories, PagesInNat DEF AreHistograms
  <1>3. /\ p.hot_threshold <= NrWalks => p.hot_threshold_max = NrWalks
        /\ HotSelected(p, pmem[c]) <= p.nr_promote
        /\ in_adjust_ratio_stage => HotSelected(p, pmem[c]) = p.nr_promote
        /\ p.cold_threshold >= 0 => p.cold_threshold_min = 0
        /\ ColdSelected(p, dram[c]) <= p.nr_demote
        /\ in_adjust_ratio_stage => ColdSelected(p, dram[c]) = p.nr_demote
    BY DEF Books, HotBooks, ColdBooks
  <1>4. /\ promoted = IF p.enabled THEN HotSelected(p, pmem[c]) ELSE 0
        /\ demoted = IF p.enabled THEN ColdSelected(p, dram[c]) ELSE 0
    BY <1>3, SelectedPages
  <1>5. in_adjust_ratio_stage /\ ~p.enabled =>
          HotSelected(p, pmem[c]) = 0 /\ ColdSelected(p, dram[c]) = 0
    <2> SUFFICES ASSUME in_adjust_ratio_stage, ~p.enabled
                 PROVE  HotSelected(p, pmem[c]) = 0 /\ ColdSelected(p, dram[c]) = 0
      OBVIOUS
    <2>1. HotTaken(p) /\ ColdTaken(p)
      BY DEF Ordered, HotOrder, ColdOrder
    <2>2. p.hot_threshold > NrWalks /\ p.cold_threshold < 0
      <3>1. ~(p.hot_threshold <= NrWalks) /\ ~(p.cold_threshold >= 0)
        BY <2>1 DEF HotTaken, ColdTaken
      <3> QED
        BY <1>1, <3>1
    <2> QED
      BY <2>2 DEF HotSelected, ColdSelected
  <1> HIDE DEF p, promoted, demoted
  <1>6. /\ promoted <= p.nr_promote /\ demoted <= p.nr_demote
        /\ in_adjust_ratio_stage => promoted = p.nr_promote /\ demoted = p.nr_demote
    <2>1. CASE p.enabled
      BY <1>3, <1>4, <2>1
    <2>2. CASE ~p.enabled
      <3>1. promoted = 0 /\ demoted = 0
        BY <1>4, <2>2
      <3>2. in_adjust_ratio_stage => p.nr_promote = 0 /\ p.nr_demote = 0
        BY <1>3, <1>5, <2>2
      <3> QED
        BY <1>1, <3>1, <3>2
    <2> QED
      BY <2>1, <2>2
  <1> QED
    BY <1>2, <1>6 DEF p, promoted, demoted

\* What is moved of all cells is within the limits, and less than a page short of the counts.
LEMMA MovedKb ==
  ASSUME TypeOK, Ordered, Books
  PROVE  /\ PromotedKb \in Nat /\ DemotedKb \in Nat
         /\ PromotedKb <= promote_limit_kb /\ DemotedKb <= demote_limit_kb
         /\ in_adjust_ratio_stage => promote_count_kb < PromotedKb + BiggestPageKb
                                     /\ demote_count_kb < DemotedKb + BiggestPageKb
  <1> DEFINE hot == [c \in AllCells |-> PagesIn(PromotedPages[c], Refs)]
             cold == [c \in AllCells |-> PagesIn(DemotedPages[c], Refs)]
  <1>1. PromotedKb = KbSum(hot) /\ DemotedKb = KbSum(cold)
    BY Histories, KbOfAll DEF PromotedKb, DemotedKb
  <1>2. \A c \in AllCells :
          /\ hot[c] \in Nat /\ NrPromote[c] \in Nat /\ hot[c] <= NrPromote[c]
          /\ cold[c] \in Nat /\ NrDemote[c] \in Nat /\ cold[c] <= NrDemote[c]
          /\ in_adjust_ratio_stage => hot[c] = NrPromote[c] /\ cold[c] = NrDemote[c]
    BY MovedPages, OrderTypes DEF NrPromote, NrDemote, ParameterType
  <1>3. in_adjust_ratio_stage => hot = NrPromote /\ cold = NrDemote
    BY <1>2 DEF NrPromote, NrDemote
  <1> HIDE DEF hot, cold
  <1>4. /\ KbSum(hot) \in Nat /\ KbSum(NrPromote) \in Nat /\ KbSum(hot) <= KbSum(NrPromote)
        /\ KbSum(cold) \in Nat /\ KbSum(NrDemote) \in Nat /\ KbSum(cold) <= KbSum(NrDemote)
    BY <1>2, KbSumNat, KbSumLess
  <1>5. /\ KbSum(NrPromote) <= promote_count_kb
        /\ promote_count_kb < KbSum(NrPromote) + BiggestPageKb
        /\ KbSum(NrDemote) <= demote_count_kb
        /\ demote_count_kb < KbSum(NrDemote) + BiggestPageKb
    BY DEF Books, HotBooks, ColdBooks, Charged
  <1> QED
    BY <1>1, <1>3, <1>4, <1>5, OrderTypes

\* While the ratio is adjusted, the loop does not end with a limit that is not used up.
LEMMA UsedUp ==
  ASSUME TypeOK, Ordered, Books, Done, in_adjust_ratio_stage
  PROVE  promote_count_kb = promote_limit_kb /\ demote_count_kb = demote_limit_kb
  <1>0. /\ i = NrWalks /\ NrWalks \in Nat \ {0} /\ HotBooks /\ ColdBooks /\ Stage
        /\ hot_threshold = 0 /\ cold_threshold = NrWalks /\ Refs = 0..NrWalks
        /\ promote_count_kb \in Nat /\ promote_limit_kb \in Nat /\ promote_count_kb <= promote_limit_kb
        /\ demote_count_kb \in Nat /\ demote_limit_kb \in Nat /\ demote_count_kb <= demote_limit_kb
    BY OrderTypes, Constants DEF Books, Stage, Done, hot_threshold, cold_threshold
  <1>1. \A c \in AllCells : HotMark(c) = 0 /\ ColdMark(c) = NrWalks /\ ~Disabled(parameter[c])
    <2>1. \A c \in AllCells : HotMark(c) = 0 /\ ColdMark(c) = NrWalks
      BY <1>0 DEF HotMark, ColdMark
    <2>2. \A c \in AllCells : ~Disabled(parameter[c])
      BY DEF Ordered, ColdOrder, ColdTaken, Disabled
    <2> QED
      BY <2>1, <2>2
  <1>2. promote_count_kb < promote_limit_kb => promote_count_kb = KbOf(pmem, AllCells, 1..NrWalks)
    <2> SUFFICES ASSUME promote_count_kb < promote_limit_kb
                 PROVE  promote_count_kb = KbOf(pmem, AllCells, 1..NrWalks)
      OBVIOUS
    <2>1. 1 \in 1..NrWalks /\ \A c \in AllCells : HotMark(c) = 1 - 1
      BY <1>0, <1>1
    <2> QED
      BY <1>0, <2>1, AllHotTaken
  <1>3. demote_count_kb < demote_limit_kb => demote_count_kb = KbOf(dram, AllCells, 0..(NrWalks - 1))
    BY <1>0, <1>1, AllColdTaken
  <1>4. Refs \ {0} = 1..NrWalks /\ Refs \ {NrWalks} = 0..(NrWalks - 1)
    BY <1>0
  <1>5. /\ promote_limit_kb <= KbOf(pmem, AllCells, 1..NrWalks)
        /\ demote_limit_kb <= KbOf(dram, AllCells, 0..(NrWalks - 1))
    BY <1>0, <1>4, InputLimits
  <1> QED
    BY <1>0, <1>2, <1>3, <1>5

-----------------------------------------------------------------------------
(* The theorems.                                                           *)

\* The inductive invariant of the theorems below.
LEMMA BooksKept == Spec => [](TypeOK /\ Ordered /\ Books)
  BY TypeInit, TypeStep, InitOrdered, NextOrdered, InitBooks, NextBooks, PTL DEF Spec

\* Whatever the number of ranges, their histograms and the limits: the pages that
\* promote_and_demote() selects with the final thresholds and remainders, over all ranges and
\* page types, never exceed the two limits of the period.
THEOREM LimitsKept == Spec => []WithinLimits
  <1>1. TypeOK /\ Ordered /\ Books => WithinLimits
    BY MovedKb DEF WithinLimits
  <1> QED
    BY <1>1, BooksKept, PTL

\* What calc_migrate_parameter() counts for a range (nr_promote, nr_demote) and what the
\* thresholds and remainders it leaves select are the same pages while the ratio is
\* adjusted, and never more than counted after anti_thrashing().
THEOREM CountedAndSelected == Spec => []SelectsWhatItCounts
  <1>1. TypeOK /\ Ordered /\ Books => SelectsWhatItCounts
    <2> SUFFICES ASSUME TypeOK, Ordered, Books, NEW c \in AllCells
                 PROVE  /\ PagesOf(PromotedPages, c) <= parameter[c].nr_promote
                        /\ PagesOf(DemotedPages, c) <= parameter[c].nr_demote
                        /\ in_adjust_ratio_stage =>
                             /\ PagesOf(PromotedPages, c) = parameter[c].nr_promote
                             /\ PagesOf(DemotedPages, c) = parameter[c].nr_demote
      BY DEF SelectsWhatItCounts
    <2> DEFINE hot == PagesIn(PromotedPages[c], Refs)
               cold == PagesIn(DemotedPages[c], Refs)
    <2>1. hot \in Nat /\ cold \in Nat /\ CellKb(c) \in Nat \ {0}
      BY Constants, MovedPages
    <2>2. /\ KbOf(PromotedPages, {c}, Refs) = hot * CellKb(c)
          /\ KbOf(DemotedPages, {c}, Refs) = cold * CellKb(c)
      BY Histories, KbOfOne
    <2>3. \A a \in Nat, k \in Nat \ {0} : (a * k) \div k = a
      OBVIOUS
    <2>4. PagesOf(PromotedPages, c) = hot /\ PagesOf(DemotedPages, c) = cold
      <3> HIDE DEF hot, cold
      <3> QED
        BY <2>1, <2>2, <2>3 DEF PagesOf
    <2> QED
      BY <2>4, MovedPages
  <1> QED
    BY <1>1, BooksKept, PTL

\* While the ratio is right, a range that moves pages both ways keeps the two thresholds
\* anti_thrash_threshold apart, for every histogram: anti_thrashing() leaves no gap to a later
\* turn, since hot thresholds only move in the first one.
THEOREM NoThrashing == Spec => []ThresholdsApart
  <1>1. TypeOK /\ Ordered /\ Books => ThresholdsApart
    <2> SUFFICES ASSUME TypeOK, Ordered, Books, Done, ~in_adjust_ratio_stage,
                        NEW c \in AllCells, NEW m \in Refs, NEW n \in Refs,
                        Promoted(c, m) > 0, Demoted(c, n) > 0
                 PROVE  m - n >= AntiThrash
      BY DEF ThresholdsApart
    <2> DEFINE p == parameter[c]
    <2>0. /\ NrWalks \in Nat /\ Refs = 0..NrWalks /\ AntiThrash \in Nat
          /\ p.hot_threshold \in 1..(NrWalks + 1) /\ p.cold_threshold \in -1..(NrWalks - 1)
          /\ p.cold_threshold_min \in {-1, 0}
      BY OrderTypes, Constants DEF ParameterType
    <2>1. p.enabled /\ p.hot_threshold <= m /\ n <= p.cold_threshold
      <3>1. ~(0 > 0)
        OBVIOUS
      <3>2. p.enabled /\ (m = p.hot_threshold \/ p.hot_threshold < m)
        BY <3>1 DEF Promoted
      <3>3. n = p.cold_threshold \/ n < p.cold_threshold
        BY <3>1 DEF Demoted
      <3> QED
        BY <2>0, <3>2, <3>3
    <2>2. p.hot_threshold <= NrWalks /\ p.cold_threshold >= 0
      BY <2>0, <2>1
    <2>3. FarApart(p)
      BY <2>1, <2>2 DEF Books, Stage, HotFirst
    <2> QED
      BY <2>0, <2>1, <2>3 DEF FarApart
  <1> QED
    BY <1>1, BooksKept, PTL

\* While the ratio is adjusted a migration does not lead away from the target, up to one
\* page, for all histograms: calc_migrate_count() gives the right side the larger limit and
\* the loop uses both limits up.
THEOREM LeadsToTarget == Spec => []TowardsTarget
  <1>1. TypeOK /\ Ordered /\ Books => TowardsTarget
    <2> SUFFICES ASSUME TypeOK, Ordered, Books, Done, in_adjust_ratio_stage
                 PROVE  LET page == Greater(PageKb[1], PageKb[2])
                            size == MemorySize(pmem, dram)
                            target == TargetKb(size, input.dram_percent)
                        IN  /\ size.dram_kb < target => DemotedKb < PromotedKb + page
                            /\ size.dram_kb > target => PromotedKb < DemotedKb + page
      BY DEF TowardsTarget
    <2> DEFINE size == MemorySize(pmem, dram)
               target == TargetKb(size, input.dram_percent)
               below == size.dram_kb < target
               above == size.dram_kb > target
    <2>1. /\ below => demote_limit_kb <= promote_limit_kb
          /\ above => promote_limit_kb <= demote_limit_kb
      BY InputLimits DEF Books
    <2> HIDE DEF below, above
    <2>2. promote_count_kb = promote_limit_kb /\ demote_count_kb = demote_limit_kb
      BY UsedUp
    <2>3. /\ PromotedKb \in Nat /\ DemotedKb \in Nat
          /\ PromotedKb <= promote_limit_kb /\ DemotedKb <= demote_limit_kb
          /\ promote_count_kb < PromotedKb + BiggestPageKb
          /\ demote_count_kb < DemotedKb + BiggestPageKb
      BY MovedKb
    <2>4. BiggestPageKb \in Nat
      BY MigrateCountAssumption DEF BiggestPageKb, Greater, Types
    <2>5. /\ below => DemotedKb < PromotedKb + BiggestPageKb
          /\ above => PromotedKb < DemotedKb + BiggestPageKb
      BY <2>1, <2>2, <2>3, <2>4, OrderTypes
    <2> QED
      BY <2>5 DEF below, above, BiggestPageKb
  <1> QED
    BY <1>1, BooksKept, PTL
=============================================================================
