------------------------ MODULE BandwidthLimitProofs ------------------------
(***************************************************************************)
(* Proofs about BandwidthLimit, for every number of workers, rate, length  *)
(* of a tick and size of batch.                                            *)
(***************************************************************************)
EXTENDS BandwidthLimit, TLAPS

USE DEF Never

\* A product of natural numbers grows with its factors.
LEMMA TimesMonotone ==
  ASSUME NEW k \in Nat, NEW a \in Int, NEW b \in Int, a <= b
  PROVE  k * a <= k * b
  <1>1. k * (b - a) >= 0
    BY SMT
  <1>2. k * (b - a) = k * b - k * a
    BY SMT
  <1> QED
    BY <1>1, <1>2, SMT

\* The order of the factors does not matter.
LEMMA TimesAssociative ==
  ASSUME NEW a \in Nat, NEW b \in Nat, NEW c \in Nat
  PROVE  b * c \in Nat /\ a * (b * c) = (a * b) * c
  BY SMT

\* What a sleep of whole seconds leaves unpaid is less than one second's bytes.
LEMMA DivisionRest ==
  ASSUME NEW n \in Nat, NEW d \in Nat \ {0}
  PROVE  n \div d \in Nat /\ n < d * (n \div d) + d
  BY SMT

\* bwlimit_byteps is a positive number.
LEMMA BytepsType == byteps \in Nat \ {0}
  BY BandwidthLimitAssumption, SMT DEF byteps

\* SleepFor() covers a debt but for less than one second's bytes.
LEMMA SleepCovers ==
  ASSUME NEW balance \in Int
  PROVE  SleepFor(balance) \in Nat /\ -balance < Rate * SleepFor(balance) + byteps
  <1> DEFINE q == (-balance) \div byteps
  <1>1. CASE balance >= 0
    <2>1. SleepFor(balance) = 0
      BY <1>1 DEF SleepFor
    <2>2. Rate * 0 = 0
      BY BandwidthLimitAssumption, SMT
    <2> QED
      BY <1>1, <2>1, <2>2, BytepsType, SMT
  <1>2. CASE balance < 0
    <2>1. -balance \in Nat
      BY <1>2, SMT
    <2>2. q \in Nat /\ -balance < byteps * q + byteps
      BY <2>1, DivisionRest, BytepsType
    <2>3. SleepFor(balance) = Second * q
      BY <1>2 DEF SleepFor
    <2>4. Second * q \in Nat /\ Rate * (Second * q) = byteps * q
      <3> HIDE DEF q
      <3> QED
        BY <2>2, BandwidthLimitAssumption, TimesAssociative DEF byteps
    <2> QED
      BY <2>2, <2>3, <2>4, BytepsType, SMT
  <1> QED
    BY <1>1, <1>2, SMT

\* The credit of one call is a number of bytes that was earned since the last one.
LEMMA EarnedType ==
  ASSUME now \in Nat, last_time \in 0..now
  PROVE  Earned \in Nat /\ Earned <= Rate * (now - last_time)
  <1> DEFINE delta == now - last_time
             most == History * Second
             credit == IF delta > most THEN most ELSE delta
  <1>1. delta \in Nat /\ most \in Nat
    BY BandwidthLimitAssumption, SMT
  <1>2. credit \in Nat /\ credit <= delta
    <2> HIDE DEF delta, most
    <2> QED
      BY <1>1, SMT
  <1>3. Earned = Rate * credit
    BY DEF Earned
  <1> HIDE DEF credit, delta
  <1>4. Rate * credit \in Nat /\ Rate * credit <= Rate * delta
    BY <1>1, <1>2, TimesMonotone, BandwidthLimitAssumption, SMT
  <1> QED
    BY <1>3, <1>4 DEF delta

-----------------------------------------------------------------------------
(* Type correctness.                                                       *)

\* Every step keeps the types: the code runs no arithmetic on a last_time that was
\* never stored.
LEMMA TypeStep == TypeOK /\ [Next]_vars => TypeOK'
  <1> SUFFICES ASSUME TypeOK, [Next]_vars PROVE TypeOK'
    OBVIOUS
  <1> USE DEF TypeOK, Places
  <1>1. CASE UNCHANGED vars
    BY <1>1 DEF vars
  <1>2. CASE Tick
    BY <1>2, SMT DEF Tick
  <1>3. ASSUME NEW w \in Workers, Call(w) PROVE TypeOK'
    <2>1. calls' \in 0..MaxCalls
      BY <1>3, BandwidthLimitAssumption, SMT DEF Call
    <2>2. bytes' \in [Workers -> Batches \cup {0}]
      BY <1>3 DEF Call
    <2> QED
      BY <1>3, <2>1, <2>2 DEF Call, Goto
  <1>4. ASSUME NEW w \in Workers, TestFirst(w) PROVE TypeOK'
    BY <1>4 DEF TestFirst, Goto
  <1>5. ASSUME NEW w \in Workers, FirstClear(w) PROVE TypeOK'
    <2>1. forgiven' \in Nat /\ allow_bytes' \in Int
      BY <1>5, SMT DEF FirstClear
    <2> QED
      BY <1>5, <2>1 DEF FirstClear, Goto
  <1>6. ASSUME NEW w \in Workers, FirstStamp(w) PROVE TypeOK'
    <2>1. last_time' \in (0..now') \cup {Never} /\ last_time' # Never
      BY <1>6, SMT DEF FirstStamp
    <2>2. lost' \in Nat
      <3>1. CASE last_time = Never
        BY <1>6, <3>1 DEF FirstStamp
      <3>2. CASE last_time # Never
        <4>1. now - last_time \in Nat
          BY <3>2, SMT
        <4>2. Rate * (now - last_time) \in Nat
          BY <4>1, BandwidthLimitAssumption, SMT
        <4> QED
          BY <1>6, <3>2, <4>2, SMT DEF FirstStamp
      <3> QED
        BY <3>1, <3>2
    <2> QED
      BY <1>6, <2>1, <2>2 DEF FirstStamp, Goto
  <1>7. ASSUME NEW w \in Workers, Account(w) PROVE TypeOK'
    <2>1. last_time \in 0..now /\ bytes[w] \in Nat
      BY <1>7, BandwidthLimitAssumption, BytepsType, SMT DEF Account
    <2>2. Earned \in Nat
      BY <2>1, EarnedType
    <2>3. allow_bytes' \in Int /\ counted' \in Nat
      BY <1>7, <2>1, <2>2, SMT DEF Account
    <2>4. SleepFor(allow_bytes') \in Nat
      BY <2>3, SleepCovers
    <2>5. wake' \in [Workers -> Nat]
      BY <1>7, <2>4, SMT DEF Account
    <2>6. last_time' \in (0..now') \cup {Never} /\ last_time' # Never
      BY <1>7, SMT DEF Account
    <2> QED
      BY <1>7, <2>3, <2>5, <2>6 DEF Account, Goto
  <1>8. ASSUME NEW w \in Workers, Wake(w) PROVE TypeOK'
    BY <1>8 DEF Wake, Goto
  <1> QED
    BY <1>1, <1>2, <1>3, <1>4, <1>5, <1>6, <1>7, <1>8 DEF Next, Step

\* The types hold in every state of add_and_sleep(), whatever the rate and the workers.
THEOREM TypeCorrect == Spec => []TypeOK
  <1>1. Init => TypeOK
    BY BandwidthLimitAssumption, SMT DEF Init, TypeOK, Places
  <1> QED
    BY <1>1, TypeStep, PTL DEF Spec

-----------------------------------------------------------------------------
(* The limit holds in the long run.  Throttled is about the moments when   *)
(* nobody sleeps; it is inductive together with the books: no credit that  *)
(* was not earned, and a sleeper who will have paid when it wakes.         *)

\* What is left and what was charged was earned until last_time.
Ledger ==
  allow_bytes + counted <= Rate * (IF last_time = Never THEN 0 ELSE last_time) + forgiven

\* A sleep ends when what was charged so far is earned.
SleepPays ==
  \A w \in Workers : pc[w] = "sleep" => counted < Rate * wake[w] + byteps + forgiven

Books == TypeOK /\ Ledger /\ SleepPays /\ Throttled

\* No step credits bytes twice: not the locked part, whose last_time moves with the
\* credit, and not a late first call.
LEMMA LedgerStep == TypeOK /\ Ledger /\ [Next]_vars => Ledger'
  <1> SUFFICES ASSUME TypeOK, Ledger, [Next]_vars PROVE Ledger'
    OBVIOUS
  <1> DEFINE until == IF last_time = Never THEN 0 ELSE last_time
  <1>0. /\ until \in Nat /\ until <= now /\ now \in Nat /\ Rate \in Nat
        /\ allow_bytes \in Int /\ counted \in Nat /\ forgiven \in Nat
    BY BandwidthLimitAssumption, SMT DEF TypeOK
  <1>1. CASE UNCHANGED <<last_time, allow_bytes, counted, forgiven>>
    BY <1>1 DEF Ledger
  <1>2. ASSUME NEW w \in Workers, FirstClear(w) PROVE Ledger'
    <2>1. allow_bytes' + counted' - forgiven' <= allow_bytes + counted - forgiven
      BY <1>2, <1>0, SMT DEF FirstClear
    <2>2. last_time' = last_time /\ forgiven' \in Int /\ allow_bytes' \in Int /\ counted' = counted
      BY <1>2, <1>0, SMT DEF FirstClear
    <2>3. Rate * until \in Int
      BY <1>0, SMT
    <2>4. allow_bytes + counted <= Rate * until + forgiven
      BY DEF Ledger
    <2>5. allow_bytes' + counted' <= Rate * until + forgiven'
      <3> DEFINE earned == Rate * until
                 allow == allow_bytes'
                 erased == forgiven'
      <3>1. /\ earned \in Int /\ allow \in Int /\ erased \in Int
            /\ allow_bytes + counted <= earned + forgiven
            /\ allow + counted - erased <= allow_bytes + counted - forgiven
        BY <2>1, <2>2, <2>3, <2>4
      <3> HIDE DEF earned, allow, erased
      <3>2. allow + counted <= earned + erased
        BY <3>1, <1>0, SMT
      <3> QED
        BY <2>2, <3>2 DEF earned, allow, erased
    <2> QED
      BY <2>2, <2>5 DEF Ledger
  <1>3. ASSUME NEW w \in Workers, FirstStamp(w) PROVE Ledger'
    <2>1. Rate * until <= Rate * now
      BY <1>0, TimesMonotone
    <2>2. last_time' = now /\ now # Never
      BY <1>3, <1>0, SMT DEF FirstStamp
    <2>3. UNCHANGED <<allow_bytes, counted, forgiven>>
      BY <1>3 DEF FirstStamp
    <2>4. Rate * until \in Int /\ Rate * now \in Int
      BY <1>0, SMT
    <2>5. allow_bytes + counted <= Rate * until + forgiven
      BY DEF Ledger
    <2>6. allow_bytes + counted <= Rate * now + forgiven
      <3> HIDE DEF until
      <3> QED
        BY <2>1, <2>4, <2>5, <1>0, SMT
    <2> QED
      BY <2>2, <2>3, <2>6 DEF Ledger
  <1>4. ASSUME NEW w \in Workers, Account(w) PROVE Ledger'
    <2>1. last_time \in 0..now /\ last_time # Never /\ bytes[w] \in Nat
      BY <1>4, BandwidthLimitAssumption, BytepsType, SMT DEF Account, TypeOK
    <2>2. Earned \in Nat /\ Earned <= Rate * (now - last_time)
      BY <2>1, <1>0, EarnedType
    <2>3. Rate * (now - last_time) = Rate * now - Rate * last_time
      BY <2>1, <1>0, SMT
    <2>4. Rate * now \in Int /\ Rate * last_time \in Int
      BY <2>1, <1>0, SMT
    <2>5. allow_bytes + counted <= Rate * last_time + forgiven
      BY <2>1 DEF Ledger
    <2>6. /\ allow_bytes' = allow_bytes + Earned - bytes[w] /\ counted' = counted + bytes[w]
          /\ last_time' = now /\ forgiven' = forgiven /\ now # Never
      BY <1>4, <1>0, SMT DEF Account
    <2>7. allow_bytes' + counted' <= Rate * now + forgiven
      BY <2>1, <2>2, <2>3, <2>4, <2>5, <2>6, <1>0, SMT
    <2> QED
      BY <2>6, <2>7 DEF Ledger
  <1> QED
    BY <1>1, <1>2, <1>3, <1>4
       DEF Next, Step, vars, Tick, Call, TestFirst, Wake

\* A sleeper has paid when it wakes, and meanwhile no one else can charge.
LEMMA PaidStep ==
  TypeOK /\ Ledger /\ SleepPays /\ Throttled /\ [Next]_vars => SleepPays' /\ Throttled'
  <1> SUFFICES ASSUME TypeOK, Ledger, SleepPays, Throttled, [Next]_vars
               PROVE  SleepPays' /\ Throttled'
    OBVIOUS
  <1>0. /\ now \in Nat /\ Rate \in Nat /\ counted \in Nat /\ forgiven \in Nat
        /\ pc \in [Workers -> Places] /\ wake \in [Workers -> Nat] /\ byteps \in Nat
    BY BandwidthLimitAssumption, BytepsType DEF TypeOK
  <1>1. CASE UNCHANGED <<now, wake, counted, forgiven>> /\ \A w \in Workers : pc'[w] = "sleep" <=> pc[w] = "sleep"
    BY <1>1 DEF SleepPays, Throttled, LockFree
  <1>2. CASE Tick
    <2>1. now' = now + 1 /\ UNCHANGED <<pc, wake, counted, forgiven>>
      BY <1>2 DEF Tick
    <2>2. Rate * now <= Rate * (now + 1)
      BY <1>0, TimesMonotone, SMT
    <2>3. Rate * now \in Int /\ Rate * (now + 1) \in Int
      BY <1>0, SMT
    <2>4. ASSUME LockFree PROVE counted < Rate * (now + 1) + byteps + forgiven
      BY <2>2, <2>3, <2>4, <1>0, SMT DEF Throttled
    <2> QED
      BY <2>1, <2>4 DEF SleepPays, Throttled, LockFree
  <1>3. ASSUME NEW w \in Workers, FirstClear(w) PROVE SleepPays' /\ Throttled'
    <2>1. forgiven <= forgiven' /\ forgiven' \in Int
      BY <1>3, SMT DEF FirstClear, TypeOK
    <2>2. UNCHANGED <<now, wake, counted>>
      BY <1>3 DEF FirstClear
    <2>3. \A v \in Workers : pc'[v] = "sleep" <=> pc[v] = "sleep"
      BY <1>3, <1>0 DEF FirstClear, Goto
    <2>4. \A v \in Workers : Rate * wake[v] \in Int
      BY <1>0, SMT
    <2>5. SleepPays'
      BY <2>1, <2>2, <2>3, <2>4, <1>0, SMT DEF SleepPays
    <2>6. ASSUME LockFree PROVE counted < Rate * now + byteps + forgiven'
      <3> DEFINE earned == Rate * now
                 erased == forgiven'
      <3>1. earned \in Int /\ counted < earned + byteps + forgiven
        BY <2>6, <1>0, SMT DEF Throttled
      <3>2. erased \in Int /\ forgiven <= erased
        BY <2>1
      <3> HIDE DEF earned, erased
      <3>3. counted < earned + byteps + erased
        BY <3>1, <3>2, <1>0, SMT
      <3> QED
        BY <3>3 DEF earned, erased
    <2>7. Throttled'
      BY <2>2, <2>3, <2>6 DEF Throttled, LockFree
    <2> QED
      BY <2>5, <2>7
  <1>4. ASSUME NEW w \in Workers, Account(w) PROVE SleepPays' /\ Throttled'
    <2>1. /\ last_time \in 0..now /\ last_time # Never /\ pc[w] = "lock" /\ LockFree
          /\ pc' = [pc EXCEPT ![w] = "sleep"] /\ forgiven' = forgiven /\ last_time' = now
          /\ now # Never
      BY <1>4, <1>0, SMT DEF Account, TypeOK, Goto
    <2>2. allow_bytes' \in Int /\ counted' \in Nat
      BY TypeStep DEF TypeOK
    <2>3. allow_bytes' + counted' <= Rate * now + forgiven
      BY <2>1, LedgerStep DEF Ledger
    <2> DEFINE length == SleepFor(allow_bytes')
    <2>4. length \in Nat /\ -allow_bytes' < Rate * length + byteps
      BY <2>2, SleepCovers
    <2>5. wake'[w] = now + length
      BY <1>4, <1>0 DEF Account
    <2> HIDE DEF length
    <2>6. /\ Rate * (now + length) = Rate * now + Rate * length
          /\ Rate * now \in Int /\ Rate * length \in Int
      BY <2>4, <1>0, SMT
    <2>7. counted' < Rate * (now + length) + byteps + forgiven
      <3> DEFINE earned == Rate * now
                 slept == Rate * length
                 balance == allow_bytes'
                 charged == counted'
      <3>1. /\ earned \in Int /\ slept \in Int /\ balance \in Int /\ charged \in Nat
            /\ balance + charged <= earned + forgiven /\ -balance < slept + byteps
        BY <2>2, <2>3, <2>4, <2>6
      <3> HIDE DEF earned, slept, balance, charged
      <3>2. charged < earned + slept + byteps + forgiven
        BY <3>1, <1>0, SMT
      <3> QED
        BY <2>6, <3>2 DEF earned, slept, charged
    <2>8. \A v \in Workers : pc'[v] = "sleep" => v = w
      BY <2>1, <1>0 DEF LockFree
    <2>9. pc'[w] = "sleep"
      BY <2>1, <1>0
    <2> QED
      BY <2>1, <2>5, <2>7, <2>8, <2>9 DEF SleepPays, Throttled, LockFree
  <1>5. ASSUME NEW w \in Workers, Wake(w) PROVE SleepPays' /\ Throttled'
    <2>1. /\ pc[w] = "sleep" /\ wake[w] \in Nat /\ wake[w] <= now
          /\ UNCHANGED <<now, wake, counted, forgiven>> /\ pc' = [pc EXCEPT ![w] = "moving"]
      BY <1>5, <1>0 DEF Wake, Goto
    <2>2. counted < Rate * wake[w] + byteps + forgiven
      BY <2>1 DEF SleepPays
    <2>3. Rate * wake[w] <= Rate * now /\ Rate * wake[w] \in Int /\ Rate * now \in Int
      BY <2>1, <1>0, TimesMonotone, SMT
    <2>4. counted < Rate * now + byteps + forgiven
      BY <2>2, <2>3, <1>0, SMT
    <2> QED
      BY <2>1, <2>4, <1>0 DEF SleepPays, Throttled
  <1>6. ASSUME NEW w \in Workers, Call(w) \/ TestFirst(w) \/ FirstStamp(w) PROVE SleepPays' /\ Throttled'
    BY <1>6, <1>1, <1>0 DEF Call, TestFirst, FirstStamp, Goto
  <1>7. CASE UNCHANGED vars
    BY <1>7, <1>1 DEF vars
  <1> QED
    BY <1>2, <1>3, <1>4, <1>5, <1>6, <1>7 DEF Next, Step

\* The bytes that were charged never exceed those that the time has earned, but for
\* the rest of a second and what late first calls erased: no interleaving of callers
\* and no late first call raises the rate beyond that.
THEOREM RateKept == Spec => []Throttled
  <1>1. Init => Books
    <2> SUFFICES ASSUME Init PROVE Books
      OBVIOUS
    <2>1. TypeOK
      BY BandwidthLimitAssumption, SMT DEF Init, TypeOK, Places
    <2>2. Rate * 0 = 0
      BY BandwidthLimitAssumption, SMT
    <2>3. Ledger /\ SleepPays /\ Throttled
      BY <2>2, BytepsType, SMT DEF Init, Ledger, SleepPays, Throttled
    <2> QED
      BY <2>1, <2>3 DEF Books
  <1>2. Books /\ [Next]_vars => Books'
    BY TypeStep, LedgerStep, PaidStep DEF Books
  <1>3. Books => Throttled
    BY DEF Books
  <1> QED
    BY <1>1, <1>2, <1>3, PTL DEF Spec

-----------------------------------------------------------------------------
(* Debt does not grow.  A call charges its batch on top of what is left of *)
(* the debt, so DebtBounded is inductive together with what a sleep leaves *)
(* and with what late first calls drop while others sleep.                 *)

\* Before the next batch is charged, the time since last_time repays the debt but
\* for the rest of a second; a sleeper will have repaid it when it wakes.
Repaid ==
  /\ last_time = Never => allow_bytes = 0
  /\ LockFree /\ last_time # Never =>
       allow_bytes + (Rate * now - Rate * last_time) + lost > -byteps
  /\ \A w \in Workers : pc[w] = "sleep" =>
       /\ allow_bytes + (Rate * wake[w] - Rate * last_time) + lost > -byteps
       /\ (Rate * wake[w] - Rate * last_time) + lost >= 0

\* The numbers of the steps, and their products.
LEMMA Numbers ==
  ASSUME TypeOK
  PROVE  /\ now \in Nat /\ Rate \in Nat /\ Rate * now \in Nat /\ allow_bytes \in Int /\ lost \in Nat
         /\ History * byteps \in Nat /\ byteps \in Nat \ {0}
         /\ last_time # Never => /\ last_time \in Nat /\ last_time <= now /\ Rate * last_time \in Nat
                                 /\ Rate * last_time <= Rate * now
         /\ \A w \in Workers : wake[w] \in Nat /\ Rate * wake[w] \in Nat
         /\ pc \in [Workers -> Places]
  <1>1. /\ now \in Nat /\ Rate \in Nat /\ allow_bytes \in Int /\ lost \in Nat /\ byteps \in Nat \ {0}
        /\ History \in Nat /\ pc \in [Workers -> Places] /\ \A w \in Workers : wake[w] \in Nat
    BY BytepsType, BandwidthLimitAssumption DEF TypeOK
  <1>2. Rate * now \in Nat /\ History * byteps \in Nat
    BY <1>1, SMT
  <1>3. \A w \in Workers : Rate * wake[w] \in Nat
    BY <1>1, SMT
  <1>4. ASSUME last_time # Never
        PROVE  /\ last_time \in Nat /\ last_time <= now /\ Rate * last_time \in Nat
               /\ Rate * last_time <= Rate * now
    <2>1. last_time \in Nat /\ last_time <= now
      BY <1>4, SMT DEF TypeOK
    <2> QED
      BY <1>1, <2>1, TimesMonotone, SMT
  <1> QED
    BY <1>1, <1>2, <1>3, <1>4

\* The locked part charges a batch of at most MAX_TIME_HISTORY to what the time
\* repaid, and sleeps until that is repaid but for the rest of a second.
LEMMA AccountRepaid ==
  ASSUME TypeOK, DebtBounded, Repaid, NEW w \in Workers, Account(w)
  PROVE  DebtBounded' /\ Repaid'
  <1>1. /\ last_time # Never /\ LockFree /\ pc[w] = "lock" /\ pc' = [pc EXCEPT ![w] = "sleep"]
        /\ allow_bytes' = allow_bytes + Earned - bytes[w] /\ last_time' = now /\ lost' = lost
        /\ wake' = [wake EXCEPT ![w] = now + SleepFor(allow_bytes')] /\ now' = now
    BY DEF Account, TypeOK, Goto
  <1>2. /\ now \in Nat /\ Rate \in Nat /\ Rate * now \in Nat /\ allow_bytes \in Int /\ lost \in Nat
        /\ History * byteps \in Nat /\ byteps \in Nat \ {0}
        /\ last_time \in Nat /\ last_time <= now /\ Rate * last_time \in Nat
        /\ pc \in [Workers -> Places]
    BY <1>1, Numbers
  <1>3. bytes[w] \in Nat /\ bytes[w] <= History * byteps
    <2>1. bytes[w] \in Batches \cup {0}
      BY DEF TypeOK
    <2>2. \A b \in Batches : b \in 0 .. (History * byteps)
      BY BandwidthLimitAssumption
    <2> QED
      BY <1>2, <2>1, <2>2
  <1>4. Earned = History * byteps \/ Earned = Rate * now - Rate * last_time
    <2> DEFINE delta == now - last_time
               most == History * Second
    <2>1. Earned = Rate * most \/ Earned = Rate * delta
      BY DEF Earned
    <2>2. Rate * delta = Rate * now - Rate * last_time
      BY <1>2, SMT
    <2>3. Rate * most = History * byteps
      BY BandwidthLimitAssumption, SMT DEF byteps
    <2> QED
      BY <2>1, <2>2, <2>3
  <1>5. allow_bytes + Earned + lost > -byteps
    <2>1. allow_bytes > -(History * byteps + byteps + lost)
      BY DEF DebtBounded
    <2>2. allow_bytes + (Rate * now - Rate * last_time) + lost > -byteps
      BY <1>1 DEF Repaid
    <2> DEFINE most == History * byteps
               past == Rate * now - Rate * last_time
    <2>3. most \in Nat /\ past \in Int
      BY <1>2
    <2>4. Earned = most \/ Earned = past
      BY <1>4
    <2> HIDE DEF most, past
    <2>5. allow_bytes > -(most + byteps + lost) /\ allow_bytes + past + lost > -byteps
      BY <2>1, <2>2 DEF most, past
    <2> QED
      BY <1>2, <2>3, <2>4, <2>5
  <1> DEFINE balance == allow_bytes'
             length == SleepFor(balance)
  <1>6. balance \in Int /\ balance > -(History * byteps + byteps + lost)
    <2>1. Earned \in Int
      BY <1>2, <1>4
    <2>2. balance = allow_bytes + Earned - bytes[w]
      BY <1>1
    <2> DEFINE most == History * byteps
    <2>3. most \in Nat /\ bytes[w] <= most
      BY <1>2, <1>3
    <2> HIDE DEF most, balance
    <2>4. balance \in Int /\ balance > -(most + byteps + lost)
      BY <1>2, <1>3, <1>5, <2>1, <2>2, <2>3
    <2> QED
      BY <2>4 DEF most
  <1>7. DebtBounded'
    BY <1>1, <1>6 DEF DebtBounded, byteps
  <1> HIDE DEF balance
  <1>8. length \in Nat /\ -balance < Rate * length + byteps
    BY <1>6, SleepCovers
  <1>9. wake'[w] = now + length
    <2>1. wake \in [Workers -> Nat]
      BY DEF TypeOK
    <2> QED
      BY <1>1, <2>1 DEF length, balance
  <1> HIDE DEF length
  <1>10. Rate * (now + length) = Rate * now + Rate * length /\ Rate * length \in Nat
    BY <1>2, <1>8, SMT
  <1>11. /\ balance + (Rate * wake'[w] - Rate * now) + lost > -byteps
         /\ (Rate * wake'[w] - Rate * now) + lost >= 0
    <2> DEFINE slept == Rate * length
               earned == Rate * now
               until == Rate * wake'[w]
    <2>1. until = earned + slept /\ slept \in Nat /\ earned \in Nat /\ -balance < slept + byteps
      BY <1>2, <1>8, <1>9, <1>10
    <2> HIDE DEF slept, earned, until
    <2>2. balance + (until - earned) + lost > -byteps /\ (until - earned) + lost >= 0
      BY <1>2, <1>6, <2>1
    <2> QED
      BY <2>2 DEF until, earned
  <1>12. pc'[w] = "sleep" /\ \A v \in Workers : pc'[v] = "sleep" => v = w
    BY <1>1, <1>2 DEF LockFree
  <1>13. ~LockFree'
    BY <1>12 DEF LockFree
  <1>14. last_time' # Never
    BY <1>1, <1>2
  <1>15. \A v \in Workers : pc'[v] = "sleep" =>
           /\ allow_bytes' + (Rate * wake'[v] - Rate * last_time') + lost' > -byteps
           /\ (Rate * wake'[v] - Rate * last_time') + lost' >= 0
    BY <1>1, <1>11, <1>12 DEF balance
  <1> QED
    BY <1>7, <1>13, <1>14, <1>15 DEF Repaid, byteps

\* A late first call clears the debt, and what it drops is counted as lost.
LEMMA FirstRepaid ==
  ASSUME TypeOK, DebtBounded, Repaid, NEW w \in Workers, FirstClear(w) \/ FirstStamp(w)
  PROVE  DebtBounded' /\ Repaid'
  <1>1. /\ now \in Nat /\ Rate \in Nat /\ Rate * now \in Nat /\ allow_bytes \in Int /\ lost \in Nat
        /\ History * byteps \in Nat /\ byteps \in Nat \ {0}
        /\ last_time # Never => /\ last_time \in Nat /\ last_time <= now /\ Rate * last_time \in Nat
                                /\ Rate * last_time <= Rate * now
        /\ \A v \in Workers : wake[v] \in Nat /\ Rate * wake[v] \in Nat
        /\ pc \in [Workers -> Places]
    BY Numbers
  <1> DEFINE most == History * byteps
             past == Rate * now - Rate * last_time
             till(v) == Rate * wake[v] - Rate * last_time
  <1>2. /\ most \in Nat
        /\ last_time # Never => past \in Nat /\ \A v \in Workers : till(v) \in Int
    BY <1>1
  <1>3. /\ allow_bytes > -(most + byteps + lost)
        /\ last_time = Never => allow_bytes = 0
        /\ LockFree /\ last_time # Never => allow_bytes + past + lost > -byteps
        /\ \A v \in Workers : pc[v] = "sleep" =>
             allow_bytes + till(v) + lost > -byteps /\ till(v) + lost >= 0
    BY DEF DebtBounded, Repaid
  <1>4. \A v \in Workers : pc[v] = "sleep" => last_time # Never
    BY DEF TypeOK
  <1>5. CASE FirstClear(w)
    <2>1. UNCHANGED <<now, last_time, wake, lost>> /\ allow_bytes' = 0 /\ pc' = [pc EXCEPT ![w] = "stamp"]
      BY <1>5 DEF FirstClear, Goto
    <2>2. \A v \in Workers : pc'[v] = "sleep" => pc[v] = "sleep"
      BY <1>1, <2>1
    <2> HIDE DEF most, past, till
    <2>3. 0 > -(most + byteps + lost)
      BY <1>1, <1>2
    <2>4. last_time # Never => 0 + past + lost > -byteps
      BY <1>1, <1>2
    <2>5. ASSUME NEW v \in Workers, pc'[v] = "sleep"
          PROVE  0 + till(v) + lost > -byteps /\ till(v) + lost >= 0
      <3>1. till(v) \in Int /\ till(v) + lost >= 0
        BY <1>2, <1>3, <1>4, <2>2, <2>5
      <3> QED
        BY <1>1, <3>1
    <2>6. DebtBounded'
      BY <2>1, <2>3 DEF DebtBounded, byteps, most
    <2>7. Repaid'
      BY <2>1, <2>4, <2>5 DEF Repaid, byteps, past, till
    <2> QED
      BY <2>6, <2>7
  <1>6. CASE FirstStamp(w) /\ last_time = Never
    <2>1. UNCHANGED <<now, allow_bytes, wake, lost>> /\ last_time' = now /\ pc' = [pc EXCEPT ![w] = "moving"]
      BY <1>6 DEF FirstStamp, Goto
    <2>2. \A v \in Workers : pc'[v] # "sleep"
      BY <1>1, <1>4, <1>6, <2>1
    <2>3. last_time' # Never
      BY <1>1, <2>1
    <2>4. allow_bytes = 0 /\ 0 + (Rate * now - Rate * now) + lost > -byteps
      BY <1>1, <1>3, <1>6
    <2>5. allow_bytes' + (Rate * now' - Rate * last_time') + lost' > -byteps
      BY <2>1, <2>4
    <2>6. DebtBounded'
      BY <2>1 DEF DebtBounded, byteps
    <2>7. Repaid'
      BY <2>2, <2>3, <2>5 DEF Repaid, byteps
    <2> QED
      BY <2>6, <2>7
  <1>7. CASE FirstStamp(w) /\ last_time # Never
    <2>1. /\ UNCHANGED <<now, allow_bytes, wake>> /\ last_time' = now /\ pc' = [pc EXCEPT ![w] = "moving"]
          /\ lost' = lost + Rate * (now - last_time)
      BY <1>7 DEF FirstStamp, Goto
    <2>2. lost' = lost + past
      BY <1>1, <1>7, <2>1, SMT
    <2>3. \A v \in Workers : (pc'[v] = "sleep" <=> pc[v] = "sleep") \/ v = w
      BY <1>1, <2>1
    <2>4. pc[w] = "stamp" /\ pc'[w] = "moving"
      BY <1>1, <1>7, <2>1 DEF FirstStamp
    <2>5. \A v \in Workers : pc'[v] = "sleep" <=> pc[v] = "sleep"
      BY <2>3, <2>4
    <2> DEFINE then(v) == Rate * wake[v] - Rate * now
    <2>6. \A v \in Workers : then(v) = till(v) - past /\ then(v) \in Int
      BY <1>1, <1>7
    <2>7. Rate * now - Rate * now = 0
      BY <1>1
    <2> HIDE DEF most, past, till, then
    <2>8. past \in Nat
      BY <1>2, <1>7
    <2>9. allow_bytes > -(most + byteps + lost')
      BY <1>1, <1>2, <1>3, <2>2, <2>8
    <2>10. LockFree => allow_bytes + 0 + lost' > -byteps
      BY <1>1, <1>3, <1>7, <2>2, <2>8
    <2>11. ASSUME NEW v \in Workers, pc[v] = "sleep"
           PROVE  allow_bytes + then(v) + lost' > -byteps /\ then(v) + lost' >= 0
      <3>1. till(v) \in Int /\ allow_bytes + till(v) + lost > -byteps /\ till(v) + lost >= 0
        BY <1>2, <1>3, <1>7, <2>11
      <3> QED
        BY <1>1, <2>2, <2>6, <2>8, <3>1
    <2>12. DebtBounded'
      BY <2>1, <2>9 DEF DebtBounded, byteps, most
    <2>13. LockFree' <=> LockFree
      BY <2>5 DEF LockFree
    <2>14. last_time' # Never
      BY <1>1, <2>1
    <2>15. LockFree' => allow_bytes' + (Rate * now' - Rate * last_time') + lost' > -byteps
      BY <2>1, <2>7, <2>10, <2>13
    <2>16. \A v \in Workers : pc'[v] = "sleep" =>
             /\ allow_bytes' + (Rate * wake'[v] - Rate * last_time') + lost' > -byteps
             /\ (Rate * wake'[v] - Rate * last_time') + lost' >= 0
      BY <2>1, <2>5, <2>11 DEF then
    <2>17. Repaid'
      BY <2>14, <2>15, <2>16 DEF Repaid, byteps
    <2> QED
      BY <2>12, <2>17
  <1> QED
    BY <1>5, <1>6, <1>7

\* Time repays, and who wakes has slept long enough.
LEMMA TimeRepaid ==
  ASSUME TypeOK, DebtBounded, Repaid, Tick \/ \E w \in Workers : Wake(w)
  PROVE  DebtBounded' /\ Repaid'
  <1>1. /\ now \in Nat /\ Rate \in Nat /\ Rate * now \in Nat /\ allow_bytes \in Int /\ lost \in Nat
        /\ byteps \in Nat \ {0}
        /\ last_time # Never => Rate * last_time \in Nat
        /\ \A v \in Workers : wake[v] \in Nat /\ Rate * wake[v] \in Nat
        /\ pc \in [Workers -> Places]
    BY Numbers
  <1>2. UNCHANGED <<last_time, allow_bytes, wake, lost>>
    BY DEF Tick, Wake
  <1>3. DebtBounded'
    BY <1>2 DEF DebtBounded, byteps
  <1>4. CASE Tick
    <2>1. now' = now + 1 /\ pc' = pc
      BY <1>4 DEF Tick
    <2>2. Rate * now <= Rate * now' /\ Rate * now' \in Nat
      BY <1>1, <2>1, TimesMonotone, SMT
    <2> DEFINE later == Rate * now'
               earned == Rate * now
               last == Rate * last_time
    <2>3. ASSUME LockFree, last_time # Never
          PROVE  allow_bytes + (later - last) + lost > -byteps
      <3>1. allow_bytes + (earned - last) + lost > -byteps
        BY <2>3 DEF Repaid
      <3>2. later \in Nat /\ earned \in Nat /\ last \in Nat /\ earned <= later
        BY <1>1, <2>2, <2>3
      <3> HIDE DEF later, earned, last
      <3> QED
        BY <1>1, <3>1, <3>2
    <2> QED
      BY <1>2, <1>3, <2>1, <2>3 DEF Repaid, LockFree, byteps
  <1>5. ASSUME NEW w \in Workers, Wake(w) PROVE DebtBounded' /\ Repaid'
    <2>1. pc[w] = "sleep" /\ wake[w] <= now /\ pc' = [pc EXCEPT ![w] = "moving"] /\ now' = now
      BY <1>5 DEF Wake, Goto
    <2>2. last_time # Never
      BY <2>1 DEF TypeOK
    <2>3. Rate * wake[w] <= Rate * now
      BY <1>1, <2>1, TimesMonotone
    <2> DEFINE woken == Rate * wake[w]
               earned == Rate * now
               last == Rate * last_time
    <2>4. allow_bytes + (earned - last) + lost > -byteps
      <3>1. allow_bytes + (woken - last) + lost > -byteps
        BY <2>1 DEF Repaid
      <3>2. woken \in Nat /\ earned \in Nat /\ last \in Nat /\ woken <= earned
        BY <1>1, <2>2, <2>3
      <3> HIDE DEF woken, earned, last
      <3> QED
        BY <1>1, <3>1, <3>2
    <2>5. \A v \in Workers : pc'[v] = "sleep" => pc[v] = "sleep"
      BY <1>1, <2>1
    <2> QED
      BY <1>2, <1>3, <2>1, <2>2, <2>4, <2>5 DEF Repaid, byteps
  <1> QED
    BY <1>4, <1>5

\* Every step leaves the debt bounded.
LEMMA RepaidStep == TypeOK /\ DebtBounded /\ Repaid /\ [Next]_vars => DebtBounded' /\ Repaid'
  <1> SUFFICES ASSUME TypeOK, DebtBounded, Repaid, [Next]_vars
               PROVE  DebtBounded' /\ Repaid'
    OBVIOUS
  <1>1. CASE /\ UNCHANGED <<now, last_time, allow_bytes, wake, lost>>
             /\ \A w \in Workers : pc'[w] = "sleep" <=> pc[w] = "sleep"
    BY <1>1 DEF DebtBounded, Repaid, LockFree, byteps
  <1>2. ASSUME NEW w \in Workers, Call(w) \/ TestFirst(w) PROVE DebtBounded' /\ Repaid'
    <2>1. pc \in [Workers -> Places]
      BY DEF TypeOK
    <2>2. /\ UNCHANGED <<now, last_time, allow_bytes, wake, lost>>
          /\ \A v \in Workers : pc'[v] = "sleep" <=> pc[v] = "sleep"
      BY <1>2, <2>1 DEF Call, TestFirst, Goto
    <2> QED
      BY <1>1, <2>2
  <1>3. CASE UNCHANGED vars
    BY <1>1, <1>3 DEF vars
  <1> QED
    BY <1>2, <1>3, AccountRepaid, FirstRepaid, TimeRepaid DEF Next, Step

\* A sleep repays its debt although MAX_TIME_HISTORY caps what its time is credited:
\* no sequence of batches, callers and late first calls makes the debt of
\* add_and_sleep() grow without bound.
THEOREM DebtKept == Spec => []DebtBounded
  <1>1. Init => TypeOK /\ DebtBounded /\ Repaid
    <2> SUFFICES ASSUME Init PROVE TypeOK /\ DebtBounded /\ Repaid
      OBVIOUS
    <2>1. TypeOK
      BY BandwidthLimitAssumption, SMT DEF Init, TypeOK, Places
    <2>2. History * byteps \in Nat /\ byteps \in Nat \ {0}
      BY <2>1, Numbers
    <2>3. allow_bytes = 0 /\ lost = 0 /\ last_time = Never /\ \A w \in Workers : pc[w] # "sleep"
      BY DEF Init
    <2>4. DebtBounded
      BY <2>2, <2>3 DEF DebtBounded
    <2>5. Repaid
      BY <2>3 DEF Repaid
    <2> QED
      BY <2>1, <2>4, <2>5
  <1> QED
    BY <1>1, TypeStep, RepaidStep, PTL DEF Spec
=============================================================================
