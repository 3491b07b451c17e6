--------------------------- MODULE BandwidthLimit ---------------------------
(***************************************************************************)
(* BandwidthLimit (BandwidthLimit.cc): one object that all migrating       *)
(* workers share.  A worker moves a batch of pages and then calls          *)
(* add_and_sleep(), which credits the bytes earned since the last call,    *)
(* charges the batch and, in debt, sleeps with the lock held.  The branch  *)
(* of the first call runs before the lock is taken, so several workers can *)
(* be in it, and one of them can finish it late.                           *)
(*                                                                         *)
(* Time is counted in ticks, a fraction of a second, because the code      *)
(* sleeps whole seconds only: -allow_bytes / bwlimit_byteps divides        *)
(* integers.                                                               *)
(***************************************************************************)
EXTENDS Integers, FiniteSets

CONSTANTS
  Workers,
  Rate,        \* bytes per tick; bwlimit_byteps is Rate * Second
  Second,      \* ticks per second
  History,     \* MAX_TIME_HISTORY, in seconds
  Batches,     \* sizes of the batches that are moved, in bytes
  MaxCalls,    \* bound: calls of add_and_sleep()
  MaxIdle      \* bound: the clock passes it only while a worker sleeps

byteps == Rate * Second

\* A batch is 4 MB (pagetype_batchsize): at 11 Mb/s and above it is earned within
\* MAX_TIME_HISTORY.
ASSUME BandwidthLimitAssumption ==
  /\ Rate \in Nat \ {0} /\ Second \in Nat \ {0} /\ History \in Nat \ {0}
  /\ \A b \in Batches : b \in 0..(History * byteps)
  /\ MaxCalls \in Nat /\ MaxIdle \in Nat

VARIABLES
  now,
  last_time,   \* Never until the first call has stored it
  allow_bytes,
  pc,          \* where each worker is: see Places
  bytes,       \* the batch each worker moved last
  wake,        \* when each worker's usleep() ends
  calls,       \* calls so far (bounds the model)
  counted,     \* history: bytes charged
  forgiven,    \* history: debt that late first calls erased
  lost         \* history: bytes earned that late first calls dropped

vars == <<now, last_time, allow_bytes, pc, bytes, wake, calls, counted, forgiven, lost>>

Never == -1

\* "moving": outside; "called": in add_and_sleep(), before the first-call test;
\* "clear" and "stamp": in its branch; "lock": waits for mlock; "sleep": holds it.
Places == {"moving", "called", "clear", "stamp", "lock", "sleep"}

Init ==
  /\ now = 0 /\ last_time = Never /\ allow_bytes = 0
  /\ pc = [w \in Workers |-> "moving"]
  /\ bytes = [w \in Workers |-> 0] /\ wake = [w \in Workers |-> 0]
  /\ calls = 0 /\ counted = 0 /\ forgiven = 0 /\ lost = 0

LockFree == \A w \in Workers : pc[w] # "sleep"

Goto(w, place) == pc' = [pc EXCEPT ![w] = place]

\* do_interleave_move_pages(): a batch has been moved.
Call(w) ==
  /\ pc[w] = "moving" /\ calls < MaxCalls
  /\ \E b \in Batches : bytes' = [bytes EXCEPT ![w] = b]
  /\ calls' = calls + 1
  /\ Goto(w, "called")
  /\ UNCHANGED <<now, last_time, allow_bytes, wake, counted, forgiven, lost>>

TestFirstNever(w) ==
  /\ pc[w] = "called"
  /\ Goto(w, "lock")
  /\ UNCHANGED <<now, last_time, allow_bytes, bytes, wake, calls, counted, forgiven, lost>>

\* if (!last_time.tv_sec && !last_time.tv_usec), without the lock
TestFirst(w) ==
  /\ pc[w] = "called"
  /\ Goto(w, IF last_time = Never THEN "clear" ELSE "lock")
  /\ UNCHANGED <<now, last_time, allow_bytes, bytes, wake, calls, counted, forgiven, lost>>

\* allow_bytes = 0
FirstClear(w) ==
  /\ pc[w] = "clear"
  /\ forgiven' = IF allow_bytes < 0 THEN forgiven - allow_bytes ELSE forgiven
  /\ allow_bytes' = 0
  /\ Goto(w, "stamp")
  /\ UNCHANGED <<now, last_time, bytes, wake, calls, counted, lost>>

\* gettimeofday(&last_time); return
FirstStamp(w) ==
  /\ pc[w] = "stamp"
  /\ last_time' = now
  /\ lost' = IF last_time = Never THEN lost ELSE lost + Rate * (now - last_time)
  /\ Goto(w, "moving")
  /\ UNCHANGED <<now, allow_bytes, bytes, wake, calls, counted, forgiven>>

EarnedWholeSeconds == byteps * ((now - last_time) \div Second)

\* time_delta, at most MAX_TIME_HISTORY
Earned ==
  LET delta == now - last_time
      most == History * Second
  IN  Rate * (IF delta > most THEN most ELSE delta)

SleepForTruncated(balance) ==
  IF balance < 0 THEN Second * ((-balance) \div (2 * byteps)) ELSE 0

\* Ticks to sleep for a balance; whole seconds.
SleepFor(balance) ==
  IF balance < 0 THEN Second * ((-balance) \div byteps) ELSE 0

\* The locked part, up to usleep().
Account(w) ==
  /\ pc[w] = "lock" /\ LockFree
  /\ allow_bytes' = allow_bytes + Earned - bytes[w]
  /\ last_time' = now
  /\ counted' = counted + bytes[w]
  /\ wake' = [wake EXCEPT ![w] = now + SleepFor(allow_bytes')]
  /\ Goto(w, "sleep")
  /\ UNCHANGED <<now, bytes, calls, forgiven, lost>>

WakeInDebt(w) ==
  /\ pc[w] = "sleep" /\ wake[w] <= now /\ allow_bytes < 0
  /\ Goto(w, "moving")
  /\ UNCHANGED <<now, last_time, allow_bytes, bytes, wake, calls, counted, forgiven, lost>>

\* usleep() returns, not before its time, and the lock is released.
Wake(w) ==
  /\ pc[w] = "sleep" /\ wake[w] <= now
  /\ Goto(w, "moving")
  /\ UNCHANGED <<now, last_time, allow_bytes, bytes, wake, calls, counted, forgiven, lost>>

Tick ==
  /\ now < MaxIdle \/ \E w \in Workers : pc[w] = "sleep" /\ now < wake[w]
  /\ now' = now + 1
  /\ UNCHANGED <<last_time, allow_bytes, pc, bytes, wake, calls, counted, forgiven, lost>>

Step(w) ==
  \/ Call(w) \/ TestFirst(w) \/ FirstClear(w) \/ FirstStamp(w) \/ Account(w) \/ Wake(w)

Next == Tick \/ \E w \in Workers : Step(w)

\* Every call runs on, and time passes; a new call need not come.
Fairness ==
  /\ WF_vars(Tick)
  /\ \A w \in Workers : WF_vars(pc[w] # "moving" /\ Step(w))

Spec == Init /\ [][Next]_vars
FairSpec == Spec /\ Fairness

-----------------------------------------------------------------------------
(* Properties.                                                             *)

\* Type correctness; the code's variables agree on whether the first call is over.
TypeOK ==
  /\ now \in Nat /\ last_time \in (0..now) \cup {Never} /\ allow_bytes \in Int
  /\ pc \in [Workers -> Places]
  /\ bytes \in [Workers -> Batches \cup {0}] /\ wake \in [Workers -> Nat]
  /\ calls \in 0..MaxCalls /\ counted \in Nat /\ forgiven \in Nat /\ lost \in Nat
  /\ \A w \in Workers : pc[w] \in {"lock", "sleep"} => last_time # Never

\* "migration speed throttler, Mb per second" (tests/sys-refs-example-config.yaml:6):
\* whenever nobody sleeps, the bytes charged were earned in the time passed, but for
\* the rest of a second that integer division does not sleep and for the debt that
\* late first calls erased.
Throttled ==
  LockFree => counted < Rate * now + byteps + forgiven

\* A sleep repays its debt although the time it took is capped when it is credited:
\* debt does not grow from call to call, so a worker sleeps for its own batch and one
\* second at most, and for what late first calls dropped.
DebtBounded == allow_bytes > -(History * byteps + byteps + lost)

\* add_and_sleep() returns, although every caller waits for the sleep of others.
CallsReturn == \A w \in Workers : pc[w] = "called" ~> pc[w] = "moving"
=============================================================================
