--------------------------- MODULE ScanPoolProofs ---------------------------
(***************************************************************************)
(* Proofs about ScanPool, for every number of ranges and threads, every    *)
(* configuration, and every number of rounds, walks and signals.           *)
(***************************************************************************)
EXTENDS ScanPool, FiniteSetTheorems, SequenceTheorems, TLAPS

\* A worker runs jobs of the queue and hands back jobs of ranges.
WorkerJobs ==
  \A w \in Workers : /\ At(w, "job") => worker[w].job \in Jobs
                     /\ At(w, "push") => worker[w].job \in RangeJobs

TypeInv == TypeOK /\ WorkerJobs

-----------------------------------------------------------------------------
(* Type correctness.                                                       *)

\* A job is a range's unless it ends the thread.
LEMMA JobsOfRanges ==
  ASSUME NEW j \in Jobs, j.intent # "quit"
  PROVE  j \in RangeJobs
  BY DEF Jobs, QuitJob, Job

\* Collections are sequences of ranges, each of them once.
LEMMA ArrangementsAreSequences ==
  ASSUME NEW s \in Arrangements
  PROVE  /\ s \in Seq(Ranges)
         /\ \A i, j \in DOMAIN s : i # j => s[i] # s[j]
  <1>1. Cardinality(Ranges) \in Nat
    BY ScanPoolAssumption, FS_CardinalityType
  <1>2. PICK n \in 0..Cardinality(Ranges) : s \in [1..n -> Ranges]
    BY DEF Arrangements
  <1>3. n \in Nat
    BY <1>1, <1>2
  <1>4. s \in Seq(Ranges)
    BY <1>2, <1>3
  <1>5. DOMAIN s = 1..n
    BY <1>2
  <1>6. \A i, j \in DOMAIN s : i < j => s[i] < s[j]
    BY DEF Arrangements
  <1>7. \A i \in DOMAIN s : s[i] \in Nat
    BY <1>2, <1>5, ScanPoolAssumption
  <1>8. ASSUME NEW i \in DOMAIN s, NEW j \in DOMAIN s, i # j PROVE s[i] # s[j]
    <2>1. i \in Int /\ j \in Int
      BY <1>3, <1>5
    <2>2. CASE i < j
      BY <1>6, <1>7, <2>2
    <2>3. CASE j < i
      BY <1>6, <1>7, <2>3
    <2> QED
      BY <1>8, <2>1, <2>2, <2>3
  <1> QED
    BY <1>4, <1>8

\* A step of a thread that only moves it to another place that needs no job.
LEMMA GoType ==
  ASSUME TypeInv, NEW w \in Workers, NEW where \in {"pop", "wait", "notify", "quit"}, Go(w, where)
  PROVE  /\ worker' \in [Workers -> [at : WorkerPlaces, job : Jobs \cup {NoJob}]]
         /\ WorkerJobs'
  <1>1. worker \in [Workers -> [at : WorkerPlaces, job : Jobs \cup {NoJob}]]
    BY DEF TypeInv, TypeOK
  <1>2. worker' = [worker EXCEPT ![w].at = where]
    BY DEF Go
  <1>3. where \in WorkerPlaces
    BY DEF WorkerPlaces
  <1>4. worker' \in [Workers -> [at : WorkerPlaces, job : Jobs \cup {NoJob}]]
    BY <1>1, <1>2, <1>3
  <1>5. \A v \in Workers : worker'[v] = worker[v] \/ worker'[v].at = where
    BY <1>1, <1>2
  <1> QED
    BY <1>4, <1>5 DEF TypeInv, WorkerJobs, At

\* What consumer_job() does to a range keeps the types.
LEMMA DoJobType ==
  ASSUME TypeOK, NEW j \in RangeJobs, DoJob(j)
  PROVE  /\ walks' \in [Ranges -> Nat] /\ io_error' \subseteq Ranges
         /\ located' \in [Ranges -> Nat]
  <1>1. walks \in [Ranges -> Nat] /\ io_error \subseteq Ranges /\ located \in [Ranges -> Nat]
    BY DEF TypeOK
  <1>2. j.range \in Ranges
    BY DEF RangeJobs
  <1>3. CASE j.intent = "walk"
    <2>1. Walk(j.range)
      BY <1>3 DEF DoJob
    <2> QED
      BY <1>1, <1>2, <2>1 DEF Walk, DoJob
  <1>4. CASE j.intent # "walk"
    BY <1>1, <1>4 DEF DoJob
  <1> QED
    BY <1>3, <1>4

\* NotifyOne wakes one of the waiting threads or changes nothing.
LEMMA NotifyOneType ==
  ASSUME TypeInv, NotifyOne
  PROVE  /\ worker' \in [Workers -> [at : WorkerPlaces, job : Jobs \cup {NoJob}]]
         /\ WorkerJobs'
  <1>1. CASE UNCHANGED worker
    BY <1>1 DEF TypeInv, TypeOK, WorkerJobs, At
  <1>2. CASE \E w \in Waiting : Go(w, "pop")
    <2>1. PICK w \in Workers : Go(w, "pop")
      BY <1>2 DEF Waiting
    <2> QED
      BY <2>1, GoType
  <1> QED
    BY <1>1, <1>2 DEF NotifyOne

\* The program starts in a state of the right types.
LEMMA InitType == Init => TypeInv
  <1> SUFFICES ASSUME Init PROVE TypeInv
    OBVIOUS
  <1>1. /\ worker \in [Workers -> [at : WorkerPlaces, job : Jobs \cup {NoJob}]]
        /\ walks \in [Ranges -> Nat] /\ located \in [Ranges -> Nat]
    BY DEF Init, WorkerPlaces
  <1>2. signals \in 0..MaxSignals /\ pc \in MainPlaces /\ intent \in Intents
    BY ScanPoolAssumption DEF Init, MainPlaces, Intents
  <1>3. TypeOK
    <2>1. /\ idle_ranges \in Seq(Ranges) /\ work_queue \in Seq(Jobs) /\ done_queue \in Seq(RangeJobs)
      BY EmptySeq DEF Init
    <2>2. next \in Nat \ {0} /\ taken \in Ranges \cup {None} /\ option \in InitialConfs \cup ReloadedConfs
      BY DEF Init
    <2> QED
      BY <1>1, <1>2, <2>1, <2>2 DEF Init, TypeOK
  <1>4. WorkerJobs
    BY DEF Init, WorkerJobs, At
  <1> QED
    BY <1>3, <1>4 DEF TypeInv

\* The steps of the threads.
LEMMA WorkerStepType ==
  ASSUME TypeInv, NEW w \in Workers, WorkerStep(w) \/ WakeSpuriously(w)
  PROVE  TypeInv'
  <1> USE DEF TypeInv
  <1>0. /\ worker \in [Workers -> [at : WorkerPlaces, job : Jobs \cup {NoJob}]]
        /\ work_queue \in Seq(Jobs) /\ done_queue \in Seq(RangeJobs)
    BY DEF TypeOK
  <1>1. CASE TakeJob(w)
    <2>1. CASE work_queue # <<>>
      <3>1. Head(work_queue) \in Jobs /\ Tail(work_queue) \in Seq(Jobs)
        BY <1>0, <2>1
      <3>2. worker' = [worker EXCEPT ![w] = [at |-> "job", job |-> Head(work_queue)]]
        BY <1>1, <2>1 DEF TakeJob
      <3>3. worker' \in [Workers -> [at : WorkerPlaces, job : Jobs \cup {NoJob}]]
        BY <1>0, <3>1, <3>2 DEF WorkerPlaces
      <3>4. WorkerJobs'
        BY <1>0, <3>1, <3>2 DEF WorkerJobs, At
      <3> QED
        BY <1>1, <2>1, <3>1, <3>3, <3>4
        DEF TakeJob, TypeOK, confVars, loopVars, jobVars, rangeVars
    <2>2. CASE work_queue = <<>>
      <3>1. Go(w, "wait")
        BY <1>1, <2>2 DEF TakeJob
      <3> QED
        BY <1>1, <2>2, <3>1, GoType DEF TakeJob, TypeOK, confVars, loopVars, jobVars, rangeVars
    <2> QED
      BY <2>1, <2>2
  <1>2. CASE RunJob(w)
    <2>1. CASE worker[w].job.intent = "quit"
      <3>1. Go(w, "quit")
        BY <1>2, <2>1 DEF RunJob
      <3> QED
        BY <1>2, <2>1, <3>1, GoType
        DEF RunJob, TypeOK, confVars, loopVars, jobVars, queueVars, rangeVars
    <2>2. CASE worker[w].job.intent # "quit"
      <3>1. worker[w].job \in RangeJobs
        BY <1>2, <2>2, JobsOfRanges DEF RunJob, WorkerJobs
      <3>2. worker' = [worker EXCEPT ![w].at = "push"] /\ DoJob(worker[w].job)
        BY <1>2, <2>2 DEF RunJob, Go
      <3>3. worker' \in [Workers -> [at : WorkerPlaces, job : Jobs \cup {NoJob}]]
        BY <1>0, <3>2 DEF WorkerPlaces
      <3>4. WorkerJobs'
        BY <1>0, <3>1, <3>2 DEF WorkerJobs, At
      <3> QED
        BY <1>2, <3>1, <3>2, <3>3, <3>4, DoJobType
        DEF RunJob, TypeOK, confVars, loopVars, jobVars, queueVars
    <2> QED
      BY <2>1, <2>2
  <1>3. CASE PushDone(w)
    <2>1. worker[w].job \in RangeJobs /\ Go(w, "notify")
      BY <1>3 DEF PushDone, WorkerJobs
    <2>2. done_queue' \in Seq(RangeJobs)
      BY <1>0, <1>3, <2>1 DEF PushDone
    <2> QED
      BY <1>3, <2>1, <2>2, GoType DEF PushDone, TypeOK, confVars, loopVars, jobVars, rangeVars
  <1>4. CASE NotifyMain(w)
    <2>1. worker' = [worker EXCEPT ![w] = [at |-> "pop", job |-> NoJob]]
      BY <1>4 DEF NotifyMain
    <2>2. worker' \in [Workers -> [at : WorkerPlaces, job : Jobs \cup {NoJob}]]
      BY <1>0, <2>1 DEF WorkerPlaces
    <2>3. WorkerJobs'
      BY <1>0, <2>1 DEF WorkerJobs, At
    <2>4. pc' \in MainPlaces
      BY <1>4 DEF NotifyMain, TypeOK, MainPlaces
    <2> QED
      BY <1>4, <2>2, <2>3, <2>4
      DEF NotifyMain, TypeOK, confVars, loopVars, jobVars, queueVars, rangeVars
  <1>5. CASE WakeSpuriously(w)
    <2>1. Go(w, "pop")
      BY <1>5 DEF WakeSpuriously
    <2> QED
      BY <1>5, <2>1, GoType
      DEF WakeSpuriously, TypeOK, confVars, loopVars, jobVars, queueVars, rangeVars
  <1> QED
    BY <1>1, <1>2, <1>3, <1>4, <1>5 DEF WorkerStep

\* The steps of the main thread.
LEMMA MainStepType ==
  ASSUME TypeInv, MainStep
  PROVE  TypeInv'
  <1> USE DEF confVars, loopVars, jobVars, queueVars, rangeVars, MainPlaces
  <1>0. TypeOK /\ WorkerJobs
    BY DEF TypeInv
  <1>1. CASE CreateThreads
    <2>1. worker' \in [Workers -> [at : WorkerPlaces, job : Jobs \cup {NoJob}]]
      BY <1>1 DEF CreateThreads, WorkerPlaces
    <2>2. WorkerJobs'
      BY <1>1 DEF CreateThreads, WorkerJobs, At
    <2> QED
      BY <1>0, <1>1, <2>1, <2>2 DEF CreateThreads, TypeOK, TypeInv
  <1>2. ASSUME UNCHANGED worker, TypeOK' PROVE TypeInv'
    BY <1>0, <1>2 DEF TypeInv, WorkerJobs, At
  <1>3. CASE BeginRound
    BY <1>0, <1>2, <1>3 DEF BeginRound, TypeOK
  <1>4. CASE ReloadConf
    BY <1>0, <1>2, <1>4 DEF ReloadConf, TypeOK
  <1>5. CASE Collect
    <2>1. idle_ranges' \in Seq(Ranges)
      BY <1>5, ArrangementsAreSequences DEF Collect
    <2>2. /\ walks' \in [Ranges -> Nat] /\ io_error' \subseteq Ranges
          /\ located' \in [Ranges -> Nat]
      BY <1>5 DEF Collect
    <2>3. pc' \in MainPlaces /\ nround' \in Nat /\ nr_walks' \in Nat
      BY <1>0, <1>5 DEF Collect, TypeOK
    <2> QED
      BY <1>0, <1>2, <1>5, <2>1, <2>2, <2>3 DEF Collect, TypeOK
  <1>6. CASE BeginScans
    BY <1>0, <1>2, <1>6 DEF BeginScans, TypeOK
  <1>7. CASE BeginScan
    BY <1>0, <1>2, <1>7 DEF BeginScan, BeginBatch, TypeOK, Intents
  <1>8. CASE PushJob
    <2>1. idle_ranges[next] \in Ranges
      BY <1>0, <1>8 DEF PushJob, TypeOK
    <2>2. Job(intent, idle_ranges[next]) \in Jobs
      BY <1>0, <2>1 DEF Job, Jobs, RangeJobs, TypeOK
    <2>3. work_queue' \in Seq(Jobs)
      BY <1>0, <1>8, <2>2 DEF PushJob, TypeOK
    <2> QED
      BY <1>0, <1>2, <1>8, <2>3 DEF PushJob, TypeOK
  <1>9. CASE NotifyWorker
    <2>1. NotifyOne
      BY <1>9 DEF NotifyWorker
    <2> QED
      BY <1>0, <1>9, <2>1, NotifyOneType DEF NotifyWorker, TypeOK, TypeInv
  <1>10. CASE RunJobInline
    <2>1. idle_ranges[next] \in Ranges
      BY <1>0, <1>10 DEF RunJobInline, TypeOK
    <2>2. Job(intent, idle_ranges[next]) \in RangeJobs
      BY <1>0, <2>1 DEF Job, RangeJobs, TypeOK
    <2>3. DoJob(Job(intent, idle_ranges[next]))
      BY <1>10 DEF RunJobInline
    <2>4. done_queue' \in Seq(RangeJobs) /\ nr' \in Nat
      <3> DEFINE job == Job(intent, idle_ranges[next])
      <3>1. job \in RangeJobs /\ done_queue \in Seq(RangeJobs) /\ nr \in Nat
        BY <1>0, <2>2 DEF TypeOK
      <3>2. \/ done_queue' = Append(done_queue, job) /\ nr' = nr + 1
            \/ done_queue' = done_queue /\ nr' = nr
        BY <1>10 DEF RunJobInline
      <3> HIDE DEF job
      <3> QED
        BY <3>1, <3>2
    <2>5. /\ walks' \in [Ranges -> Nat] /\ io_error' \subseteq Ranges
          /\ located' \in [Ranges -> Nat]
      BY <1>0, <2>2, <2>3, DoJobType
    <2>6. next' \in Nat \ {0} /\ UNCHANGED <<pc, confVars, loopVars, idle_ranges, intent, taken, work_queue, worker>>
      BY <1>0, <1>10 DEF RunJobInline, TypeOK
    <2> QED
      BY <1>0, <1>2, <2>4, <2>5, <2>6 DEF TypeOK
  <1>11. CASE AllPushed
    BY <1>0, <1>2, <1>11 DEF AllPushed, TypeOK
  <1>12. CASE TakeDone
    <2>1. done_queue' \in Seq(RangeJobs) /\ nr' \in Nat /\ taken' \in Ranges \cup {None}
      <3>1. CASE done_queue # <<>>
        <4>1. Head(done_queue) \in RangeJobs /\ Tail(done_queue) \in Seq(RangeJobs)
          BY <1>0, <3>1 DEF TypeOK
        <4>2. Head(done_queue).range \in Ranges
          BY <4>1 DEF RangeJobs
        <4>3. /\ taken' = (IF intent = "walk" THEN Head(done_queue).range ELSE None)
              /\ done_queue' = Tail(done_queue) /\ nr' = nr - 1 /\ nr > 0
          BY <1>12, <3>1 DEF TakeDone
        <4>4. nr' \in Nat
          BY <1>0, <4>3 DEF TypeOK
        <4> QED
          BY <4>1, <4>2, <4>3, <4>4
      <3>2. CASE done_queue = <<>>
        BY <1>0, <1>12, <3>2 DEF TakeDone, TypeOK
      <3> QED
        BY <3>1, <3>2
    <2>2. pc' \in MainPlaces
      BY <1>12 DEF TakeDone
    <2> QED
      BY <1>0, <1>2, <1>12, <2>1, <2>2 DEF TakeDone, TypeOK
  <1>13. CASE Gather
    <2>1. located' \in [Ranges -> Nat]
      <3>1. located \in [Ranges -> Nat]
        BY <1>0 DEF TypeOK
      <3>2. located' = located \/ located' = [located EXCEPT ![taken] = @ + 1]
        BY <1>13 DEF Gather
      <3> QED
        BY <3>1, <3>2
    <2> QED
      BY <1>0, <1>2, <1>13, <2>1 DEF Gather, TypeOK
  <1>14. CASE EndScan
    BY <1>0, <1>2, <1>14 DEF EndScan, TypeOK
  <1>15. CASE NextScanRound
    BY <1>0, <1>2, <1>15 DEF NextScanRound, TypeOK
  <1>16. CASE EndScanRounds
    BY <1>0, <1>2, <1>16 DEF EndScanRounds, TypeOK
  <1>17. CASE CountRefs
    BY <1>0, <1>2, <1>17 DEF CountRefs, TypeOK
  <1>18. CASE BeginMigrate
    BY <1>0, <1>2, <1>18 DEF BeginMigrate, BeginBatch, TypeOK, Intents
  <1>19. CASE NextProfile
    BY <1>0, <1>2, <1>19 DEF NextProfile, BeginStop, TypeOK
  <1>20. CASE EndPeriod
    BY <1>0, <1>2, <1>20 DEF EndPeriod, BeginStop, TypeOK
  <1>21. CASE PushQuit
    <2>1. work_queue' \in Seq(Jobs)
      BY <1>0, <1>21 DEF PushQuit, TypeOK, Jobs
    <2> QED
      BY <1>0, <1>2, <1>21, <2>1 DEF PushQuit, TypeOK
  <1>22. CASE NotifyQuit
    <2>1. NotifyOne
      BY <1>22 DEF NotifyQuit
    <2> QED
      BY <1>0, <1>22, <2>1, NotifyOneType DEF NotifyQuit, TypeOK, TypeInv
  <1>23. CASE Join
    BY <1>0, <1>2, <1>23 DEF Join, TypeOK
  <1> QED
    BY <1>1, <1>3, <1>4, <1>5, <1>6, <1>7, <1>8, <1>9, <1>10, <1>11, <1>12, <1>13, <1>14, <1>15,
       <1>16, <1>17, <1>18, <1>19, <1>20, <1>21, <1>22, <1>23
    DEF MainStep

\* Every step of the program keeps the types.
LEMMA NextType == TypeInv /\ [Next]_vars => TypeInv'
  <1> SUFFICES ASSUME TypeInv, [Next]_vars PROVE TypeInv'
    OBVIOUS
  <1> USE DEF confVars, loopVars, jobVars, queueVars, rangeVars
  <1>1. CASE MainWakesSpuriously
    BY <1>1 DEF MainWakesSpuriously, TypeInv, TypeOK, WorkerJobs, At, MainPlaces
  <1>2. CASE Signal
    <2>1. signals' \in 0..MaxSignals
      BY <1>2, ScanPoolAssumption DEF Signal, TypeInv, TypeOK
    <2> QED
      BY <1>2, <2>1 DEF Signal, TypeInv, TypeOK, WorkerJobs, At
  <1>3. CASE UNCHANGED vars
    BY <1>3 DEF vars, TypeInv, TypeOK, WorkerJobs, At
  <1> QED
    BY <1>1, <1>2, <1>3, MainStepType, WorkerStepType DEF Next, Finished

\* Main thread, queues, threads and ranges keep their types (types of GlobalScan.h).
THEOREM TypeCorrect == Spec => []TypeOK
  <1>1. Spec => []TypeInv
    BY InitType, NextType, PTL DEF Spec
  <1>2. TypeInv => TypeOK
    BY DEF TypeInv
  <1> QED
    BY <1>1, <1>2, PTL

-----------------------------------------------------------------------------
(* Where the jobs are.                                                     *)

\* Threads that hold a job, and the end of the loop.
Busy == {w \in Workers : At(w, "job") \/ At(w, "push")}
Stopping == pc \in {"stop", "notify_quit", "done"}

\* Until the loop stops, nr counts the jobs that are queued, held or done; after
\* it there are jobs to quit only.
Accounts ==
  /\ pc \notin BatchPlaces => nr = 0
  /\ ~Stopping => /\ work_queue \in Seq(RangeJobs)
                  /\ \A w \in Busy : worker[w].job \in RangeJobs
                  /\ \A w \in Workers : ~At(w, "quit")
                  /\ nr = Len(work_queue) + Cardinality(Busy) + Len(done_queue)
  /\ Stopping => /\ done_queue = <<>>
                 /\ \A i \in DOMAIN work_queue : work_queue[i] = QuitJob
                 /\ \A w \in Busy : At(w, "job") /\ worker[w].job = QuitJob

\* Threads with a job can be counted.
LEMMA BusyFinite == IsFiniteSet(Busy) /\ Cardinality(Busy) \in Nat
  <1>1. Busy \subseteq Workers
    BY DEF Busy
  <1> QED
    BY <1>1, ScanPoolAssumption, FS_Subset, FS_CardinalityType

\* Without a job on its way, queues are empty and no thread is busy.
LEMMA Idle ==
  ASSUME TypeInv, Accounts, ~Stopping, nr = 0
  PROVE  work_queue = <<>> /\ done_queue = <<>> /\ Busy = {}
  <1>1. work_queue \in Seq(RangeJobs) /\ done_queue \in Seq(RangeJobs)
    BY DEF TypeInv, TypeOK, Accounts
  <1>2. Len(work_queue) \in Nat /\ Len(done_queue) \in Nat
    BY <1>1
  <1>3. 0 = Len(work_queue) + Cardinality(Busy) + Len(done_queue)
    BY DEF Accounts
  <1>4. Len(work_queue) = 0 /\ Len(done_queue) = 0 /\ Cardinality(Busy) = 0
    BY <1>2, <1>3, BusyFinite
  <1>5. Busy = {}
    BY <1>4, BusyFinite, FS_EmptySet
  <1> QED
    BY <1>1, <1>4, <1>5, EmptySeq

\* A thread without a job goes to a place without a job.
LEMMA SameBusy ==
  ASSUME TypeInv, NEW w \in Workers, w \notin Busy, ~At(w, "quit"),
         \A v \in Workers \ {w} : worker'[v] = worker[v],
         worker'[w].at \in {"pop", "wait"}
  PROVE  /\ Busy' = Busy
         /\ \A v \in Busy : worker'[v] = worker[v]
         /\ \A v \in Workers : At(v, "quit")' <=> At(v, "quit")
  BY DEF Busy, At

\* The queues and the threads stay as they are.
LEMMA AccountsFrame ==
  ASSUME TypeInv, Accounts, UNCHANGED <<work_queue, done_queue, nr>>,
         Busy' = Busy, \A v \in Busy : worker'[v] = worker[v],
         \A v \in Workers : At(v, "quit")' <=> At(v, "quit"),
         pc' \notin BatchPlaces => nr = 0,
         Stopping => Stopping', Stopping' => Stopping \/ nr = 0
  PROVE  Accounts'
  <1>1. CASE ~Stopping'
    BY <1>1 DEF Accounts
  <1>2. CASE Stopping
    BY <1>2 DEF Accounts, At, Busy, Stopping, BatchPlaces
  <1>3. CASE Stopping' /\ ~Stopping
    <2>1. work_queue = <<>> /\ done_queue = <<>> /\ Busy = {}
      BY <1>3, Idle
    <2> QED
      BY <1>3, <2>1 DEF Accounts
  <1> QED
    BY <1>1, <1>2, <1>3

\* NotifyOne moves no job.
LEMMA NotifyOneBusy ==
  ASSUME TypeInv, NotifyOne
  PROVE  /\ Busy' = Busy
         /\ \A v \in Busy : worker'[v] = worker[v]
         /\ \A v \in Workers : At(v, "quit")' <=> At(v, "quit")
  <1>1. CASE UNCHANGED worker
    BY <1>1 DEF Busy, At
  <1>2. CASE \E w \in Waiting : Go(w, "pop")
    <2>1. PICK w \in Workers : At(w, "wait") /\ Go(w, "pop")
      BY <1>2 DEF Waiting
    <2>2. worker \in [Workers -> [at : WorkerPlaces, job : Jobs \cup {NoJob}]]
      BY DEF TypeInv, TypeOK
    <2>3. w \notin Busy /\ ~At(w, "quit")
      BY <2>1 DEF Busy, At
    <2>4. worker'[w].at = "pop" /\ \A v \in Workers \ {w} : worker'[v] = worker[v]
      BY <2>1, <2>2 DEF Go
    <2> QED
      BY <2>3, <2>4, SameBusy
  <1> QED
    BY <1>1, <1>2 DEF NotifyOne

\* The steps of the threads.
LEMMA WorkerStepAccounts ==
  ASSUME TypeInv, Accounts, NEW w \in Workers, WorkerStep(w) \/ WakeSpuriously(w)
  PROVE  Accounts'
  <1> USE DEF jobVars, queueVars
  <1>0. /\ worker \in [Workers -> [at : WorkerPlaces, job : Jobs \cup {NoJob}]]
        /\ work_queue \in Seq(Jobs) /\ done_queue \in Seq(RangeJobs) /\ nr \in Nat
    BY DEF TypeInv, TypeOK
  <1>1. CASE TakeJob(w)
    <2>1. CASE work_queue # <<>>
      <3>1. /\ worker' = [worker EXCEPT ![w] = [at |-> "job", job |-> Head(work_queue)]]
            /\ work_queue' = Tail(work_queue) /\ At(w, "pop")
            /\ UNCHANGED <<pc, nr, done_queue>>
        BY <1>1, <2>1 DEF TakeJob
      <3>2. /\ Busy' = Busy \cup {w} /\ w \notin Busy
            /\ worker'[w].job = Head(work_queue)
            /\ \A v \in Busy : worker'[v] = worker[v]
            /\ \A v \in Workers : At(v, "quit")' <=> At(v, "quit")
        BY <1>0, <3>1 DEF Busy, At
      <3>3. Cardinality(Busy') = Cardinality(Busy) + 1
        BY <3>2, BusyFinite, FS_AddElement
      <3>4. Len(Tail(work_queue)) = Len(work_queue) - 1 /\ Len(work_queue) \in Nat
        BY <1>0, <2>1
      <3>5. CASE ~Stopping
        <4>1. work_queue \in Seq(RangeJobs)
          BY <3>5 DEF Accounts
        <4>2. Head(work_queue) \in RangeJobs /\ Tail(work_queue) \in Seq(RangeJobs)
          BY <2>1, <4>1
        <4>3. nr = Len(work_queue) + Cardinality(Busy) + Len(done_queue)
          BY <3>5 DEF Accounts
        <4>4. Len(done_queue) \in Nat
          BY <1>0
        <4>5. nr' = Len(work_queue') + Cardinality(Busy') + Len(done_queue')
          <5>1. Len(work_queue') = Len(work_queue) - 1
            BY <3>1, <3>4
          <5>2. nr' = nr /\ Len(done_queue') = Len(done_queue)
            BY <3>1
          <5> QED
            BY <3>3, <3>4, <4>3, <4>4, <5>1, <5>2, BusyFinite
        <4>6. \A v \in Busy' : worker'[v].job \in RangeJobs
          BY <3>2, <3>5, <4>2 DEF Accounts
        <4>7. ~Stopping' /\ \A v \in Workers : ~At(v, "quit")'
          BY <3>1, <3>2, <3>5 DEF Stopping, Accounts
        <4>8. pc' \notin BatchPlaces => nr' = 0
          BY <3>1 DEF Accounts
        <4> QED
          BY <3>1, <4>2, <4>5, <4>6, <4>7, <4>8 DEF Accounts
      <3>6. CASE Stopping
        <4>1. \A i \in DOMAIN work_queue : work_queue[i] = QuitJob
          BY <3>6 DEF Accounts
        <4>2. Head(work_queue) = QuitJob
          BY <1>0, <2>1, <4>1
        <4>3. \A i \in DOMAIN Tail(work_queue) : Tail(work_queue)[i] = QuitJob
          BY <1>0, <2>1, <4>1
        <4>4. At(w, "job")'
          BY <1>0, <3>1 DEF At
        <4>5. \A v \in Busy' : At(v, "job")' /\ worker'[v].job = QuitJob
          BY <3>2, <3>6, <4>2, <4>4 DEF Accounts, At
        <4>6. Stopping' /\ (pc' \notin BatchPlaces => nr' = 0) /\ done_queue' = <<>>
          BY <3>1, <3>6 DEF Stopping, Accounts
        <4> QED
          BY <3>1, <4>3, <4>5, <4>6 DEF Accounts
      <3> QED
        BY <3>5, <3>6
    <2>2. CASE work_queue = <<>>
      <3>1. Go(w, "wait") /\ At(w, "pop") /\ UNCHANGED <<pc, nr, queueVars>>
        BY <1>1, <2>2 DEF TakeJob
      <3>2. w \notin Busy /\ ~At(w, "quit")
        BY <3>1 DEF Busy, At
      <3>3. worker'[w].at = "wait" /\ \A v \in Workers \ {w} : worker'[v] = worker[v]
        BY <1>0, <3>1 DEF Go
      <3>4. /\ Busy' = Busy /\ \A v \in Busy : worker'[v] = worker[v]
            /\ \A v \in Workers : At(v, "quit")' <=> At(v, "quit")
        BY <3>2, <3>3, SameBusy
      <3>5. (pc' \notin BatchPlaces => nr = 0) /\ Stopping' = Stopping
        BY <3>1 DEF Accounts, Stopping
      <3> QED
        BY <3>1, <3>4, <3>5, AccountsFrame
    <2> QED
      BY <2>1, <2>2
  <1>2. CASE RunJob(w)
    <2>0. w \in Busy /\ UNCHANGED <<pc, nr, queueVars>>
      BY <1>2 DEF RunJob, Busy
    <2>1. CASE worker[w].job.intent = "quit"
      <3>1. worker' = [worker EXCEPT ![w].at = "quit"]
        BY <1>2, <2>1 DEF RunJob, Go
      <3>2. worker[w].job \notin RangeJobs
        BY <2>1 DEF RangeJobs, Intents
      <3>3. Stopping /\ Stopping'
        BY <2>0, <3>2 DEF Accounts, Stopping
      <3>4. Busy' = Busy \ {w} /\ \A v \in Busy \ {w} : worker'[v] = worker[v]
        BY <1>0, <3>1 DEF Busy, At
      <3> QED
        BY <2>0, <3>3, <3>4 DEF Accounts, At
    <2>2. CASE worker[w].job.intent # "quit"
      <3>1. worker' = [worker EXCEPT ![w].at = "push"]
        BY <1>2, <2>2 DEF RunJob, Go
      <3>2. worker[w].job # QuitJob
        BY <2>2 DEF QuitJob, Job
      <3>3. ~Stopping /\ ~Stopping'
        BY <2>0, <3>2 DEF Accounts, Stopping
      <3>4. /\ Busy' = Busy /\ \A v \in Busy : worker'[v].job = worker[v].job
            /\ \A v \in Workers : At(v, "quit")' <=> At(v, "quit")
        BY <1>0, <1>2, <3>1 DEF Busy, At, RunJob
      <3> QED
        BY <2>0, <3>3, <3>4 DEF Accounts
    <2> QED
      BY <2>1, <2>2
  <1>3. CASE PushDone(w)
    <2>1. /\ At(w, "push") /\ worker' = [worker EXCEPT ![w].at = "notify"]
          /\ done_queue' = Append(done_queue, worker[w].job) /\ UNCHANGED <<pc, nr, work_queue>>
      BY <1>3 DEF PushDone, Go
    <2>2. w \in Busy /\ ~At(w, "job")
      BY <2>1 DEF Busy, At
    <2>3. ~Stopping /\ ~Stopping'
      BY <2>1, <2>2 DEF Accounts, Stopping
    <2>4. /\ Busy' = Busy \ {w} /\ \A v \in Busy \ {w} : worker'[v] = worker[v]
          /\ \A v \in Workers : At(v, "quit")' => At(v, "quit")
      BY <1>0, <2>1 DEF Busy, At
    <2>5. Cardinality(Busy') = Cardinality(Busy) - 1
      BY <2>2, <2>4, BusyFinite, FS_RemoveElement
    <2>6. Len(done_queue') = Len(done_queue) + 1 /\ Len(done_queue) \in Nat /\ Len(work_queue) \in Nat
      BY <1>0, <2>1
    <2>7. nr' = Len(work_queue') + Cardinality(Busy') + Len(done_queue')
      <3>1. nr = Len(work_queue) + Cardinality(Busy) + Len(done_queue)
        BY <2>3 DEF Accounts
      <3>2. nr' = nr /\ Len(work_queue') = Len(work_queue)
        BY <2>1
      <3> QED
        BY <2>5, <2>6, <3>1, <3>2, BusyFinite
    <2> QED
      BY <2>1, <2>3, <2>4, <2>7 DEF Accounts
  <1>4. CASE NotifyMain(w) \/ WakeSpuriously(w)
    <2>1. UNCHANGED <<nr, queueVars>> /\ (At(w, "notify") \/ At(w, "wait"))
      BY <1>4 DEF NotifyMain, WakeSpuriously
    <2>2. worker'[w].at = "pop" /\ \A v \in Workers \ {w} : worker'[v] = worker[v]
      BY <1>0, <1>4 DEF NotifyMain, WakeSpuriously, Go
    <2>3. pc' = pc \/ (pc = "wait" /\ pc' = "pop")
      BY <1>4 DEF NotifyMain, WakeSpuriously
    <2>4. (pc' \notin BatchPlaces => nr = 0) /\ Stopping' = Stopping
      BY <2>3 DEF Accounts, Stopping, BatchPlaces
    <2>5. w \notin Busy /\ ~At(w, "quit")
      BY <2>1 DEF Busy, At
    <2>6. /\ Busy' = Busy /\ \A v \in Busy : worker'[v] = worker[v]
          /\ \A v \in Workers : At(v, "quit")' <=> At(v, "quit")
      BY <2>2, <2>5, SameBusy
    <2> QED
      BY <2>1, <2>4, <2>6, AccountsFrame
  <1> QED
    BY <1>1, <1>2, <1>3, <1>4 DEF WorkerStep

\* The steps of the main thread.
LEMMA MainStepAccounts ==
  ASSUME TypeInv, Accounts, MainStep
  PROVE  Accounts'
  <1> USE DEF jobVars, queueVars
  <1>0. /\ worker \in [Workers -> [at : WorkerPlaces, job : Jobs \cup {NoJob}]]
        /\ work_queue \in Seq(Jobs) /\ done_queue \in Seq(RangeJobs) /\ nr \in Nat
        /\ idle_ranges \in Seq(Ranges) /\ intent \in Intents /\ next \in Nat \ {0}
    BY DEF TypeInv, TypeOK
  <1>a. UNCHANGED worker =>
          /\ Busy' = Busy /\ \A v \in Busy : worker'[v] = worker[v]
          /\ \A v \in Workers : At(v, "quit")' <=> At(v, "quit")
    BY DEF Busy, At
  <1>b. Len(work_queue) \in Nat /\ Len(done_queue) \in Nat
    BY <1>0
  <1>1. CASE CreateThreads
    <2>1. /\ pc = "create" /\ pc' = "round" /\ UNCHANGED <<nr, work_queue, done_queue>>
          /\ \A w \in Workers : worker'[w].at \in {"pop", "absent"}
      BY <1>1 DEF CreateThreads
    <2>2. ~Stopping /\ ~Stopping' /\ nr = 0
      BY <2>1 DEF Stopping, Accounts, BatchPlaces
    <2>3. work_queue = <<>> /\ done_queue = <<>>
      BY <2>2, Idle
    <2>4. Busy' = {} /\ \A w \in Workers : ~At(w, "quit")'
      BY <2>1 DEF Busy, At
    <2>5. work_queue' \in Seq(RangeJobs) /\ Len(work_queue') = 0 /\ Len(done_queue') = 0
      BY <2>1, <2>3
    <2>6. Cardinality(Busy') = 0
      BY <2>4, FS_EmptySet
    <2>7. nr' = 0
      BY <2>1, <2>2
    <2> QED
      BY <2>2, <2>4, <2>5, <2>6, <2>7 DEF Accounts
  <1>2. CASE \/ BeginRound \/ ReloadConf \/ Collect \/ BeginScans \/ NextScanRound
             \/ EndScanRounds \/ CountRefs
    <2>1. /\ pc \notin BatchPlaces /\ pc' \notin BatchPlaces /\ ~Stopping
          /\ UNCHANGED <<nr, queueVars, worker>>
      BY <1>2 DEF BeginRound, ReloadConf, Collect, BeginScans, NextScanRound, EndScanRounds,
                  CountRefs, BatchPlaces, Stopping
    <2>2. nr = 0
      BY <2>1 DEF Accounts
    <2> QED
      BY <1>a, <2>1, <2>2, AccountsFrame
  <1>3. CASE BeginScan \/ BeginMigrate
    <2>1. /\ pc \notin BatchPlaces /\ pc' = "push" /\ ~Stopping /\ nr' = 0
          /\ UNCHANGED <<queueVars, worker>>
      BY <1>3 DEF BeginScan, BeginMigrate, BeginBatch, BatchPlaces, Stopping
    <2>2. nr = 0
      BY <2>1 DEF Accounts
    <2>3. ~Stopping' /\ pc' \in BatchPlaces
      BY <2>1 DEF Stopping, BatchPlaces
    <2> QED
      BY <1>a, <2>1, <2>2, <2>3, AccountsFrame
  <1>4. CASE AllPushed \/ Gather
    <2>1. /\ pc' = "pop" /\ ~Stopping /\ UNCHANGED <<nr, queueVars, worker>>
      BY <1>4 DEF AllPushed, Gather, Stopping
    <2>2. ~Stopping' /\ pc' \in BatchPlaces
      BY <2>1 DEF Stopping, BatchPlaces
    <2> QED
      BY <1>a, <2>1, <2>2, AccountsFrame
  <1>5. CASE EndScan \/ NextProfile \/ EndPeriod
    <2>1. /\ nr = 0 /\ ~Stopping /\ UNCHANGED <<nr, queueVars, worker>>
      BY <1>5 DEF EndScan, NextProfile, EndPeriod, BatchOver, Stopping
    <2> QED
      BY <1>a, <2>1, AccountsFrame
  <1>6. CASE Join
    <2>1. Stopping /\ Stopping' /\ UNCHANGED <<nr, queueVars, worker>> /\ pc \notin BatchPlaces
      BY <1>6 DEF Join, Stopping, BatchPlaces
    <2> QED
      BY <1>a, <2>1, AccountsFrame DEF Accounts
  <1>7. CASE NotifyWorker \/ NotifyQuit
    <2>1. NotifyOne /\ UNCHANGED <<nr, queueVars>>
      BY <1>7 DEF NotifyWorker, NotifyQuit
    <2>2. (pc' \notin BatchPlaces => nr = 0) /\ Stopping' = Stopping
      BY <1>7 DEF NotifyWorker, NotifyQuit, BatchPlaces, Stopping, Accounts
    <2> QED
      BY <2>1, <2>2, NotifyOneBusy, AccountsFrame
  <1>8. CASE PushJob
    <2>1. /\ pc = "push" /\ pc' = "notify" /\ next <= Len(idle_ranges)
          /\ work_queue' = Append(work_queue, Job(intent, idle_ranges[next]))
          /\ nr' = nr + 1 /\ UNCHANGED <<done_queue, worker>>
      BY <1>8 DEF PushJob
    <2>2. ~Stopping /\ ~Stopping' /\ pc' \in BatchPlaces
      BY <2>1 DEF Stopping, BatchPlaces
    <2>3. Job(intent, idle_ranges[next]) \in RangeJobs
      <3>1. idle_ranges[next] \in Ranges
        BY <1>0, <2>1
      <3> QED
        BY <1>0, <3>1 DEF RangeJobs, Job
    <2>4. work_queue \in Seq(RangeJobs) /\ nr = Len(work_queue) + Cardinality(Busy) + Len(done_queue)
      BY <2>2 DEF Accounts
    <2>5. work_queue' \in Seq(RangeJobs) /\ Len(work_queue') = Len(work_queue) + 1
      BY <2>1, <2>3, <2>4
    <2>6. Cardinality(Busy') = Cardinality(Busy) /\ Len(done_queue') = Len(done_queue)
      BY <1>a, <2>1
    <2>7. nr' = Len(work_queue') + Cardinality(Busy') + Len(done_queue')
      BY <1>b, <2>1, <2>4, <2>5, <2>6, BusyFinite
    <2> QED
      BY <1>a, <2>1, <2>2, <2>5, <2>7 DEF Accounts
  <1>9. CASE RunJobInline
    <2>1. pc = "push" /\ pc' = "push" /\ UNCHANGED <<work_queue, worker>> /\ intent' = intent
      BY <1>9 DEF RunJobInline
    <2>2. ~Stopping /\ ~Stopping' /\ pc' \in BatchPlaces
      BY <2>1 DEF Stopping, BatchPlaces
    <2>3. CASE intent = "walk"
      <3>1. done_queue' = Append(done_queue, Job(intent, idle_ranges[next])) /\ nr' = nr + 1
        BY <1>9, <2>3 DEF RunJobInline
      <3>2. nr = Len(work_queue) + Cardinality(Busy) + Len(done_queue)
        BY <2>2 DEF Accounts
      <3>3. Len(done_queue') = Len(done_queue) + 1
        BY <1>0, <3>1
      <3>4. Cardinality(Busy') = Cardinality(Busy) /\ Len(work_queue') = Len(work_queue)
        BY <1>a, <2>1
      <3>5. nr' = Len(work_queue') + Cardinality(Busy') + Len(done_queue')
        BY <1>b, <3>1, <3>2, <3>3, <3>4, BusyFinite
      <3> QED
        BY <1>a, <2>1, <2>2, <3>5 DEF Accounts
    <2>4. CASE intent # "walk"
      <3>1. UNCHANGED <<done_queue, nr>>
        BY <1>9, <2>4 DEF RunJobInline
      <3> QED
        BY <1>a, <2>1, <2>2, <3>1, AccountsFrame
    <2> QED
      BY <2>3, <2>4
  <1>10. CASE TakeDone
    <2>1. pc = "pop" /\ UNCHANGED <<work_queue, worker>>
      BY <1>10 DEF TakeDone
    <2>2. pc' \in BatchPlaces
      BY <1>10 DEF TakeDone, BatchPlaces
    <2>3. ~Stopping /\ ~Stopping'
      BY <2>1, <2>2 DEF Stopping, BatchPlaces
    <2>4. CASE done_queue # <<>>
      <3>1. done_queue' = Tail(done_queue) /\ nr' = nr - 1
        BY <1>10, <2>4 DEF TakeDone
      <3>2. nr = Len(work_queue) + Cardinality(Busy) + Len(done_queue)
        BY <2>3 DEF Accounts
      <3>3. Len(done_queue') = Len(done_queue) - 1
        BY <1>0, <2>4, <3>1
      <3>4. Cardinality(Busy') = Cardinality(Busy) /\ Len(work_queue') = Len(work_queue)
        BY <1>a, <2>1
      <3>5. nr' = Len(work_queue') + Cardinality(Busy') + Len(done_queue')
        <4>1. nr' = nr - 1
          BY <3>1
        <4> QED
          BY <1>b, <3>2, <3>3, <3>4, <4>1, BusyFinite
      <3> QED
        BY <1>a, <2>1, <2>2, <2>3, <3>5 DEF Accounts
    <2>5. CASE done_queue = <<>>
      <3>1. UNCHANGED <<done_queue, nr>>
        BY <1>10, <2>5 DEF TakeDone
      <3> QED
        BY <1>a, <2>1, <2>2, <2>3, <3>1, AccountsFrame
    <2> QED
      BY <2>4, <2>5
  <1>11. CASE PushQuit
    <2>1. /\ pc = "stop" /\ pc' = "notify_quit" /\ UNCHANGED <<nr, done_queue, worker>>
          /\ work_queue' = Append(work_queue, QuitJob)
      BY <1>11 DEF PushQuit
    <2>2. Stopping /\ Stopping' /\ pc \notin BatchPlaces
      BY <2>1 DEF Stopping, BatchPlaces
    <2>3. \A i \in DOMAIN work_queue' : work_queue'[i] = QuitJob
      BY <1>0, <2>1, <2>2 DEF Accounts
    <2> QED
      BY <1>a, <2>1, <2>2, <2>3 DEF Accounts, At
  <1> QED
    BY <1>1, <1>2, <1>3, <1>4, <1>5, <1>6, <1>7, <1>8, <1>9, <1>10, <1>11 DEF MainStep

\* At the start there is no job, and no thread to hold one.
LEMMA InitAccounts == Init => Accounts
  <1> SUFFICES ASSUME Init PROVE Accounts
    OBVIOUS
  <1>1. Busy = {} /\ ~Stopping /\ \A w \in Workers : ~At(w, "quit")
    BY DEF Init, Busy, At, Stopping
  <1>2. Cardinality(Busy) = 0 /\ Len(work_queue) = 0 /\ Len(done_queue) = 0
    BY <1>1, FS_EmptySet DEF Init
  <1>3. work_queue \in Seq(RangeJobs) /\ nr = 0
    BY DEF Init
  <1> QED
    BY <1>1, <1>2, <1>3 DEF Accounts

\* Every step of the program keeps account of the jobs.
LEMMA NextAccounts == TypeInv /\ Accounts /\ [Next]_vars => Accounts'
  <1> SUFFICES ASSUME TypeInv, Accounts, [Next]_vars PROVE Accounts'
    OBVIOUS
  <1>1. CASE MainWakesSpuriously \/ Signal \/ UNCHANGED vars
    <2>1. UNCHANGED <<nr, work_queue, done_queue, worker>>
      BY <1>1 DEF MainWakesSpuriously, Signal, vars, jobVars, queueVars
    <2>2. (pc' \notin BatchPlaces => nr = 0) /\ Stopping' = Stopping
      BY <1>1 DEF MainWakesSpuriously, Signal, vars, Stopping, BatchPlaces, Accounts
    <2>3. /\ Busy' = Busy /\ \A v \in Busy : worker'[v] = worker[v]
          /\ \A v \in Workers : At(v, "quit")' <=> At(v, "quit")
      BY <2>1 DEF Busy, At
    <2> QED
      BY <2>1, <2>2, <2>3, AccountsFrame
  <1> QED
    BY <1>1, MainStepAccounts, WorkerStepAccounts DEF Next, Finished

-----------------------------------------------------------------------------
(* No two threads at one range.                                            *)

\* Where a range of the batch is: not handed out yet, queued, held, done.
Unhanded(r) ==
  \E k \in DOMAIN idle_ranges :
    /\ idle_ranges[k] = r
    /\ (pc = "push" /\ k >= next) \/ (pc = "notify" /\ k > next)
Queued(r) == \E i \in DOMAIN work_queue : work_queue[i].range = r
Held(r)   == \E w \in Busy : worker[w].job.range = r
Done(r)   == \E i \in DOMAIN done_queue : done_queue[i].range = r

DistinctRanges == \A i, j \in DOMAIN idle_ranges : i # j => idle_ranges[i] # idle_ranges[j]

\* Every range has at most one job, which is at one place.
OneJobPerRange ==
  /\ \A i, j \in DOMAIN work_queue : i # j => work_queue[i].range # work_queue[j].range
  /\ \A v, w \in Busy : v # w => worker[v].job.range # worker[w].job.range
  /\ \A r \in Ranges : /\ Queued(r) => ~Held(r)
                       /\ Done(r) => ~Queued(r) /\ ~Held(r)
                       /\ Unhanded(r) => ~Queued(r) /\ ~Held(r) /\ ~Done(r)
  /\ pc = "gather" => ~Queued(taken) /\ ~Held(taken)

Apart == DistinctRanges /\ (~Stopping => OneJobPerRange)

\* Without any job, ranges are apart.
LEMMA ApartIdle ==
  ASSUME work_queue' = <<>>, done_queue' = <<>>, Busy' = {}, DistinctRanges'
  PROVE  Apart'
  BY DEF Apart, OneJobPerRange, Queued, Held, Done

\* No job moves, and no range waits to be handed out that did not before.
LEMMA ApartFrame ==
  ASSUME Apart, UNCHANGED <<idle_ranges, work_queue, done_queue>>,
         Busy' = Busy, \A v \in Busy : worker'[v].job = worker[v].job,
         \A r \in Ranges : Unhanded(r)' => Unhanded(r),
         Stopping => Stopping', pc' = "gather" => pc = "gather" /\ taken' = taken
  PROVE  Apart'
  <1>1. \A r : /\ Queued(r)' <=> Queued(r)
               /\ Held(r)' <=> Held(r)
               /\ Done(r)' <=> Done(r)
    BY DEF Queued, Held, Done
  <1> QED
    BY <1>1 DEF Apart, OneJobPerRange, DistinctRanges

\* The steps of the threads.
LEMMA WorkerStepApart ==
  ASSUME TypeInv, Accounts, Apart, NEW w \in Workers, WorkerStep(w) \/ WakeSpuriously(w)
  PROVE  Apart'
  <1> USE DEF jobVars, queueVars
  <1>0. /\ worker \in [Workers -> [at : WorkerPlaces, job : Jobs \cup {NoJob}]]
        /\ work_queue \in Seq(Jobs) /\ done_queue \in Seq(RangeJobs)
    BY DEF TypeInv, TypeOK
  <1>a. /\ UNCHANGED <<idle_ranges, next, taken>>
        /\ pc' = pc \/ (pc = "wait" /\ pc' = "pop")
    BY DEF WorkerStep, TakeJob, RunJob, PushDone, NotifyMain, WakeSpuriously
  <1>b. Stopping' = Stopping /\ DistinctRanges' = DistinctRanges
    BY <1>a DEF Stopping, DistinctRanges
  <1>c. \A r \in Ranges : Unhanded(r)' <=> Unhanded(r)
    BY <1>a DEF Unhanded
  <1>d. pc' = "gather" => pc = "gather"
    BY <1>a
  <1>e. CASE Stopping
    BY <1>b, <1>e DEF Apart
  <1>f. CASE ~Stopping
    <2>0. /\ work_queue \in Seq(RangeJobs)
          /\ \A v \in Busy : worker[v].job \in RangeJobs
      BY <1>f DEF Accounts
    <2>a. OneJobPerRange /\ DistinctRanges
      BY <1>f DEF Apart
    <2>1. CASE TakeJob(w) /\ work_queue # <<>>
      <3>1. /\ At(w, "pop") /\ UNCHANGED <<pc, done_queue>>
            /\ worker' = [worker EXCEPT ![w] = [at |-> "job", job |-> Head(work_queue)]]
            /\ work_queue' = Tail(work_queue)
        BY <2>1 DEF TakeJob
      <3>2. /\ Busy' = Busy \cup {w} /\ w \notin Busy
            /\ worker'[w].job = Head(work_queue)
            /\ \A v \in Busy : worker'[v] = worker[v]
        BY <1>0, <3>1 DEF Busy, At
      <3>3. /\ Head(work_queue) = work_queue[1] /\ 1 \in DOMAIN work_queue
            /\ work_queue[1] \in RangeJobs
        BY <2>0, <2>1
      <3>4. \A i \in DOMAIN work_queue' :
              i + 1 \in DOMAIN work_queue /\ i \in Nat \ {0} /\ work_queue'[i] = work_queue[i + 1]
        BY <2>0, <2>1, <3>1
      <3>5. \A r \in Ranges : Queued(r)' => Queued(r) /\ work_queue[1].range # r
        <4>1. SUFFICES ASSUME NEW r \in Ranges, NEW i \in DOMAIN work_queue',
                              work_queue'[i].range = r
                       PROVE  Queued(r) /\ work_queue[1].range # r
          BY DEF Queued
        <4>2. i + 1 \in DOMAIN work_queue /\ i + 1 # 1 /\ work_queue[i + 1].range = r
          BY <3>4, <4>1
        <4> QED
          BY <2>a, <3>3, <4>2 DEF Queued, OneJobPerRange
      <3>6. \A r \in Ranges : Held(r)' => Held(r) \/ (r = work_queue[1].range /\ Queued(r))
        BY <3>2, <3>3 DEF Held, Queued
      <3>7. \A r \in Ranges : Done(r)' <=> Done(r)
        BY <3>1 DEF Done
      <3>8. \A i, j \in DOMAIN work_queue' : i # j => work_queue'[i].range # work_queue'[j].range
        BY <2>a, <3>4 DEF OneJobPerRange
      <3>9. work_queue[1].range \in Ranges /\ Queued(work_queue[1].range)
        BY <3>3 DEF Queued, RangeJobs
      <3>10. \A v \in Busy : worker'[v].job.range # worker'[w].job.range
        BY <2>a, <3>2, <3>3, <3>9 DEF OneJobPerRange, Held
      <3>11. \A u, v \in Busy' : u # v => worker'[u].job.range # worker'[v].job.range
        BY <2>a, <3>2, <3>10 DEF OneJobPerRange
      <3>12. ASSUME pc' = "gather" PROVE ~Queued(taken)' /\ ~Held(taken)'
        <4>1. pc = "gather" /\ taken' = taken
          BY <1>a, <1>d, <3>12
        <4>2. ~Queued(taken) /\ ~Held(taken)
          BY <2>a, <4>1 DEF OneJobPerRange
        <4>3. work_queue[1].range # taken
          BY <3>3, <4>2 DEF Queued
        <4>4. ~Queued(taken)'
          BY <3>4, <4>1, <4>2 DEF Queued
        <4>5. ~Held(taken)'
          BY <3>2, <3>3, <4>1, <4>2, <4>3 DEF Held
        <4> QED
          BY <4>4, <4>5
      <3>13. \A r \in Ranges : /\ Queued(r)' => ~Held(r)'
                               /\ Done(r)' => ~Queued(r)' /\ ~Held(r)'
                               /\ Unhanded(r)' => ~Queued(r)' /\ ~Held(r)' /\ ~Done(r)'
        BY <1>c, <2>a, <3>5, <3>6, <3>7 DEF OneJobPerRange
      <3>14. OneJobPerRange'
        BY <3>8, <3>11, <3>12, <3>13 DEF OneJobPerRange
      <3> QED
        BY <1>b, <2>a, <3>14 DEF Apart
    <2>2. CASE \/ TakeJob(w) /\ work_queue = <<>>
               \/ NotifyMain(w) \/ WakeSpuriously(w)
      <3>1. /\ worker[w].at \in {"pop", "wait", "notify"}
            /\ UNCHANGED <<work_queue, done_queue>>
        BY <2>2 DEF TakeJob, NotifyMain, WakeSpuriously, At
      <3>2. worker'[w].at \in {"pop", "wait"} /\ \A v \in Workers \ {w} : worker'[v] = worker[v]
        BY <1>0, <2>2 DEF TakeJob, NotifyMain, WakeSpuriously, Go
      <3>3. Busy' = Busy /\ \A v \in Busy : worker'[v] = worker[v]
        BY <3>1, <3>2 DEF Busy, At
      <3> QED
        BY <1>a, <1>b, <1>c, <1>d, <3>1, <3>3, ApartFrame
    <2>3. CASE RunJob(w)
      <3>1. w \in Busy /\ worker[w].job \in RangeJobs
        BY <2>0, <2>3 DEF RunJob, Busy
      <3>2. worker[w].job.intent # "quit"
        BY <3>1 DEF RangeJobs, Intents
      <3>3. worker' = [worker EXCEPT ![w].at = "push"] /\ UNCHANGED <<work_queue, done_queue>>
        BY <2>3, <3>2 DEF RunJob, Go
      <3>4. Busy' = Busy /\ \A v \in Busy : worker'[v].job = worker[v].job
        BY <1>0, <3>1, <3>3 DEF Busy, At
      <3> QED
        BY <1>a, <1>b, <1>c, <1>d, <3>3, <3>4, ApartFrame
    <2>4. CASE PushDone(w)
      <3>1. /\ At(w, "push") /\ worker' = [worker EXCEPT ![w].at = "notify"]
            /\ done_queue' = Append(done_queue, worker[w].job) /\ UNCHANGED <<pc, work_queue>>
        BY <2>4 DEF PushDone, Go
      <3>2. w \in Busy /\ Busy' = Busy \ {w} /\ \A v \in Busy \ {w} : worker'[v] = worker[v]
        BY <1>0, <3>1 DEF Busy, At
      <3>3. worker[w].job \in RangeJobs
        BY <2>0, <3>2
      <3>4. \A r \in Ranges : Queued(r)' <=> Queued(r)
        BY <3>1 DEF Queued
      <3>5. \A r : Held(r)' => Held(r) /\ r # worker[w].job.range
        BY <2>a, <3>2 DEF Held, OneJobPerRange
      <3>6. \A r \in Ranges : Done(r)' => Done(r) \/ (r = worker[w].job.range /\ Held(r))
        <4>1. \A i \in DOMAIN done_queue' :
                (i \in DOMAIN done_queue /\ done_queue'[i] = done_queue[i])
                  \/ done_queue'[i] = worker[w].job
          BY <1>0, <3>1, <3>3
        <4> QED
          BY <3>2, <4>1 DEF Done, Held
      <3>7. \A r \in Ranges : /\ Queued(r)' => ~Held(r)'
                              /\ Done(r)' => ~Queued(r)' /\ ~Held(r)'
                              /\ Unhanded(r)' => ~Queued(r)' /\ ~Held(r)' /\ ~Done(r)'
        BY <1>c, <2>a, <3>4, <3>5, <3>6 DEF OneJobPerRange
      <3>8. pc' = "gather" => ~Queued(taken)' /\ ~Held(taken)'
        BY <1>a, <1>d, <2>a, <3>1, <3>5 DEF OneJobPerRange, Queued
      <3>9. \A u, v \in Busy' : u # v => worker'[u].job.range # worker'[v].job.range
        BY <2>a, <3>2 DEF OneJobPerRange
      <3>10. \A i, j \in DOMAIN work_queue' : i # j => work_queue'[i].range # work_queue'[j].range
        BY <2>a, <3>1 DEF OneJobPerRange
      <3>11. OneJobPerRange'
        BY <3>7, <3>8, <3>9, <3>10 DEF OneJobPerRange
      <3> QED
        BY <1>b, <2>a, <3>11 DEF Apart
    <2> QED
      BY <2>1, <2>2, <2>3, <2>4 DEF WorkerStep
  <1> QED
    BY <1>e, <1>f

\* The steps of the main thread.
LEMMA MainStepApart ==
  ASSUME TypeInv, Accounts, Apart, MainStep
  PROVE  Apart'
  <1> USE DEF jobVars, queueVars
  <1>0. /\ worker \in [Workers -> [at : WorkerPlaces, job : Jobs \cup {NoJob}]]
        /\ work_queue \in Seq(Jobs) /\ done_queue \in Seq(RangeJobs)
        /\ idle_ranges \in Seq(Ranges) /\ next \in Nat \ {0}
    BY DEF TypeInv, TypeOK
  <1>a. UNCHANGED worker => Busy' = Busy /\ \A v \in Busy : worker'[v] = worker[v]
    BY DEF Busy, At
  <1>b. DistinctRanges
    BY DEF Apart
  <1>c. UNCHANGED idle_ranges => DistinctRanges'
    BY <1>b DEF DistinctRanges
  <1>1. CASE CreateThreads
    <2>1. /\ pc = "create" /\ UNCHANGED <<nr, idle_ranges, work_queue, done_queue>>
          /\ \A w \in Workers : worker'[w].at \in {"pop", "absent"}
      BY <1>1 DEF CreateThreads
    <2>2. ~Stopping /\ nr = 0
      BY <2>1 DEF Stopping, Accounts, BatchPlaces
    <2>3. work_queue = <<>> /\ done_queue = <<>>
      BY <2>2, Idle
    <2>4. Busy' = {}
      BY <2>1 DEF Busy, At
    <2> QED
      BY <1>c, <2>1, <2>3, <2>4, ApartIdle
  <1>2. CASE \/ BeginRound \/ ReloadConf \/ Collect \/ BeginScans \/ BeginScan \/ EndScan
             \/ NextScanRound \/ EndScanRounds \/ CountRefs \/ BeginMigrate
             \/ NextProfile \/ EndPeriod
    <2>1. (pc \notin BatchPlaces \/ nr = 0) /\ ~Stopping /\ UNCHANGED <<queueVars, worker>>
      BY <1>2 DEF BeginRound, ReloadConf, Collect, BeginScans, BeginScan, EndScan, NextScanRound,
                  EndScanRounds, CountRefs, BeginMigrate, NextProfile, EndPeriod,
                  BatchOver, BatchPlaces, Stopping
    <2>2. nr = 0
      BY <2>1 DEF Accounts
    <2>3. work_queue = <<>> /\ done_queue = <<>> /\ Busy = {}
      BY <2>1, <2>2, Idle
    <2>4. DistinctRanges'
      <3>1. CASE Collect
        BY <3>1, ArrangementsAreSequences DEF Collect, DistinctRanges
      <3>2. CASE ~Collect
        <4>1. UNCHANGED idle_ranges
          BY <1>2, <3>2 DEF BeginRound, ReloadConf, BeginScans, BeginScan, EndScan, NextScanRound,
                  EndScanRounds, CountRefs, BeginMigrate, NextProfile, EndPeriod, BeginBatch
        <4> QED
          BY <1>c, <4>1
      <3> QED
        BY <3>1, <3>2
    <2> QED
      BY <1>a, <2>1, <2>3, <2>4, ApartIdle
  <1>3. CASE PushQuit \/ NotifyQuit \/ Join
    <2>1. Stopping' /\ UNCHANGED idle_ranges
      BY <1>3 DEF PushQuit, NotifyQuit, Join, Stopping
    <2> QED
      BY <1>c, <2>1 DEF Apart
  <1>4. CASE AllPushed \/ Gather
    <2>1. pc' = "pop" /\ ~Stopping /\ UNCHANGED <<idle_ranges, work_queue, done_queue, worker>>
      BY <1>4 DEF AllPushed, Gather, Stopping
    <2>2. \A r \in Ranges : ~Unhanded(r)'
      BY <2>1 DEF Unhanded
    <2> QED
      BY <1>a, <2>1, <2>2, ApartFrame
  <1>5. CASE NotifyWorker
    <2>1. /\ NotifyOne /\ pc = "notify" /\ pc' = "push" /\ next' = next + 1
          /\ UNCHANGED <<idle_ranges, work_queue, done_queue>>
      BY <1>5 DEF NotifyWorker
    <2>2. ~Stopping
      BY <2>1 DEF Stopping
    <2>3. \A r \in Ranges : Unhanded(r)' => Unhanded(r)
      BY <1>0, <2>1 DEF Unhanded
    <2>4. Busy' = Busy /\ \A v \in Busy : worker'[v].job = worker[v].job
      BY <2>1, NotifyOneBusy
    <2> QED
      BY <2>1, <2>2, <2>3, <2>4, ApartFrame
  <1>6. CASE TakeDone
    <2>1. pc = "pop" /\ UNCHANGED <<idle_ranges, work_queue, worker>> /\ pc' \in {"gather", "pop", "wait"}
      BY <1>6 DEF TakeDone
    <2>2. ~Stopping /\ ~Stopping'
      BY <2>1 DEF Stopping
    <2>3. \A r \in Ranges : ~Unhanded(r)'
      BY <2>1 DEF Unhanded
    <2>4. CASE done_queue = <<>>
      <3>1. pc' = "wait" /\ UNCHANGED done_queue
        BY <1>6, <2>4 DEF TakeDone
      <3> QED
        BY <1>a, <2>1, <2>2, <2>3, <3>1, ApartFrame
    <2>5. CASE done_queue # <<>>
      <3>1. /\ done_queue' = Tail(done_queue)
            /\ pc' = "gather" => taken' = Head(done_queue).range
        BY <1>6, <2>5 DEF TakeDone
      <3>2. OneJobPerRange
        BY <2>2 DEF Apart
      <3>3. 1 \in DOMAIN done_queue /\ Head(done_queue) = done_queue[1] /\ done_queue[1] \in RangeJobs
        BY <1>0, <2>5
      <3>4. done_queue[1].range \in Ranges /\ Done(done_queue[1].range)
        BY <3>3 DEF Done, RangeJobs
      <3>5. \A i \in DOMAIN done_queue' : i + 1 \in DOMAIN done_queue /\ done_queue'[i] = done_queue[i + 1]
        BY <1>0, <2>5, <3>1
      <3>6. \A r \in Ranges : Done(r)' => Done(r)
        BY <3>5 DEF Done
      <3>7. \A r : (Queued(r)' <=> Queued(r)) /\ (Held(r)' <=> Held(r))
        BY <1>a, <2>1 DEF Queued, Held
      <3>8. \A r \in Ranges : /\ Queued(r)' => ~Held(r)'
                              /\ Done(r)' => ~Queued(r)' /\ ~Held(r)'
                              /\ Unhanded(r)' => ~Queued(r)' /\ ~Held(r)' /\ ~Done(r)'
        BY <2>3, <3>2, <3>6, <3>7 DEF OneJobPerRange
      <3>9. ASSUME pc' = "gather" PROVE ~Queued(taken)' /\ ~Held(taken)'
        <4>1. taken' = done_queue[1].range
          BY <3>1, <3>3, <3>9
        <4>2. ~Queued(taken') /\ ~Held(taken')
          BY <3>2, <3>4, <4>1 DEF OneJobPerRange
        <4> QED
          BY <1>a, <2>1, <4>2 DEF Queued, Held
      <3>10. /\ \A u, v \in Busy' : u # v => worker'[u].job.range # worker'[v].job.range
             /\ \A i, j \in DOMAIN work_queue' : i # j => work_queue'[i].range # work_queue'[j].range
        BY <1>a, <2>1, <3>2 DEF OneJobPerRange
      <3>11. OneJobPerRange'
        BY <3>8, <3>9, <3>10 DEF OneJobPerRange
      <3> QED
        BY <1>c, <2>1, <3>11 DEF Apart
    <2> QED
      BY <2>4, <2>5
  <1>7. CASE PushJob
    <2>1. /\ pc = "push" /\ pc' = "notify" /\ next <= Len(idle_ranges)
          /\ work_queue' = Append(work_queue, Job(intent, idle_ranges[next]))
          /\ UNCHANGED <<idle_ranges, next, done_queue, worker>>
      BY <1>7 DEF PushJob
    <2>2. ~Stopping
      BY <2>1 DEF Stopping
    <2>3. OneJobPerRange
      BY <2>2 DEF Apart
    <2> DEFINE range == idle_ranges[next]
    <2>4. next \in DOMAIN idle_ranges /\ range \in Ranges
      BY <1>0, <2>1
    <2>5. Unhanded(range)
      BY <1>0, <2>1, <2>4 DEF Unhanded
    <2>6. \A r \in Ranges : Unhanded(r)' => Unhanded(r) /\ r # range
      BY <1>0, <1>b, <2>1, <2>4 DEF Unhanded, DistinctRanges
    <2>7. \A i \in DOMAIN work_queue' :
            \/ i = Len(work_queue) + 1 /\ work_queue'[i].range = range
            \/ i \in DOMAIN work_queue /\ work_queue'[i] = work_queue[i]
      BY <1>0, <2>1 DEF Job
    <2>8. \A r \in Ranges : Queued(r)' => Queued(r) \/ r = range
      BY <2>7 DEF Queued
    <2>9. \A r : (Done(r)' <=> Done(r)) /\ (Held(r)' <=> Held(r))
      BY <1>a, <2>1 DEF Done, Held
    <2>10. \A r \in Ranges : /\ Queued(r)' => ~Held(r)'
                             /\ Done(r)' => ~Queued(r)' /\ ~Held(r)'
                             /\ Unhanded(r)' => ~Queued(r)' /\ ~Held(r)' /\ ~Done(r)'
      BY <2>3, <2>4, <2>5, <2>6, <2>8, <2>9 DEF OneJobPerRange
    <2>11. \A i \in DOMAIN work_queue : work_queue[i].range # range
      BY <2>3, <2>4, <2>5 DEF OneJobPerRange, Queued
    <2>12. \A i, j \in DOMAIN work_queue' : i # j => work_queue'[i].range # work_queue'[j].range
      BY <2>3, <2>7, <2>11 DEF OneJobPerRange
    <2>13. \A u, v \in Busy' : u # v => worker'[u].job.range # worker'[v].job.range
      BY <1>a, <2>1, <2>3 DEF OneJobPerRange
    <2>14. OneJobPerRange'
      BY <2>1, <2>10, <2>12, <2>13 DEF OneJobPerRange
    <2> QED
      BY <1>c, <2>1, <2>14 DEF Apart
  <1>8. CASE RunJobInline
    <2>1. /\ pc = "push" /\ pc' = "push" /\ next <= Len(idle_ranges) /\ next' = next + 1
          /\ done_queue' \in {done_queue, Append(done_queue, Job(intent, idle_ranges[next]))}
          /\ UNCHANGED <<idle_ranges, work_queue, worker>>
      BY <1>8 DEF RunJobInline
    <2>2. ~Stopping
      BY <2>1 DEF Stopping
    <2>3. OneJobPerRange
      BY <2>2 DEF Apart
    <2> DEFINE range == idle_ranges[next]
    <2>4. next \in DOMAIN idle_ranges /\ range \in Ranges
      BY <1>0, <2>1
    <2>5. Unhanded(range)
      BY <1>0, <2>1, <2>4 DEF Unhanded
    <2>6. \A r \in Ranges : Unhanded(r)' => Unhanded(r) /\ r # range
      BY <1>0, <1>b, <2>1, <2>4 DEF Unhanded, DistinctRanges
    <2>7. \A i \in DOMAIN done_queue' :
            \/ done_queue'[i].range = range
            \/ i \in DOMAIN done_queue /\ done_queue'[i] = done_queue[i]
      <3>1. CASE done_queue' = done_queue
        BY <3>1
      <3>2. CASE done_queue' = Append(done_queue, Job(intent, range))
        BY <1>0, <3>2 DEF Job
      <3> QED
        BY <2>1, <3>1, <3>2
    <2>8. \A r \in Ranges : Done(r)' => Done(r) \/ r = range
      BY <2>7 DEF Done
    <2>9. \A r : (Queued(r)' <=> Queued(r)) /\ (Held(r)' <=> Held(r))
      BY <1>a, <2>1 DEF Queued, Held
    <2>10. \A r \in Ranges : /\ Queued(r)' => ~Held(r)'
                             /\ Done(r)' => ~Queued(r)' /\ ~Held(r)'
                             /\ Unhanded(r)' => ~Queued(r)' /\ ~Held(r)' /\ ~Done(r)'
      BY <2>3, <2>4, <2>5, <2>6, <2>8, <2>9 DEF OneJobPerRange
    <2>11. /\ \A u, v \in Busy' : u # v => worker'[u].job.range # worker'[v].job.range
           /\ \A i, j \in DOMAIN work_queue' : i # j => work_queue'[i].range # work_queue'[j].range
      BY <1>a, <2>1, <2>3 DEF OneJobPerRange
    <2>12. OneJobPerRange'
      BY <2>1, <2>10, <2>11 DEF OneJobPerRange
    <2> QED
      BY <1>c, <2>1, <2>12 DEF Apart
  <1> QED
    BY <1>1, <1>2, <1>3, <1>4, <1>5, <1>6, <1>7, <1>8 DEF MainStep

\* Every step of the program keeps ranges apart.
LEMMA NextApart == TypeInv /\ Accounts /\ Apart /\ [Next]_vars => Apart'
  <1> SUFFICES ASSUME TypeInv, Accounts, Apart, [Next]_vars PROVE Apart'
    OBVIOUS
  <1>1. CASE MainWakesSpuriously \/ Signal \/ UNCHANGED vars
    <2>1. /\ UNCHANGED <<idle_ranges, next, taken, work_queue, done_queue, worker>>
          /\ pc' = pc \/ (pc = "wait" /\ pc' = "pop")
      BY <1>1 DEF MainWakesSpuriously, Signal, vars, jobVars, queueVars
    <2>2. Busy' = Busy /\ Stopping' = Stopping
      BY <2>1 DEF Busy, At, Stopping
    <2>3. \A r \in Ranges : Unhanded(r)' => Unhanded(r)
      BY <2>1 DEF Unhanded
    <2> QED
      BY <2>1, <2>2, <2>3, ApartFrame
  <1> QED
    BY <1>1, MainStepApart, WorkerStepApart DEF Next, Finished

\* At the start there is neither a range nor a job.
LEMMA InitApart == Init => Apart
  <1> SUFFICES ASSUME Init PROVE Apart
    OBVIOUS
  <1>1. /\ idle_ranges = <<>> /\ work_queue = <<>> /\ done_queue = <<>> /\ Busy = {}
        /\ pc = "create"
    BY DEF Init, Busy, At
  <1> QED
    BY <1>1 DEF Apart, DistinctRanges, OneJobPerRange, Unhanded, Queued, Held, Done

\* Where the jobs are, and that ranges are apart, keeps threads off each other's ranges.
LEMMA ApartExclusive ==
  ASSUME TypeInv, Accounts, Apart
  PROVE  ExclusiveRange
  <1>1. CASE Stopping
    <2>1. \A w \in Workers : Uses(w) = {}
      BY <1>1 DEF Accounts, Uses, Busy, QuitJob, Job
    <2> QED
      BY <2>1 DEF ExclusiveRange
  <1>2. CASE ~Stopping
    <2>1. \A w \in Workers : \A r : r \in Uses(w) =>
            w \in Busy /\ r = worker[w].job.range /\ r \in Ranges
      BY <1>2 DEF Accounts, Uses, Busy, RangeJobs
    <2>2. OneJobPerRange
      BY <1>2 DEF Apart
    <2>3. ASSUME NEW w \in Workers, NEW v \in Workers \ {w} PROVE Uses(w) \cap Uses(v) = {}
      BY <2>1, <2>2 DEF OneJobPerRange
    <2>4. ASSUME NEW w \in Workers PROVE Uses(w) \cap MainUses = {}
      <3>1. CASE pc \in {"collect", "count", "parameters"} \/ BatchOver
        <4>1. nr = 0
          BY <3>1 DEF BatchOver, Accounts, BatchPlaces
        <4>2. Busy = {}
          BY <1>2, <4>1, Idle
        <4> QED
          BY <2>1, <4>2
      <3>2. CASE pc = "gather"
        <4>1. MainUses = {taken}
          BY <3>2 DEF MainUses, BatchOver
        <4> QED
          BY <2>1, <2>2, <3>2, <4>1 DEF OneJobPerRange, Held
      <3>3. CASE pc = "push" /\ next <= Len(idle_ranges)
        <4>1. MainUses \subseteq {idle_ranges[next]}
          BY <3>3 DEF MainUses, BatchOver
        <4>2. next \in DOMAIN idle_ranges /\ idle_ranges[next] \in Ranges /\ next \in Nat
          BY <3>3 DEF TypeInv, TypeOK
        <4>3. Unhanded(idle_ranges[next])
          BY <3>3, <4>2 DEF Unhanded
        <4>4. ~Held(idle_ranges[next])
          BY <2>2, <4>2, <4>3 DEF OneJobPerRange
        <4> QED
          BY <2>1, <4>1, <4>4 DEF Held
      <3>4. CASE /\ pc \notin {"collect", "count", "parameters", "gather"} /\ ~BatchOver
                 /\ ~(pc = "push" /\ next <= Len(idle_ranges))
        BY <3>4 DEF MainUses
      <3> QED
        BY <3>1, <3>2, <3>3, <3>4
    <2> QED
      BY <2>3, <2>4 DEF ExclusiveRange
  <1> QED
    BY <1>1, <1>2

\* Nothing locks a range, yet no two threads of sys-refs use one at a time
\* (GlobalScan::walk_once, migrate, consumer_loop).
THEOREM Exclusive == Spec => []ExclusiveRange
  <1>1. Spec => [](TypeInv /\ Accounts /\ Apart)
    BY InitType, InitAccounts, InitApart, NextType, NextAccounts, NextApart, PTL DEF Spec
  <1>2. TypeInv /\ Accounts /\ Apart => ExclusiveRange
    BY ApartExclusive
  <1> QED
    BY <1>1, <1>2, PTL

-----------------------------------------------------------------------------
(* Nothing is left over.                                                   *)

\* Threads that have a job to quit, or did it.
Quitting == {w \in Workers : At(w, "job") \/ At(w, "quit")}

\* stop_threads() sends one such job per thread.
QuitAccounts ==
  /\ pc = "stop" => /\ next <= Cardinality(Started) + 1
                    /\ Len(work_queue) + Cardinality(Quitting) = next - 1
  /\ pc = "notify_quit" => /\ next <= Cardinality(Started)
                           /\ Len(work_queue) + Cardinality(Quitting) = next
  /\ pc = "done" => work_queue = <<>> /\ \A w \in Started : At(w, "quit")

\* Sets of threads can be counted.
LEMMA ThreadsFinite ==
  /\ IsFiniteSet(Quitting) /\ Cardinality(Quitting) \in Nat
  /\ IsFiniteSet(Started) /\ Cardinality(Started) \in Nat
  <1>1. Quitting \subseteq Workers /\ Started \subseteq Workers
    BY DEF Quitting, Started
  <1> QED
    BY <1>1, ScanPoolAssumption, FS_Subset, FS_CardinalityType

\* The loop stops when no job is on its way.
LEMMA StopsIdle ==
  ASSUME TypeInv, Accounts, ~Stopping, nr = 0, UNCHANGED <<work_queue, worker>>,
         pc' = "stop", next' = 1
  PROVE  QuitAccounts'
  <1>1. work_queue = <<>> /\ Busy = {} /\ \A w \in Workers : ~At(w, "quit")
    BY Idle DEF Accounts
  <1>2. Quitting' = {} /\ Started' = Started
    BY <1>1 DEF Quitting, Started, Busy, At
  <1>3. Cardinality(Quitting') = 0 /\ Cardinality(Started') \in Nat /\ Len(work_queue') = 0
    BY <1>1, <1>2, ThreadsFinite, FS_EmptySet
  <1> QED
    BY <1>3 DEF QuitAccounts

\* No job moves, and the loop does not either.
LEMMA QuitFrame ==
  ASSUME QuitAccounts, UNCHANGED <<pc, next, work_queue>>, Quitting' = Quitting,
         Started' = Started, pc = "done" => UNCHANGED worker
  PROVE  QuitAccounts'
  BY DEF QuitAccounts, At

\* The steps of the threads.
LEMMA WorkerStepQuits ==
  ASSUME TypeInv, Accounts, QuitAccounts, NEW w \in Workers, WorkerStep(w) \/ WakeSpuriously(w)
  PROVE  QuitAccounts'
  <1> USE DEF jobVars, queueVars
  <1>0. /\ worker \in [Workers -> [at : WorkerPlaces, job : Jobs \cup {NoJob}]]
        /\ work_queue \in Seq(Jobs) /\ next \in Nat
    BY DEF TypeInv, TypeOK
  <1>a. UNCHANGED next /\ (pc' = pc \/ (pc = "wait" /\ pc' = "pop"))
    BY DEF WorkerStep, TakeJob, RunJob, PushDone, NotifyMain, WakeSpuriously
  <1>b. CASE ~Stopping
    BY <1>a, <1>b DEF QuitAccounts, Stopping
  <1>c. CASE Stopping
    <2>0. pc' = pc
      BY <1>a, <1>c DEF Stopping
    <2>a. worker[w].at \in {"pop", "job", "push", "notify", "wait"}
      BY DEF WorkerStep, TakeJob, RunJob, PushDone, NotifyMain, WakeSpuriously, At
    <2>b. pc # "done"
      BY <2>a DEF QuitAccounts, Started, At
    <2>c. w \in Busy => At(w, "job") /\ worker[w].job = QuitJob
      BY <1>c DEF Accounts
    <2>1. CASE TakeJob(w) /\ work_queue # <<>>
      <3>1. /\ At(w, "pop") /\ work_queue' = Tail(work_queue)
            /\ worker' = [worker EXCEPT ![w] = [at |-> "job", job |-> Head(work_queue)]]
        BY <2>1 DEF TakeJob
      <3>2. Quitting' = Quitting \cup {w} /\ w \notin Quitting /\ Started' = Started
        BY <1>0, <3>1 DEF Quitting, Started, At
      <3>3. Cardinality(Quitting') = Cardinality(Quitting) + 1
        BY <3>2, ThreadsFinite, FS_AddElement
      <3>4. Len(work_queue') = Len(work_queue) - 1 /\ Len(work_queue) \in Nat
        BY <1>0, <2>1, <3>1
      <3>5. Len(work_queue') + Cardinality(Quitting') = Len(work_queue) + Cardinality(Quitting)
        BY <3>3, <3>4, ThreadsFinite
      <3> QED
        BY <1>a, <2>0, <2>b, <3>2, <3>5 DEF QuitAccounts
    <2>2. CASE \/ TakeJob(w) /\ work_queue = <<>>
               \/ NotifyMain(w) \/ WakeSpuriously(w)
      <3>1. worker[w].at \in {"pop", "wait", "notify"} /\ UNCHANGED work_queue
        BY <2>2 DEF TakeJob, NotifyMain, WakeSpuriously, At
      <3>2. worker'[w].at \in {"pop", "wait"} /\ \A v \in Workers \ {w} : worker'[v] = worker[v]
        BY <1>0, <2>2 DEF TakeJob, NotifyMain, WakeSpuriously, Go
      <3>3. Quitting' = Quitting /\ Started' = Started
        BY <3>1, <3>2 DEF Quitting, Started, At
      <3> QED
        BY <1>a, <2>0, <2>b, <3>1, <3>3, QuitFrame
    <2>3. CASE RunJob(w)
      <3>1. w \in Busy /\ UNCHANGED work_queue
        BY <2>3 DEF RunJob, Busy
      <3>2. worker[w].job.intent = "quit"
        BY <2>c, <3>1 DEF QuitJob, Job
      <3>3. worker' = [worker EXCEPT ![w].at = "quit"] /\ At(w, "job")
        BY <2>3, <3>2 DEF RunJob, Go
      <3>4. Quitting' = Quitting /\ Started' = Started
        BY <1>0, <3>3 DEF Quitting, Started, At
      <3> QED
        BY <1>a, <2>0, <2>b, <3>1, <3>4, QuitFrame
    <2>4. CASE PushDone(w)
      BY <2>4, <2>c DEF PushDone, Busy, At
    <2> QED
      BY <2>1, <2>2, <2>3, <2>4 DEF WorkerStep
  <1> QED
    BY <1>b, <1>c

\* NotifyOne neither makes nor ends a thread, nor gives it a job.
LEMMA NotifyOneQuits ==
  ASSUME TypeInv, NotifyOne
  PROVE  Quitting' = Quitting /\ Started' = Started
  <1>1. CASE UNCHANGED worker
    BY <1>1 DEF Quitting, Started, At
  <1>2. CASE \E w \in Waiting : Go(w, "pop")
    <2>1. PICK w \in Workers : At(w, "wait") /\ Go(w, "pop")
      BY <1>2 DEF Waiting
    <2>2. worker \in [Workers -> [at : WorkerPlaces, job : Jobs \cup {NoJob}]]
      BY DEF TypeInv, TypeOK
    <2>3. worker'[w].at = "pop" /\ \A v \in Workers \ {w} : worker'[v] = worker[v]
      BY <2>1, <2>2 DEF Go
    <2> QED
      BY <2>1, <2>3 DEF Quitting, Started, At
  <1> QED
    BY <1>1, <1>2 DEF NotifyOne

\* The steps of the main thread.
LEMMA MainStepQuits ==
  ASSUME TypeInv, Accounts, QuitAccounts, MainStep
  PROVE  QuitAccounts'
  <1> USE DEF jobVars, queueVars
  <1>0. work_queue \in Seq(Jobs) /\ next \in Nat /\ nr \in Nat
    BY DEF TypeInv, TypeOK
  <1>a. UNCHANGED worker => Quitting' = Quitting /\ Started' = Started
    BY DEF Quitting, Started, At
  <1>1. CASE ~Stopping'
    BY <1>1 DEF QuitAccounts, Stopping
  <1>2. CASE BeginRound \/ NextProfile \/ EndPeriod
    <2>1. nr = 0 /\ ~Stopping /\ UNCHANGED <<work_queue, worker>>
      BY <1>2 DEF BeginRound, NextProfile, EndPeriod, BatchOver, Stopping, Accounts, BatchPlaces
    <2>2. pc' \in {"stop", "round", "parameters", "reload", "walk"}
      BY <1>2 DEF BeginRound, NextProfile, EndPeriod, BeginStop
    <2>3. CASE pc' = "stop"
      <3>1. next' = 1
        BY <1>2, <2>3 DEF BeginRound, NextProfile, EndPeriod, BeginStop
      <3> QED
        BY <2>1, <2>3, <3>1, StopsIdle
    <2>4. CASE pc' # "stop"
      BY <2>2, <2>4, <1>1 DEF Stopping
    <2> QED
      BY <2>3, <2>4
  <1>3. CASE PushQuit
    <2>1. /\ pc = "stop" /\ pc' = "notify_quit" /\ next <= Cardinality(Started)
          /\ work_queue' = Append(work_queue, QuitJob) /\ UNCHANGED <<next, worker>>
      BY <1>3 DEF PushQuit
    <2>2. Len(work_queue') = Len(work_queue) + 1 /\ Len(work_queue) \in Nat
      BY <1>0, <2>1
    <2>3. Len(work_queue) + Cardinality(Quitting) = next - 1
      BY <2>1 DEF QuitAccounts
    <2>4. Len(work_queue') + Cardinality(Quitting) = next
      BY <1>0, <2>2, <2>3, ThreadsFinite
    <2> QED
      BY <1>a, <2>1, <2>4 DEF QuitAccounts
  <1>4. CASE NotifyQuit
    <2>1. /\ pc = "notify_quit" /\ pc' = "stop" /\ next' = next + 1
          /\ NotifyOne /\ UNCHANGED work_queue
      BY <1>4 DEF NotifyQuit
    <2>2. next <= Cardinality(Started) /\ Len(work_queue) + Cardinality(Quitting) = next
      BY <2>1 DEF QuitAccounts
    <2>3. Quitting' = Quitting /\ Started' = Started
      BY <2>1, NotifyOneQuits
    <2>4. next' <= Cardinality(Started) + 1 /\ next' - 1 = next
      BY <1>0, <2>1, <2>2, ThreadsFinite
    <2> QED
      BY <2>1, <2>2, <2>3, <2>4 DEF QuitAccounts
  <1>5. CASE Join
    <2>1. /\ pc = "stop" /\ pc' = "done" /\ next > Cardinality(Started)
          /\ UNCHANGED <<work_queue, worker>>
          /\ \A w \in Started : At(w, "quit")
      BY <1>5 DEF Join
    <2>2. /\ next <= Cardinality(Started) + 1
          /\ Len(work_queue) + Cardinality(Quitting) = next - 1
      BY <2>1 DEF QuitAccounts
    <2>3. Quitting = Started
      BY <2>1 DEF Quitting, Started, At
    <2>4. Cardinality(Quitting) = Cardinality(Started) /\ Len(work_queue) \in Nat
      BY <1>0, <2>3
    <2>5. Len(work_queue) = 0
      BY <1>0, <2>1, <2>2, <2>4, ThreadsFinite
    <2>6. work_queue = <<>>
      BY <1>0, <2>5, EmptySeq
    <2>7. work_queue' = <<>> /\ \A w \in Started' : At(w, "quit")'
      BY <1>a, <2>1, <2>6 DEF At
    <2> QED
      BY <2>1, <2>7 DEF QuitAccounts
  <1>6. CASE \/ CreateThreads \/ ReloadConf \/ Collect \/ BeginScans \/ BeginScan
             \/ PushJob \/ NotifyWorker \/ RunJobInline \/ AllPushed
             \/ TakeDone \/ Gather \/ EndScan \/ NextScanRound \/ EndScanRounds
             \/ CountRefs \/ BeginMigrate
    <2>1. ~Stopping'
      BY <1>6 DEF CreateThreads, ReloadConf, Collect, BeginScans, BeginScan, PushJob, NotifyWorker,
                  RunJobInline, AllPushed, TakeDone, Gather, EndScan, NextScanRound,
                  EndScanRounds, CountRefs, BeginMigrate, BeginBatch, Stopping
    <2> QED
      BY <1>1, <2>1
  <1> QED
    BY <1>2, <1>3, <1>4, <1>5, <1>6 DEF MainStep

\* Every step of the program keeps account of the jobs to quit.
LEMMA NextQuits == TypeInv /\ Accounts /\ QuitAccounts /\ [Next]_vars => QuitAccounts'
  <1> SUFFICES ASSUME TypeInv, Accounts, QuitAccounts, [Next]_vars PROVE QuitAccounts'
    OBVIOUS
  <1>1. CASE Signal \/ UNCHANGED vars
    <2>1. UNCHANGED <<pc, next, work_queue, worker>>
      BY <1>1 DEF Signal, vars, jobVars, queueVars
    <2>2. Quitting' = Quitting /\ Started' = Started
      BY <2>1 DEF Quitting, Started, At
    <2> QED
      BY <2>1, <2>2, QuitFrame
  <1>2. CASE MainWakesSpuriously
    BY <1>2 DEF MainWakesSpuriously, QuitAccounts
  <1> QED
    BY <1>1, <1>2, MainStepQuits, WorkerStepQuits DEF Next, Finished

\* Whatever is accounted for leaves nothing when the counts are zero.
LEMMA AccountsQuiescent ==
  ASSUME TypeInv, Accounts, QuitAccounts
  PROVE  QuiescentBetweenPeriods
  <1>0. worker \in [Workers -> [at : WorkerPlaces, job : Jobs \cup {NoJob}]]
    BY DEF TypeInv, TypeOK
  <1>1. CASE pc \in {"reload", "collect"}
    <2>1. nr = 0 /\ ~Stopping
      BY <1>1 DEF Accounts, BatchPlaces, Stopping
    <2>2. work_queue = <<>> /\ done_queue = <<>> /\ Busy = {}
      BY <2>1, Idle
    <2> QED
      BY <1>0, <2>2 DEF QuiescentBetweenPeriods, Quiescent, Busy, At, WorkerPlaces
  <1>2. CASE pc = "done"
    <2>1. work_queue = <<>> /\ done_queue = <<>>
      BY <1>2 DEF QuitAccounts, Accounts, Stopping
    <2>2. \A w \in Workers : worker[w].at \in {"absent", "quit"}
      BY <1>2 DEF QuitAccounts, Started, At
    <2> QED
      BY <2>1, <2>2 DEF QuiescentBetweenPeriods, Quiescent
  <1> QED
    BY <1>1, <1>2 DEF QuiescentBetweenPeriods

\* When the options change, when ranges are collected, and when the program ends, no
\* job is queued, held or waiting to be taken back (Queue.h, stop_threads()).
THEOREM QuiescentBetween == Spec => []QuiescentBetweenPeriods
  <1>1. Init => QuitAccounts
    BY DEF Init, QuitAccounts
  <1>2. Spec => [](TypeInv /\ Accounts /\ QuitAccounts)
    BY <1>1, InitType, InitAccounts, NextType, NextAccounts, NextQuits, PTL DEF Spec
  <1>3. TypeInv /\ Accounts /\ QuitAccounts => QuiescentBetweenPeriods
    BY AccountsQuiescent
  <1> QED
    BY <1>2, <1>3, PTL

-----------------------------------------------------------------------------
(* ScanPool implements ScanPhases: every step of the loop and its threads  *)
(* is a step of the batches it promises, or changes nothing they speak of. *)

\* The jobs on their way are of the batch in progress, and a loop that is about to
\* start a batch has ranges.
OneBatch ==
  /\ ~Stopping => /\ \A i \in DOMAIN work_queue : work_queue[i].intent = intent
                  /\ \A w \in Busy : worker[w].job.intent = intent
  /\ pc \in {"walk", "scan", "push", "notify", "pop", "wait", "gather", "walked", "count",
             "parameters"} => idle_ranges # <<>>
  /\ nr_scan_rounds > 0 => idle_ranges # <<>>
  /\ pc \in {"reload", "collect"} => nr_scan_rounds = 0

\* No job moves.
LEMMA OneBatchFrame ==
  ASSUME OneBatch, UNCHANGED <<idle_ranges, intent, nr_scan_rounds, work_queue>>,
         Busy' \subseteq Busy, \A v \in Busy' : worker'[v].job = worker[v].job,
         Stopping => Stopping',
         pc' \in {"push", "notify", "pop", "wait", "gather"} => idle_ranges # <<>>,
         pc' \in {"walk", "scan", "walked", "count", "parameters", "reload", "collect"} => pc' = pc
  PROVE  OneBatch'
  BY DEF OneBatch

\* The steps of the threads.
LEMMA WorkerStepOneBatch ==
  ASSUME TypeInv, Accounts, OneBatch, NEW w \in Workers, WorkerStep(w) \/ WakeSpuriously(w)
  PROVE  OneBatch'
  <1> USE DEF jobVars, queueVars, loopVars
  <1>0. /\ worker \in [Workers -> [at : WorkerPlaces, job : Jobs \cup {NoJob}]]
        /\ work_queue \in Seq(Jobs)
    BY DEF TypeInv, TypeOK
  <1>a. /\ UNCHANGED <<idle_ranges, intent, nr_scan_rounds>>
        /\ pc' = pc \/ (pc = "wait" /\ pc' = "pop")
    BY DEF WorkerStep, TakeJob, RunJob, PushDone, NotifyMain, WakeSpuriously
  <1>b. Stopping' = Stopping
    BY <1>a DEF Stopping
  <1>c. pc' \in {"walk", "scan", "push", "notify", "pop", "wait", "gather", "walked", "count",
                 "parameters"} => idle_ranges # <<>>
    BY <1>a DEF OneBatch
  <1>1. CASE TakeJob(w) /\ work_queue # <<>>
    <2>1. /\ At(w, "pop") /\ work_queue' = Tail(work_queue)
          /\ worker' = [worker EXCEPT ![w] = [at |-> "job", job |-> Head(work_queue)]]
      BY <1>1 DEF TakeJob
    <2>2. /\ Busy' = Busy \cup {w} /\ worker'[w].job = Head(work_queue)
          /\ \A v \in Busy : worker'[v] = worker[v]
      BY <1>0, <2>1 DEF Busy, At
    <2>3. Head(work_queue) = work_queue[1] /\ 1 \in DOMAIN work_queue
      BY <1>0, <1>1
    <2>4. \A i \in DOMAIN work_queue' :
            i + 1 \in DOMAIN work_queue /\ work_queue'[i] = work_queue[i + 1]
      BY <1>0, <1>1, <2>1
    <2>5. ~Stopping' => /\ \A i \in DOMAIN work_queue' : work_queue'[i].intent = intent'
                        /\ \A v \in Busy' : worker'[v].job.intent = intent'
      BY <1>a, <1>b, <2>2, <2>3, <2>4 DEF OneBatch
    <2> QED
      BY <1>a, <1>c, <2>5 DEF OneBatch
  <1>2. CASE ~(TakeJob(w) /\ work_queue # <<>>)
    <2>1. UNCHANGED work_queue
      BY <1>2 DEF WorkerStep, TakeJob, RunJob, PushDone, NotifyMain, WakeSpuriously
    <2>2. /\ \A v \in Workers \ {w} : worker'[v] = worker[v]
          /\ w \in Busy' => w \in Busy /\ worker'[w].job = worker[w].job
      BY <1>0, <1>2 DEF WorkerStep, TakeJob, RunJob, PushDone, NotifyMain, WakeSpuriously, Go,
                        Busy, At
    <2>3. Busy' \subseteq Busy /\ \A v \in Busy' : worker'[v].job = worker[v].job
      BY <2>2 DEF Busy, At
    <2> QED
      BY <1>a, <1>b, <1>c, <2>1, <2>3 DEF OneBatch
  <1> QED
    BY <1>1, <1>2

\* The steps of the main thread.
LEMMA MainStepOneBatch ==
  ASSUME TypeInv, Accounts, OneBatch, MainStep
  PROVE  OneBatch'
  <1> USE DEF jobVars, queueVars, loopVars
  <1>0. /\ worker \in [Workers -> [at : WorkerPlaces, job : Jobs \cup {NoJob}]]
        /\ work_queue \in Seq(Jobs) /\ nr_scan_rounds \in Nat
    BY DEF TypeInv, TypeOK
  <1>a. UNCHANGED worker => Busy' = Busy /\ \A v \in Busy : worker'[v] = worker[v]
    BY DEF Busy, At
  <1>1. CASE CreateThreads
    <2>1. /\ pc = "create" /\ pc' = "round"
          /\ UNCHANGED <<nr, idle_ranges, nr_scan_rounds, work_queue>>
          /\ \A v \in Workers : worker'[v].at \in {"pop", "absent"}
      BY <1>1 DEF CreateThreads
    <2>2. ~Stopping /\ nr = 0
      BY <2>1 DEF Stopping, Accounts, BatchPlaces
    <2>3. work_queue = <<>>
      BY <2>2, Idle
    <2>4. Busy' = {}
      BY <2>1 DEF Busy, At
    <2> QED
      BY <2>1, <2>3, <2>4 DEF OneBatch
  <1>2. CASE \/ BeginRound \/ ReloadConf \/ Collect \/ BeginScans \/ BeginScan \/ EndScan
             \/ NextScanRound \/ EndScanRounds \/ CountRefs \/ BeginMigrate
             \/ NextProfile \/ EndPeriod
    <2>1. (pc \notin BatchPlaces \/ nr = 0) /\ ~Stopping /\ UNCHANGED <<queueVars, worker>>
      BY <1>2 DEF BeginRound, ReloadConf, Collect, BeginScans, BeginScan, EndScan, NextScanRound,
                  EndScanRounds, CountRefs, BeginMigrate, NextProfile, EndPeriod,
                  BatchOver, BatchPlaces, Stopping
    <2>2. work_queue = <<>> /\ Busy = {}
      BY <2>1, Idle DEF Accounts
    <2>3. work_queue' = <<>> /\ Busy' = {}
      BY <1>a, <2>1, <2>2
    <2>4. CASE Collect
      BY <2>3, <2>4 DEF Collect, OneBatch
    <2>5. CASE BeginRound
      BY <1>0, <2>3, <2>5 DEF BeginRound, OneBatch
    <2>6. CASE ReloadConf
      BY <2>3, <2>6 DEF ReloadConf, OneBatch
    <2>7. CASE BeginScans \/ BeginScan \/ EndScan
      BY <2>3, <2>7 DEF BeginScans, BeginScan, EndScan, BeginBatch, BatchOver, OneBatch
    <2>8. CASE NextScanRound \/ EndScanRounds \/ CountRefs \/ BeginMigrate
      BY <2>3, <2>8 DEF NextScanRound, EndScanRounds, CountRefs, BeginMigrate, BeginBatch, OneBatch
    <2>9. CASE NextProfile \/ EndPeriod
      BY <2>3, <2>9 DEF NextProfile, EndPeriod, BeginStop, BatchOver, OneBatch
    <2> QED
      BY <1>2, <2>4, <2>5, <2>6, <2>7, <2>8, <2>9
  <1>3. CASE PushQuit \/ NotifyQuit \/ Join
    <2>1. Stopping' /\ UNCHANGED <<idle_ranges, nr_scan_rounds>> /\ pc' \in {"stop", "notify_quit", "done"}
      BY <1>3 DEF PushQuit, NotifyQuit, Join, Stopping
    <2> QED
      BY <2>1 DEF OneBatch
  <1>4. CASE AllPushed \/ Gather \/ TakeDone \/ RunJobInline
    <2>1. /\ pc \in {"push", "gather", "pop"} /\ pc' \in {"push", "pop", "wait", "gather"}
          /\ UNCHANGED <<idle_ranges, intent, nr_scan_rounds, work_queue, worker>>
      BY <1>4 DEF AllPushed, Gather, TakeDone, RunJobInline
    <2>2. ~Stopping /\ idle_ranges # <<>>
      BY <2>1 DEF Stopping, OneBatch
    <2> QED
      BY <1>a, <2>1, <2>2, OneBatchFrame
  <1>5. CASE NotifyWorker
    <2>1. /\ NotifyOne /\ pc = "notify" /\ pc' = "push"
          /\ UNCHANGED <<idle_ranges, intent, nr_scan_rounds, work_queue>>
      BY <1>5 DEF NotifyWorker
    <2>2. ~Stopping /\ idle_ranges # <<>>
      BY <2>1 DEF Stopping, OneBatch
    <2>3. Busy' = Busy /\ \A v \in Busy : worker'[v] = worker[v]
      BY <2>1, NotifyOneBusy
    <2> QED
      BY <2>1, <2>2, <2>3, OneBatchFrame
  <1>6. CASE PushJob
    <2>1. /\ pc = "push" /\ pc' = "notify"
          /\ work_queue' = Append(work_queue, Job(intent, idle_ranges[next]))
          /\ UNCHANGED <<idle_ranges, intent, nr_scan_rounds, worker>>
      BY <1>6 DEF PushJob
    <2>2. ~Stopping /\ idle_ranges # <<>>
      BY <2>1 DEF Stopping, OneBatch
    <2>3. \A i \in DOMAIN work_queue' :
            \/ work_queue'[i].intent = intent
            \/ i \in DOMAIN work_queue /\ work_queue'[i] = work_queue[i]
      BY <1>0, <2>1 DEF Job
    <2>4. \A i \in DOMAIN work_queue' : work_queue'[i].intent = intent'
      BY <2>1, <2>2, <2>3 DEF OneBatch
    <2>5. \A v \in Busy' : worker'[v].job.intent = intent'
      BY <1>a, <2>1, <2>2 DEF OneBatch
    <2> QED
      BY <2>1, <2>2, <2>4, <2>5 DEF OneBatch
  <1> QED
    BY <1>1, <1>2, <1>3, <1>4, <1>5, <1>6 DEF MainStep

\* Every step of the program keeps jobs to the batch in progress.
LEMMA NextOneBatch == TypeInv /\ Accounts /\ OneBatch /\ [Next]_vars => OneBatch'
  <1> SUFFICES ASSUME TypeInv, Accounts, OneBatch, [Next]_vars PROVE OneBatch'
    OBVIOUS
  <1>1. CASE MainWakesSpuriously \/ Signal \/ UNCHANGED vars
    <2>1. /\ UNCHANGED <<idle_ranges, intent, nr_scan_rounds, work_queue, worker>>
          /\ pc' = pc \/ (pc = "wait" /\ pc' = "pop")
      BY <1>1 DEF MainWakesSpuriously, Signal, vars, jobVars, queueVars, loopVars
    <2>2. Busy' = Busy /\ Stopping' = Stopping /\ \A v \in Busy : worker'[v] = worker[v]
      BY <2>1 DEF Busy, At, Stopping
    <2> QED
      BY <2>1, <2>2 DEF OneBatch
  <1> QED
    BY <1>1, MainStepOneBatch, WorkerStepOneBatch DEF Next, Finished

\* At the start no batch is in progress.
LEMMA InitOneBatch == Init => OneBatch
  BY DEF Init, OneBatch, Busy, At

-----------------------------------------------------------------------------
(* The steps of a batch.                                                   *)

\* The batch in progress, as ScanPhases sees it.
Kind == IF pc \in BatchPlaces THEN intent ELSE "none"

\* A job some thread is at.
AtJob(r) == \E w \in Workers : At(w, "job") /\ worker[w].job.range = r

\* A range that was not visited is not handed out yet, queued, or at a thread.
LEMMA UnvisitedPlaces ==
  ASSUME NEW r \in Ranges
  PROVE  r \in Unvisited <=> Unhanded(r) \/ Queued(r) \/ AtJob(r)
  <1>1. None # r
    BY ScanPoolAssumption
  <1>2. (\E w \in Workers : r \in Uses(w)) <=> AtJob(r)
    BY <1>1 DEF Uses, AtJob
  <1> QED
    BY <1>2 DEF Unvisited, Unhanded, Queued

\* The same after a step.
LEMMA UnvisitedPlacesNext ==
  ASSUME NEW r \in Ranges
  PROVE  r \in Unvisited' <=> Unhanded(r)' \/ Queued(r)' \/ AtJob(r)'
  <1>1. None # r
    BY ScanPoolAssumption
  <1>2. (\E w \in Workers : r \in Uses(w)') <=> AtJob(r)'
    BY <1>1 DEF Uses, AtJob
  <1> QED
    BY <1>2 DEF Unvisited, Unhanded, Queued

\* A step that leaves every range where it is, or done.
LEMMA SamePhase ==
  ASSUME UNCHANGED <<idle_ranges, walks, io_error>>, Kind' = Kind,
         \A r \in Ranges : Unhanded(r)' \/ Queued(r)' \/ AtJob(r)'
                             <=> Unhanded(r) \/ Queued(r) \/ AtJob(r)
  PROVE  UNCHANGED <<RangeSet, Kind, Unvisited, walks, io_error>>
  <1>1. \A r \in Ranges : r \in Unvisited' <=> r \in Unvisited
    BY UnvisitedPlaces, UnvisitedPlacesNext
  <1>2. Unvisited \subseteq Ranges /\ Unvisited' \subseteq Ranges
    BY DEF Unvisited
  <1>3. Unvisited' = Unvisited
    BY <1>1, <1>2
  <1> QED
    BY <1>3 DEF RangeSet

\* The last visit of a range takes it out of those not visited.
LEMMA VisitsOne ==
  ASSUME NEW range \in Ranges,
         \A r \in Ranges : Unhanded(r)' \/ Queued(r)' \/ AtJob(r)'
                             <=> r # range /\ (Unhanded(r) \/ Queued(r) \/ AtJob(r)),
         Unhanded(range) \/ Queued(range) \/ AtJob(range)
  PROVE  range \in Unvisited /\ Unvisited' = Unvisited \ {range}
  <1>1. \A r \in Ranges : r \in Unvisited' <=> r # range /\ r \in Unvisited
    BY UnvisitedPlaces, UnvisitedPlacesNext
  <1>2. Unvisited \subseteq Ranges /\ Unvisited' \subseteq Ranges
    BY DEF Unvisited
  <1> QED
    BY <1>1, <1>2, UnvisitedPlaces

\* A job of a range is a visit of it, when it is a job of the batch.
LEMMA DoJobVisits ==
  ASSUME NEW job \in RangeJobs, DoJob(job), job.intent = Kind, UNCHANGED <<idle_ranges, Kind>>,
         job.range \in Unvisited, Unvisited' = Unvisited \ {job.range}
  PROVE  Phases!Visit(job.range)
  <1>1. RangeSet' = RangeSet
    BY DEF RangeSet
  <1>2. job.intent \in {"walk", "migrate"}
    BY DEF RangeJobs, Intents
  <1>3. CASE job.intent = "walk"
    BY <1>1, <1>3 DEF DoJob, Walk, Phases!Visit, Kind
  <1>4. CASE job.intent = "migrate"
    BY <1>1, <1>4 DEF DoJob, Phases!Visit, Kind
  <1> QED
    BY <1>2, <1>3, <1>4

\* What the threads' steps are to the batch: the end of a job is a visit.
LEMMA WorkerStepPhase ==
  ASSUME TypeInv, Accounts, Apart, OneBatch, NEW w \in Workers, WorkerStep(w) \/ WakeSpuriously(w)
  PROVE  \/ UNCHANGED <<RangeSet, Kind, Unvisited, walks, io_error>>
         \/ \E r \in Ranges : Phases!Visit(r)
  <1> USE DEF jobVars, queueVars, rangeVars
  <1>0. /\ worker \in [Workers -> [at : WorkerPlaces, job : Jobs \cup {NoJob}]]
        /\ work_queue \in Seq(Jobs)
        /\ At(w, "job") => worker[w].job \in Jobs
    BY DEF TypeInv, TypeOK, WorkerJobs
  <1>a. /\ UNCHANGED <<idle_ranges, intent, next>>
        /\ pc' = pc \/ (pc = "wait" /\ pc' = "pop")
    BY DEF WorkerStep, TakeJob, RunJob, PushDone, NotifyMain, WakeSpuriously
  <1>b. Kind' = Kind
    BY <1>a DEF Kind, BatchPlaces
  <1>c. \A r \in Ranges : Unhanded(r)' <=> Unhanded(r)
    BY <1>a DEF Unhanded
  <1>1. CASE TakeJob(w) /\ work_queue # <<>>
    <2>1. /\ At(w, "pop") /\ work_queue' = Tail(work_queue) /\ UNCHANGED <<walks, io_error>>
          /\ worker' = [worker EXCEPT ![w] = [at |-> "job", job |-> Head(work_queue)]]
      BY <1>1 DEF TakeJob
    <2>2. /\ At(w, "job")' /\ worker'[w].job = work_queue[1] /\ ~At(w, "job")
          /\ \A v \in Workers \ {w} : worker'[v] = worker[v]
      BY <1>0, <1>1, <2>1 DEF At
    <2>3. 1 \in DOMAIN work_queue
      BY <1>0, <1>1
    <2>4. \A i \in DOMAIN work_queue' :
            i + 1 \in DOMAIN work_queue /\ work_queue'[i] = work_queue[i + 1]
      BY <1>0, <1>1, <2>1
    <2>5. \A i \in DOMAIN work_queue :
            i = 1 \/ (i - 1 \in DOMAIN work_queue' /\ work_queue'[i - 1] = work_queue[i])
      BY <1>0, <1>1, <2>1
    <2>6. \A r \in Ranges : AtJob(r)' <=> AtJob(r) \/ r = work_queue[1].range
      BY <2>2 DEF AtJob, At
    <2>7. \A r \in Ranges : Queued(r) <=> Queued(r)' \/ r = work_queue[1].range
      <3>1. ASSUME NEW r \in Ranges, Queued(r) PROVE Queued(r)' \/ r = work_queue[1].range
        BY <2>5, <3>1 DEF Queued
      <3>2. ASSUME NEW r \in Ranges, Queued(r)' \/ r = work_queue[1].range PROVE Queued(r)
        BY <2>3, <2>4, <3>2 DEF Queued
      <3> QED
        BY <3>1, <3>2
    <2> QED
      BY <1>a, <1>b, <1>c, <2>1, <2>6, <2>7, SamePhase
  <1>2. CASE \/ TakeJob(w) /\ work_queue = <<>>
             \/ NotifyMain(w) \/ WakeSpuriously(w) \/ PushDone(w)
    <2>1. /\ ~At(w, "job") /\ UNCHANGED <<work_queue, walks, io_error>>
      BY <1>2 DEF TakeJob, NotifyMain, WakeSpuriously, PushDone, At
    <2>2. worker'[w].at # "job" /\ \A v \in Workers \ {w} : worker'[v] = worker[v]
      BY <1>0, <1>2 DEF TakeJob, NotifyMain, WakeSpuriously, PushDone, Go
    <2>3. \A r \in Ranges : (AtJob(r)' <=> AtJob(r)) /\ (Queued(r)' <=> Queued(r))
      BY <2>1, <2>2 DEF AtJob, Queued, At
    <2> QED
      BY <1>a, <1>b, <1>c, <2>1, <2>3, SamePhase
  <1>3. CASE RunJob(w)
    <2>1. At(w, "job") /\ w \in Busy /\ UNCHANGED work_queue
      BY <1>3 DEF RunJob, Busy
    <2>2. worker'[w].at # "job" /\ \A v \in Workers \ {w} : worker'[v] = worker[v]
      BY <1>0, <1>3 DEF RunJob, Go
    <2>3. \A r \in Ranges : Queued(r)' <=> Queued(r)
      BY <2>1 DEF Queued
    <2>4. CASE worker[w].job.intent = "quit"
      <3>1. UNCHANGED <<walks, io_error>>
        BY <1>3, <2>4 DEF RunJob
      <3>2. worker[w].job = QuitJob
        BY <1>0, <2>1, <2>4 DEF Jobs, RangeJobs, Intents
      <3>3. worker[w].job.range = None /\ None \notin Ranges
        BY <3>2, ScanPoolAssumption DEF QuitJob, Job
      <3>4. \A r \in Ranges : AtJob(r)' <=> AtJob(r)
        BY <2>2, <3>3 DEF AtJob, At
      <3> QED
        BY <1>a, <1>b, <1>c, <2>3, <3>1, <3>4, SamePhase
    <2>5. CASE worker[w].job.intent # "quit"
      <3> DEFINE job == worker[w].job
                 range == worker[w].job.range
      <3>1. DoJob(job)
        BY <1>3, <2>5 DEF RunJob
      <3>2. job \in RangeJobs
        BY <1>0, <2>1, <2>5, JobsOfRanges
      <3>3. range \in Ranges
        BY <3>2 DEF RangeJobs
      <3>4. ~Stopping
        BY <2>1, <2>5 DEF Accounts, QuitJob, Job
      <3>5. OneJobPerRange
        BY <3>4 DEF Apart
      <3>6. job.intent = intent
        BY <2>1, <3>4 DEF OneBatch
      <3>7. pc \in BatchPlaces
        <4>1. CASE nr = 0
          BY <2>1, <3>4, <4>1, Idle
        <4> QED
          BY <4>1 DEF Accounts
      <3>8. job.intent = Kind
        BY <3>6, <3>7 DEF Kind
      <3>9. Held(range) /\ ~Queued(range) /\ ~Unhanded(range)
        BY <2>1, <3>3, <3>5 DEF OneJobPerRange, Held
      <3>10. \A v \in Workers \ {w} : At(v, "job") => worker[v].job.range # range
        BY <2>1, <3>5 DEF OneJobPerRange, Busy
      <3>11. AtJob(range)
        BY <2>1 DEF AtJob
      <3>12. \A r \in Ranges : AtJob(r)' <=> r # range /\ AtJob(r)
        BY <2>1, <2>2, <3>10 DEF AtJob, At
      <3>13. \A r \in Ranges : Unhanded(r)' \/ Queued(r)' \/ AtJob(r)'
                                 <=> r # range /\ (Unhanded(r) \/ Queued(r) \/ AtJob(r))
        BY <1>c, <2>3, <3>9, <3>12
      <3>14. range \in Unvisited /\ Unvisited' = Unvisited \ {range}
        BY <3>3, <3>11, <3>13, VisitsOne
      <3>15. Phases!Visit(range)
        BY <1>a, <1>b, <3>1, <3>2, <3>8, <3>14, DoJobVisits
      <3> QED
        BY <3>3, <3>15
    <2> QED
      BY <2>4, <2>5
  <1> QED
    BY <1>1, <1>2, <1>3 DEF WorkerStep

\* No job, no range that was not visited.
LEMMA IdleVisited ==
  ASSUME TypeInv, Accounts, ~Stopping, nr = 0, pc \notin {"push", "notify"}
  PROVE  Unvisited = {}
  <1>1. work_queue = <<>> /\ Busy = {}
    BY Idle
  <1>2. \A r \in Ranges : ~Unhanded(r) /\ ~Queued(r) /\ ~AtJob(r)
    BY <1>1 DEF Unhanded, Queued, AtJob, Busy
  <1>3. \A r \in Ranges : r \notin Unvisited
    BY <1>2, UnvisitedPlaces
  <1> QED
    BY <1>3 DEF Unvisited

\* What the main thread's steps are to the batch.
LEMMA MainStepPhase ==
  ASSUME TypeInv, Accounts, Apart, OneBatch, MainStep
  PROVE  \/ UNCHANGED <<RangeSet, Kind, Unvisited, walks, io_error>>
         \/ Phases!Next
  <1> USE DEF jobVars, queueVars, rangeVars
  <1>0. /\ worker \in [Workers -> [at : WorkerPlaces, job : Jobs \cup {NoJob}]]
        /\ work_queue \in Seq(Jobs) /\ idle_ranges \in Seq(Ranges) /\ next \in Nat \ {0}
        /\ intent \in Intents
    BY DEF TypeInv, TypeOK
  <1>a. UNCHANGED worker => \A r \in Ranges : AtJob(r)' <=> AtJob(r)
    BY DEF AtJob, At
  <1>b. UNCHANGED work_queue => \A r \in Ranges : Queued(r)' <=> Queued(r)
    BY DEF Queued
  <1>1. CASE CreateThreads
    <2>1. /\ pc = "create" /\ pc' = "round" /\ UNCHANGED <<nr, idle_ranges, work_queue, walks, io_error>>
          /\ \A w \in Workers : worker'[w].at \in {"pop", "absent"}
      BY <1>1 DEF CreateThreads
    <2>2. ~Stopping /\ nr = 0
      BY <2>1 DEF Stopping, Accounts, BatchPlaces
    <2>3. work_queue = <<>> /\ Busy = {}
      BY <2>2, Idle
    <2>4. \A r \in Ranges : /\ ~AtJob(r) /\ ~Queued(r) /\ ~Unhanded(r)
                            /\ ~AtJob(r)' /\ ~Queued(r)' /\ ~Unhanded(r)'
      BY <2>1, <2>3 DEF AtJob, At, Queued, Unhanded, Busy
    <2>5. Kind' = Kind
      BY <2>1 DEF Kind, BatchPlaces
    <2> QED
      BY <2>1, <2>4, <2>5, SamePhase
  <1>2. CASE \/ BeginRound \/ ReloadConf \/ BeginScans \/ NextScanRound \/ EndScanRounds
             \/ CountRefs \/ Join
    <2>1. /\ pc \notin BatchPlaces /\ pc' \notin BatchPlaces
          /\ UNCHANGED <<idle_ranges, queueVars, worker, walks, io_error>>
      BY <1>2 DEF BeginRound, ReloadConf, BeginScans, NextScanRound, EndScanRounds, CountRefs,
                  Join, BatchPlaces
    <2>2. \A r \in Ranges : ~Unhanded(r) /\ ~Unhanded(r)'
      BY <2>1 DEF Unhanded, BatchPlaces
    <2>3. Kind' = Kind
      BY <2>1 DEF Kind
    <2> QED
      BY <1>a, <1>b, <2>1, <2>2, <2>3, SamePhase
  <1>3. CASE Collect
    <2>1. /\ pc = "collect" /\ pc' \in {"round", "walk"} /\ idle_ranges' \in Arrangements
          /\ walks' = [r \in Ranges |-> 0] /\ io_error' = {} /\ UNCHANGED <<nr, queueVars, worker>>
      BY <1>3 DEF Collect
    <2>2. nr = 0 /\ ~Stopping
      BY <2>1 DEF Accounts, BatchPlaces, Stopping
    <2>3. Unvisited = {}
      BY <2>1, <2>2, IdleVisited
    <2>4. \A r \in Ranges : ~Unhanded(r)' /\ ~Queued(r)' /\ ~AtJob(r)'
      <3>1. \A r \in Ranges : ~Queued(r) /\ ~AtJob(r)
        BY <2>3, UnvisitedPlaces
      <3> QED
        BY <1>a, <1>b, <2>1, <3>1 DEF Unhanded
    <2>5. Unvisited' = {}
      <3>1. \A r \in Ranges : r \notin Unvisited'
        BY <2>4, UnvisitedPlacesNext
      <3> QED
        BY <3>1 DEF Unvisited
    <2>6. idle_ranges' \in Seq(Ranges)
      BY <2>1, ArrangementsAreSequences
    <2>7. RangeSet' \in SUBSET Ranges
      BY <2>6 DEF RangeSet
    <2>8. Kind = "none" /\ Kind' = "none"
      BY <2>1 DEF Kind, BatchPlaces
    <2>9. Phases!Collect
      BY <2>1, <2>3, <2>5, <2>7, <2>8 DEF Phases!Collect, Kind
    <2> QED
      BY <2>9 DEF Phases!Next
  <1>4. CASE BeginScan \/ BeginMigrate
    <2>1. /\ pc \in {"scan", "parameters"} /\ pc' = "push" /\ next' = 1
          /\ intent' \in {"walk", "migrate"} /\ UNCHANGED <<idle_ranges, queueVars, worker, walks, io_error>>
      BY <1>4 DEF BeginScan, BeginMigrate, BeginBatch
    <2>2. nr = 0 /\ ~Stopping
      BY <2>1 DEF Accounts, BatchPlaces, Stopping
    <2>3. \A r \in Ranges : ~Queued(r) /\ ~AtJob(r)
      BY <2>1, <2>2, IdleVisited, UnvisitedPlaces
    <2>4. \A r \in Ranges : Unhanded(r)' <=> r \in RangeSet
      BY <1>0, <2>1 DEF Unhanded, RangeSet
    <2>5. \A r \in Ranges : r \in Unvisited' <=> r \in RangeSet
      BY <1>a, <1>b, <2>1, <2>3, <2>4, UnvisitedPlacesNext
    <2>6. Unvisited' = RangeSet
      BY <1>0, <2>5 DEF Unvisited, RangeSet
    <2>7. RangeSet # {} /\ RangeSet' = RangeSet
      <3>1. idle_ranges # <<>>
        BY <2>1 DEF OneBatch
      <3>2. 1 \in DOMAIN idle_ranges
        BY <1>0, <3>1
      <3> QED
        BY <2>1, <3>2 DEF RangeSet
    <2>8. Kind = "none" /\ Kind' = intent'
      BY <2>1 DEF Kind, BatchPlaces
    <2>9. Phases!Begin
      BY <2>1, <2>6, <2>7, <2>8 DEF Phases!Begin, Kind
    <2> QED
      BY <2>9 DEF Phases!Next
  <1>5. CASE EndScan \/ NextProfile \/ EndPeriod
    <2>1. /\ pc = "pop" /\ nr = 0 /\ pc' \notin BatchPlaces
          /\ UNCHANGED <<idle_ranges, queueVars, worker, walks, io_error>>
      BY <1>5 DEF EndScan, NextProfile, EndPeriod, BatchOver, BeginStop, BatchPlaces
    <2>2. ~Stopping
      BY <2>1 DEF Stopping
    <2>3. Unvisited = {}
      BY <2>1, <2>2, IdleVisited
    <2>4. \A r \in Ranges : ~Unhanded(r)' /\ ~Queued(r)' /\ ~AtJob(r)'
      <3>1. \A r \in Ranges : ~Queued(r) /\ ~AtJob(r)
        BY <2>3, UnvisitedPlaces
      <3> QED
        BY <1>a, <1>b, <2>1, <3>1 DEF Unhanded, BatchPlaces
    <2>5. Unvisited' = {}
      <3>1. \A r \in Ranges : r \notin Unvisited'
        BY <2>4, UnvisitedPlacesNext
      <3> QED
        BY <3>1 DEF Unvisited
    <2>6. Kind # "none" /\ Kind' = "none" /\ RangeSet' = RangeSet
      BY <1>0, <2>1 DEF Kind, BatchPlaces, Intents, RangeSet
    <2>7. Phases!End
      BY <2>1, <2>3, <2>5, <2>6 DEF Phases!End, Kind
    <2> QED
      BY <2>7 DEF Phases!Next
  <1>6. CASE AllPushed \/ TakeDone \/ Gather
    <2>1. /\ UNCHANGED <<idle_ranges, intent, work_queue, worker, walks, io_error>>
          /\ pc \in BatchPlaces /\ pc' \in {"pop", "wait", "gather"}
          /\ pc = "push" => next > Len(idle_ranges)
          /\ pc # "notify"
      BY <1>6 DEF AllPushed, TakeDone, Gather, BatchPlaces
    <2>2. \A r \in Ranges : ~Unhanded(r) /\ ~Unhanded(r)'
      BY <1>0, <2>1 DEF Unhanded
    <2>3. Kind' = Kind
      BY <2>1 DEF Kind, BatchPlaces
    <2> QED
      BY <1>a, <1>b, <2>1, <2>2, <2>3, SamePhase
  <1>7. CASE PushQuit
    <2>1. /\ pc = "stop" /\ pc' = "notify_quit" /\ work_queue' = Append(work_queue, QuitJob)
          /\ UNCHANGED <<idle_ranges, worker, walks, io_error>>
      BY <1>7 DEF PushQuit
    <2>2. \A r \in Ranges : ~Unhanded(r) /\ ~Unhanded(r)'
      BY <2>1 DEF Unhanded
    <2>3. QuitJob.range \notin Ranges
      BY ScanPoolAssumption DEF QuitJob, Job
    <2>4. /\ \A i \in DOMAIN work_queue : i \in DOMAIN work_queue' /\ work_queue'[i] = work_queue[i]
          /\ \A i \in DOMAIN work_queue' :
               (i \in DOMAIN work_queue /\ work_queue'[i] = work_queue[i]) \/ work_queue'[i] = QuitJob
      BY <1>0, <2>1
    <2>5. \A r \in Ranges : Queued(r)' <=> Queued(r)
      BY <2>3, <2>4 DEF Queued
    <2>6. Kind' = Kind
      BY <2>1 DEF Kind, BatchPlaces
    <2> QED
      BY <1>a, <2>1, <2>2, <2>5, <2>6, SamePhase
  <1>8. CASE NotifyWorker \/ NotifyQuit
    <2>1. NotifyOne /\ UNCHANGED <<idle_ranges, intent, work_queue, walks, io_error>>
      BY <1>8 DEF NotifyWorker, NotifyQuit
    <2>2. \/ pc = "notify" /\ pc' = "push" /\ next' = next + 1
          \/ pc = "notify_quit" /\ pc' = "stop"
      BY <1>8 DEF NotifyWorker, NotifyQuit
    <2>3. \A r \in Ranges : Unhanded(r)' <=> Unhanded(r)
      BY <1>0, <2>1, <2>2 DEF Unhanded
    <2>4. Kind' = Kind
      BY <2>1, <2>2 DEF Kind, BatchPlaces
    <2>5. \A r \in Ranges : AtJob(r)' <=> AtJob(r)
      <3>1. CASE UNCHANGED worker
        BY <1>a, <3>1
      <3>2. CASE \E w \in Waiting : Go(w, "pop")
        <4>1. PICK w \in Workers : At(w, "wait") /\ Go(w, "pop")
          BY <3>2 DEF Waiting
        <4>2. worker'[w].at = "pop" /\ \A v \in Workers \ {w} : worker'[v] = worker[v]
          BY <1>0, <4>1 DEF Go
        <4> QED
          BY <4>1, <4>2 DEF AtJob, At
      <3> QED
        BY <2>1, <3>1, <3>2 DEF NotifyOne
    <2> QED
      BY <1>b, <2>1, <2>3, <2>4, <2>5, SamePhase
  <1>9. CASE PushJob
    <2>1. /\ pc = "push" /\ pc' = "notify" /\ next <= Len(idle_ranges)
          /\ work_queue' = Append(work_queue, Job(intent, idle_ranges[next]))
          /\ UNCHANGED <<idle_ranges, intent, next, worker, walks, io_error>>
      BY <1>9 DEF PushJob
    <2> DEFINE range == idle_ranges[next]
    <2>2. next \in DOMAIN idle_ranges /\ range \in Ranges
      BY <1>0, <2>1
    <2>3. \A r \in Ranges : Unhanded(r) <=> Unhanded(r)' \/ r = range
      BY <1>0, <2>1, <2>2 DEF Unhanded
    <2>4. /\ \A i \in DOMAIN work_queue : i \in DOMAIN work_queue' /\ work_queue'[i] = work_queue[i]
          /\ Len(work_queue) + 1 \in DOMAIN work_queue'
          /\ work_queue'[Len(work_queue) + 1].range = range
          /\ \A i \in DOMAIN work_queue' :
               (i \in DOMAIN work_queue /\ work_queue'[i] = work_queue[i]) \/ work_queue'[i].range = range
      BY <1>0, <2>1 DEF Job
    <2>5. \A r \in Ranges : Queued(r)' <=> Queued(r) \/ r = range
      BY <2>4 DEF Queued
    <2>6. Kind' = Kind
      BY <2>1 DEF Kind, BatchPlaces
    <2> QED
      BY <1>a, <2>1, <2>3, <2>5, <2>6, SamePhase
  <1>10. CASE RunJobInline
    <2> DEFINE range == idle_ranges[next]
               job == Job(intent, idle_ranges[next])
    <2>1. /\ pc = "push" /\ pc' = "push" /\ next <= Len(idle_ranges) /\ next' = next + 1
          /\ DoJob(job) /\ UNCHANGED <<idle_ranges, intent, work_queue, worker>>
      BY <1>10 DEF RunJobInline
    <2>2. next \in DOMAIN idle_ranges /\ range \in Ranges
      BY <1>0, <2>1
    <2>3. OneJobPerRange /\ DistinctRanges
      BY <2>1 DEF Apart, Stopping
    <2>4. Unhanded(range)
      BY <1>0, <2>1, <2>2 DEF Unhanded
    <2>5. \A r \in Ranges : Unhanded(r)' <=> r # range /\ Unhanded(r)
      BY <1>0, <2>1, <2>2, <2>3 DEF Unhanded, DistinctRanges
    <2>6. ~Queued(range) /\ ~AtJob(range)
      BY <2>2, <2>3, <2>4 DEF OneJobPerRange, Held, AtJob, Busy
    <2>7. \A r \in Ranges : Unhanded(r)' \/ Queued(r)' \/ AtJob(r)'
                              <=> r # range /\ (Unhanded(r) \/ Queued(r) \/ AtJob(r))
      BY <1>a, <1>b, <2>1, <2>5, <2>6
    <2>8. range \in Unvisited /\ Unvisited' = Unvisited \ {range}
      BY <2>2, <2>4, <2>7, VisitsOne
    <2>9. job \in RangeJobs /\ job.range = range /\ job.intent = intent
      BY <1>0, <2>2 DEF RangeJobs, Job
    <2>10. Kind = intent /\ Kind' = Kind
      BY <2>1 DEF Kind, BatchPlaces
    <2>11. Phases!Visit(job.range)
      <3> HIDE DEF job, range
      <3> QED
        BY <2>1, <2>8, <2>9, <2>10, DoJobVisits
    <2> QED
      BY <2>2, <2>9, <2>11 DEF Phases!Next
  <1> QED
    BY <1>1, <1>2, <1>3, <1>4, <1>5, <1>6, <1>7, <1>8, <1>9, <1>10 DEF MainStep

\* Every step of the program is a step of the batches or leaves them alone.
LEMMA NextPhase ==
  TypeInv /\ Accounts /\ Apart /\ OneBatch /\ [Next]_vars => [Phases!Next]_(Phases!phaseVars)
  <1> SUFFICES ASSUME TypeInv, Accounts, Apart, OneBatch, [Next]_vars
               PROVE  \/ UNCHANGED <<RangeSet, Kind, Unvisited, walks, io_error>>
                      \/ Phases!Next
    BY DEF Phases!phaseVars, Kind
  <1>1. CASE MainWakesSpuriously \/ Signal \/ UNCHANGED vars
    <2>1. /\ UNCHANGED <<idle_ranges, intent, next, work_queue, worker, walks, io_error>>
          /\ pc' = pc \/ (pc = "wait" /\ pc' = "pop")
      BY <1>1 DEF MainWakesSpuriously, Signal, vars, jobVars, queueVars, rangeVars
    <2>2. Kind' = Kind
      BY <2>1 DEF Kind, BatchPlaces
    <2>3. \A r \in Ranges : /\ Unhanded(r)' <=> Unhanded(r)
                            /\ Queued(r)' <=> Queued(r)
                            /\ AtJob(r)' <=> AtJob(r)
      BY <2>1 DEF Unhanded, Queued, AtJob, At
    <2> QED
      BY <2>1, <2>2, <2>3, SamePhase
  <1> QED
    BY <1>1, MainStepPhase, WorkerStepPhase DEF Next, Finished, Phases!Next

\* At the start no batch was promised.
LEMMA InitPhase == Init => Phases!Init
  <1> SUFFICES ASSUME Init PROVE Phases!Init
    OBVIOUS
  <1>1. \A r \in Ranges : ~Unhanded(r) /\ ~Queued(r) /\ ~AtJob(r)
    BY DEF Init, Unhanded, Queued, AtJob, At
  <1>2. Unvisited = {}
    <2>1. \A r \in Ranges : r \notin Unvisited
      BY <1>1, UnvisitedPlaces
    <2> QED
      BY <2>1 DEF Unvisited
  <1>3. RangeSet = {} /\ pc \notin BatchPlaces
    BY DEF Init, RangeSet, BatchPlaces
  <1> QED
    BY <1>2, <1>3 DEF Init, Phases!Init

\* The loop and its threads implement the batches of ScanPhases: every range of the period
\* once, and nothing else until all were visited (walk_once, migrate, consumer_loop).
THEOREM PhasesImplemented == Spec => ImplementsPhases
  <1>1. Spec => [](TypeInv /\ Accounts /\ Apart /\ OneBatch)
    BY InitType, InitAccounts, InitApart, InitOneBatch, NextType, NextAccounts, NextApart,
       NextOneBatch, PTL DEF Spec
  <1> QED
    BY <1>1, InitPhase, NextPhase, PTL DEF Spec, ImplementsPhases, Phases!Spec

-----------------------------------------------------------------------------
(* Walk counters.                                                          *)

Walking == pc \in BatchPlaces /\ intent = "walk"
BetweenPeriods ==
  pc \in {"create", "reload", "collect", "count", "parameters"} \/ (pc \in BatchPlaces /\ intent = "migrate")

\* How many walks a range had when it was visited by all of them so far.
WalksAt(n) == \A r \in RangeSet \ io_error : walks[r] = n

\* The counter of the loop follows rounds and scans; those of the ranges follow it.
Aligned ==
  /\ nr_scan_rounds = 0 \/ nr_scan_rounds < option.nr_scan_rounds
  /\ BetweenPeriods => nr_scan_rounds = 0
  /\ pc = "walk" \/ (pc = "round" /\ nr_scan_rounds > 0) =>
       nr_walks = nr_scan_rounds * option.nr_scans /\ WalksAt(nr_walks)
  /\ pc = "scan" =>
       /\ nr_walks = nr_scan_rounds * option.nr_scans /\ WalksAt(nr_walks + scans)
       /\ scans < option.nr_scans
  /\ Walking =>
       /\ nr_walks = nr_scan_rounds * option.nr_scans /\ scans <= option.nr_scans
       /\ \A r \in RangeSet \ io_error :
            walks[r] = nr_walks + scans - (IF r \in Unvisited THEN 1 ELSE 0)
  /\ pc = "walked" => nr_walks = (nr_scan_rounds + 1) * option.nr_scans /\ WalksAt(nr_walks)
  /\ pc = "count" =>
       /\ nr_walks = option.nr_scans * (IF option.nr_scan_rounds > 1 THEN option.nr_scan_rounds ELSE 1)
       /\ WalksAt(nr_walks)

\* Options have their types.
LEMMA OptionType ==
  ASSUME TypeInv
  PROVE  option.nr_scans \in Nat \ {0} /\ option.nr_scan_rounds \in Nat
  BY ConfsAssumption DEF TypeInv, TypeOK

\* The walks of one more round.
LEMMA OneMoreRound ==
  ASSUME NEW m \in Nat, NEW n \in Nat
  PROVE  (m + 1) * n = m * n + n /\ (m + 1) * n = n * (m + 1)
  OBVIOUS

\* A step within a batch of walks is a visit, or counts nothing.
LEMMA BatchAligned ==
  ASSUME TypeInv, Aligned, pc \in BatchPlaces, pc' \in BatchPlaces,
         UNCHANGED <<option, intent, nr_scan_rounds, scans, nr_walks, idle_ranges>>,
         \/ UNCHANGED <<RangeSet, Kind, Unvisited, walks, io_error>>
         \/ \E r \in Ranges : Phases!Visit(r)
  PROVE  Aligned'
  <1>0. /\ walks \in [Ranges -> Nat] /\ scans \in Nat /\ nr_walks \in Nat
        /\ RangeSet' = RangeSet /\ RangeSet \subseteq Ranges
    BY DEF TypeInv, TypeOK, RangeSet
  <1>1. /\ pc' \notin {"walk", "round", "scan", "walked", "count"}
        /\ Walking' => Walking
        /\ BetweenPeriods' => BetweenPeriods
    BY DEF Walking, BetweenPeriods, BatchPlaces
  <1>2. ASSUME Walking, NEW r \in RangeSet \ io_error'
        PROVE  /\ r \notin io_error
               /\ walks'[r] = nr_walks + scans - (IF r \in Unvisited' THEN 1 ELSE 0)
    <2>0. r \notin io_error =>
            walks[r] = nr_walks + scans - (IF r \in Unvisited THEN 1 ELSE 0)
      BY <1>2 DEF Aligned
    <2>1. CASE UNCHANGED <<RangeSet, Kind, Unvisited, walks, io_error>>
      BY <1>2, <2>0, <2>1
    <2>2. CASE \E q \in Ranges : Phases!Visit(q)
      <3>1. PICK q \in Ranges : Phases!Visit(q)
        BY <2>2
      <3>2. /\ q \in Unvisited /\ Unvisited' = Unvisited \ {q}
            /\ \/ walks' = [walks EXCEPT ![q] = @ + 1] /\ io_error' \in {io_error, io_error \cup {q}}
               \/ io_error' = io_error \cup {q} /\ UNCHANGED walks
        BY <1>2, <3>1 DEF Phases!Visit, Walking
      <3>3. r \notin io_error
        BY <1>2, <3>2
      <3>4. CASE r = q
        <4>1. walks'[r] = walks[r] + 1
          BY <1>0, <1>2, <3>2, <3>4
        <4>2. walks[r] = nr_walks + scans - 1 /\ r \notin Unvisited'
          BY <2>0, <3>2, <3>3, <3>4
        <4>3. walks[r] \in Nat
          BY <1>0, <1>2
        <4> QED
          BY <1>0, <3>3, <4>1, <4>2, <4>3
      <3>5. CASE r # q
        <4>1. walks'[r] = walks[r] /\ (r \in Unvisited' <=> r \in Unvisited)
          BY <1>0, <1>2, <3>2, <3>5
        <4> QED
          BY <2>0, <3>3, <4>1
      <3> QED
        BY <3>4, <3>5
    <2> QED
      BY <2>1, <2>2
  <1>3. Walking' =>
          /\ nr_walks' = nr_scan_rounds' * option'.nr_scans /\ scans' <= option'.nr_scans
          /\ \A r \in RangeSet' \ io_error' :
               walks'[r] = nr_walks' + scans' - (IF r \in Unvisited' THEN 1 ELSE 0)
    BY <1>0, <1>1, <1>2 DEF Aligned
  <1> QED
    BY <1>1, <1>3 DEF Aligned

\* Between batches, nothing that is counted changes.
LEMMA AlignedFrame ==
  ASSUME Aligned, UNCHANGED <<option, nr_scan_rounds>>,
         pc' \notin BatchPlaces \/ (pc' \in BatchPlaces /\ intent' # "walk"),
         pc' \notin {"walk", "scan", "walked", "count"},
         pc' = "round" \/ BetweenPeriods' => nr_scan_rounds = 0
  PROVE  Aligned'
  BY DEF Aligned, Walking

\* The steps of the main thread.
LEMMA MainStepAligned ==
  ASSUME TypeInv, Accounts, Apart, OneBatch, Aligned, MainStep
  PROVE  Aligned'
  <1> USE DEF confVars, loopVars, jobVars, rangeVars
  <1>0. /\ walks \in [Ranges -> Nat] /\ scans \in Nat /\ nr_walks \in Nat
        /\ nr_scan_rounds \in Nat /\ RangeSet \subseteq Ranges
    BY DEF TypeInv, TypeOK, RangeSet
  <1>a. ASSUME UNCHANGED <<idle_ranges, walks, io_error>>, NEW n, WalksAt(n)
        PROVE  WalksAt(n)'
    BY <1>a DEF WalksAt, RangeSet
  <1>1. CASE CreateThreads
    BY <1>1, AlignedFrame DEF CreateThreads, Aligned, BetweenPeriods, Walking, BatchPlaces
  <1>2. CASE BeginRound
    <2>1. /\ pc = "round" /\ pc' \in {"stop", "reload", "walk"}
          /\ pc' = "walk" => nr_scan_rounds > 0
          /\ pc' = "reload" => nr_scan_rounds' = 0
          /\ UNCHANGED <<option, nr_scan_rounds, nr_walks, idle_ranges, walks, io_error>>
      BY <1>0, <1>2 DEF BeginRound
    <2>2. pc' = "walk" => nr_walks' = nr_scan_rounds' * option'.nr_scans /\ WalksAt(nr_walks)'
      BY <1>a, <2>1 DEF Aligned
    <2> QED
      BY <2>1, <2>2 DEF Aligned, Walking, BetweenPeriods, BatchPlaces, WalksAt
  <1>3. CASE ReloadConf
    <2>1. pc = "reload" /\ pc' = "collect" /\ nr_scan_rounds' = 0
      BY <1>3 DEF ReloadConf, OneBatch
    <2> QED
      BY <2>1 DEF Aligned, Walking, BetweenPeriods, BatchPlaces
  <1>4. CASE Collect
    <2>1. /\ nr_scan_rounds' = 0 /\ pc' \in {"round", "walk"}
          /\ pc' = "walk" => nr_walks' = 0 /\ UNCHANGED option
          /\ walks' = [r \in Ranges |-> 0] /\ idle_ranges' \in Arrangements
      BY <1>4 DEF Collect, OneBatch
    <2>2. RangeSet' \subseteq Ranges
      BY <2>1, ArrangementsAreSequences DEF RangeSet
    <2>3. pc' = "walk" => nr_walks' = nr_scan_rounds' * option'.nr_scans
      BY <2>1, OptionType
    <2>4. pc' = "walk" => WalksAt(nr_walks)'
      BY <2>1, <2>2 DEF WalksAt
    <2> QED
      BY <2>1, <2>3, <2>4 DEF Aligned, Walking, BetweenPeriods, BatchPlaces
  <1>5. CASE BeginScans
    <2>1. /\ pc = "walk" /\ pc' = "scan" /\ scans' = 0
          /\ UNCHANGED <<option, nr_scan_rounds, nr_walks, idle_ranges, walks, io_error>>
      BY <1>5 DEF BeginScans
    <2>2. nr_walks = nr_scan_rounds * option.nr_scans /\ WalksAt(nr_walks)
      BY <2>1 DEF Aligned
    <2>3. WalksAt(nr_walks + scans)' /\ scans' < option'.nr_scans
      BY <1>0, <2>1, <2>2, OptionType DEF WalksAt, RangeSet
    <2> QED
      BY <2>1, <2>2, <2>3 DEF Aligned, Walking, BetweenPeriods, BatchPlaces
  <1>6. CASE BeginScan
    <2>1. /\ pc = "scan" /\ pc' = "push" /\ scans' = scans + 1 /\ intent' = "walk"
          /\ UNCHANGED <<option, nr_scan_rounds, nr_walks, idle_ranges, walks, io_error>>
      BY <1>6 DEF BeginScan, BeginBatch
    <2>2. /\ nr_walks = nr_scan_rounds * option.nr_scans /\ scans < option.nr_scans
          /\ WalksAt(nr_walks + scans)
      BY <2>1 DEF Aligned
    <2>3. Kind = "none" /\ Kind' = "walk"
      BY <2>1 DEF Kind, BatchPlaces
    <2>4. Unvisited' = RangeSet /\ RangeSet' = RangeSet
      BY <1>6, <2>1, <2>3, MainStepPhase
      DEF Phases!Next, Phases!Collect, Phases!Begin, Phases!Visit, Phases!End, Kind, RangeSet
    <2>5. \A r \in RangeSet' \ io_error' :
            walks'[r] = nr_walks' + scans' - (IF r \in Unvisited' THEN 1 ELSE 0)
      <3>1. \A r \in RangeSet \ io_error : walks[r] = nr_walks + scans
        BY <2>2 DEF WalksAt
      <3>2. nr_walks + scans = nr_walks + (scans + 1) - 1
        BY <1>0
      <3> QED
        BY <2>1, <2>4, <3>1, <3>2
    <2>6. scans' <= option'.nr_scans
      BY <1>0, <2>1, <2>2, OptionType
    <2> QED
      BY <2>1, <2>2, <2>5, <2>6 DEF Aligned, Walking, BetweenPeriods, BatchPlaces
  <1>7. CASE PushJob \/ NotifyWorker \/ RunJobInline \/ AllPushed \/ TakeDone \/ Gather
    <2>1. /\ pc \in BatchPlaces /\ pc' \in BatchPlaces
          /\ UNCHANGED <<option, intent, nr_scan_rounds, scans, nr_walks, idle_ranges>>
      BY <1>7 DEF PushJob, NotifyWorker, RunJobInline, AllPushed, TakeDone, Gather, BatchPlaces
    <2>2. intent \in {"walk", "migrate"}
      BY DEF TypeInv, TypeOK, Intents
    <2>3. \/ UNCHANGED <<RangeSet, Kind, Unvisited, walks, io_error>>
          \/ \E r \in Ranges : Phases!Visit(r)
      BY <2>1, <2>2, MainStepPhase
      DEF Phases!Next, Phases!Collect, Phases!Begin, Phases!End, Kind
    <2> QED
      BY <2>1, <2>3, BatchAligned
  <1>8. CASE EndScan
    <2>1. /\ Walking /\ pc = "pop" /\ nr = 0
          /\ UNCHANGED <<option, nr_scan_rounds, scans, idle_ranges, walks, io_error>>
          /\ \/ scans < option.nr_scans /\ pc' = "scan" /\ UNCHANGED nr_walks
             \/ ~(scans < option.nr_scans) /\ pc' = "walked" /\ nr_walks' = nr_walks + scans
      BY <1>8 DEF EndScan, BatchOver, Walking, BatchPlaces
    <2>2. Unvisited = {}
      BY <2>1, IdleVisited DEF Stopping
    <2>3. /\ nr_walks = nr_scan_rounds * option.nr_scans /\ scans <= option.nr_scans
          /\ \A r \in RangeSet \ io_error : walks[r] = nr_walks + scans
      <3>1. \A r \in RangeSet \ io_error : walks[r] = nr_walks + scans - 0
        BY <2>1, <2>2 DEF Aligned
      <3> QED
        BY <1>0, <2>1, <3>1 DEF Aligned
    <2>4. WalksAt(nr_walks + scans)
      BY <2>3 DEF WalksAt
    <2>5. CASE pc' = "scan"
      <3>1. WalksAt(nr_walks + scans)'
        BY <2>1, <2>4, <2>5 DEF WalksAt, RangeSet
      <3> QED
        BY <2>1, <2>3, <2>5, <3>1 DEF Aligned, Walking, BetweenPeriods, BatchPlaces
    <2>6. CASE pc' = "walked"
      <3>1. scans = option.nr_scans /\ nr_walks' = nr_walks + scans
        BY <1>0, <2>1, <2>3, <2>6, OptionType
      <3>2. WalksAt(nr_walks)'
        BY <2>1, <2>4, <3>1 DEF WalksAt, RangeSet
      <3>3. (nr_scan_rounds + 1) * option.nr_scans = nr_scan_rounds * option.nr_scans + option.nr_scans
        BY <1>0, OptionType, OneMoreRound
      <3>4. nr_walks' = (nr_scan_rounds' + 1) * option'.nr_scans
        BY <2>1, <2>3, <3>1, <3>3
      <3> QED
        BY <2>1, <2>6, <3>2, <3>4 DEF Aligned, Walking, BetweenPeriods, BatchPlaces
    <2> QED
      BY <2>1, <2>5, <2>6
  <1>9. CASE NextScanRound
    <2>1. /\ pc = "walked" /\ pc' = "round" /\ nr_scan_rounds' = nr_scan_rounds + 1
          /\ nr_scan_rounds + 1 < option.nr_scan_rounds
          /\ UNCHANGED <<option, nr_walks, idle_ranges, walks, io_error>>
      BY <1>9 DEF NextScanRound
    <2>2. nr_walks = (nr_scan_rounds + 1) * option.nr_scans /\ WalksAt(nr_walks)
      BY <2>1 DEF Aligned
    <2>3. WalksAt(nr_walks)'
      BY <2>1, <2>2 DEF WalksAt, RangeSet
    <2> QED
      BY <2>1, <2>2, <2>3 DEF Aligned, Walking, BetweenPeriods, BatchPlaces
  <1>10. CASE EndScanRounds
    <2>1. /\ pc = "walked" /\ pc' = "count" /\ nr_scan_rounds' = 0
          /\ nr_scan_rounds + 1 >= option.nr_scan_rounds
          /\ UNCHANGED <<option, nr_walks, idle_ranges, walks, io_error>>
      BY <1>10 DEF EndScanRounds
    <2>2. nr_walks = (nr_scan_rounds + 1) * option.nr_scans /\ WalksAt(nr_walks)
      BY <2>1 DEF Aligned
    <2>3. nr_scan_rounds + 1 = IF option.nr_scan_rounds > 1 THEN option.nr_scan_rounds ELSE 1
      BY <1>0, <2>1, OptionType DEF Aligned
    <2>4. (nr_scan_rounds + 1) * option.nr_scans = option.nr_scans * (nr_scan_rounds + 1)
      BY <1>0, OptionType, OneMoreRound
    <2>5. WalksAt(nr_walks)'
      BY <2>1, <2>2 DEF WalksAt, RangeSet
    <2>6. nr_walks' = option'.nr_scans * (IF option'.nr_scan_rounds > 1 THEN option'.nr_scan_rounds ELSE 1)
      BY <2>1, <2>2, <2>3, <2>4
    <2> QED
      BY <2>1, <2>5, <2>6 DEF Aligned, Walking, BetweenPeriods, BatchPlaces
  <1>11. CASE CountRefs \/ BeginMigrate \/ NextProfile \/ EndPeriod \/ PushQuit \/ NotifyQuit \/ Join
    <2>1. /\ pc' \in {"parameters", "push", "stop", "round", "notify_quit", "done"}
          /\ pc' = "push" => intent' = "migrate"
          /\ UNCHANGED <<option, nr_scan_rounds>>
      BY <1>11 DEF CountRefs, BeginMigrate, BeginBatch, NextProfile, EndPeriod, BeginStop,
                   PushQuit, NotifyQuit, Join
    <2>2. pc' = "round" \/ BetweenPeriods' => BetweenPeriods
      <3>1. intent \in {"walk", "migrate"}
        BY DEF TypeInv, TypeOK, Intents
      <3> QED
        BY <1>11, <3>1 DEF CountRefs, BeginMigrate, BeginBatch, NextProfile, EndPeriod, BeginStop,
                   PushQuit, NotifyQuit, Join, BatchOver, BetweenPeriods, BatchPlaces
    <2>3. pc' = "round" \/ BetweenPeriods' => nr_scan_rounds = 0
      BY <2>2 DEF Aligned
    <2> QED
      BY <2>1, <2>3, AlignedFrame DEF BatchPlaces
  <1> QED
    BY <1>1, <1>2, <1>3, <1>4, <1>5, <1>6, <1>7, <1>8, <1>9, <1>10, <1>11 DEF MainStep

\* Every step of the program keeps the counters aligned.
LEMMA NextAligned ==
  TypeInv /\ Accounts /\ Apart /\ OneBatch /\ Aligned /\ [Next]_vars => Aligned'
  <1> SUFFICES ASSUME TypeInv, Accounts, Apart, OneBatch, Aligned, [Next]_vars PROVE Aligned'
    OBVIOUS
  <1> USE DEF confVars, loopVars, jobVars, queueVars, rangeVars
  <1>1. CASE MainWakesSpuriously
    <2>1. /\ pc \in BatchPlaces /\ pc' \in BatchPlaces
          /\ UNCHANGED <<option, intent, nr_scan_rounds, scans, nr_walks, idle_ranges, next,
                         work_queue, worker, walks, io_error>>
          /\ pc = "wait" /\ pc' = "pop"
      BY <1>1 DEF MainWakesSpuriously, BatchPlaces
    <2>2. Kind' = Kind
      BY <2>1 DEF Kind
    <2>3. \A r \in Ranges : /\ Unhanded(r)' <=> Unhanded(r)
                            /\ Queued(r)' <=> Queued(r)
                            /\ AtJob(r)' <=> AtJob(r)
      BY <2>1 DEF Unhanded, Queued, AtJob, At
    <2>4. UNCHANGED <<RangeSet, Kind, Unvisited, walks, io_error>>
      BY <2>1, <2>2, <2>3, SamePhase
    <2> QED
      BY <2>1, <2>4, BatchAligned
  <1>2. CASE Signal \/ UNCHANGED vars
    <2>1. UNCHANGED <<pc, option, intent, nr_scan_rounds, scans, nr_walks, idle_ranges, next,
                      work_queue, worker, walks, io_error>>
      BY <1>2 DEF Signal, vars
    <2>2. RangeSet' = RangeSet /\ Unvisited' = Unvisited
      BY <2>1 DEF RangeSet, Unvisited, Uses, At
    <2> QED
      BY <2>1, <2>2 DEF Aligned, Walking, BetweenPeriods, WalksAt
  <1>3. ASSUME NEW w \in Workers, WorkerStep(w) \/ WakeSpuriously(w)
        PROVE  Aligned'
    <2>1. /\ UNCHANGED <<option, intent, nr_scan_rounds, scans, nr_walks, idle_ranges>>
          /\ pc' = pc \/ (pc = "wait" /\ pc' = "pop")
      BY <1>3 DEF WorkerStep, TakeJob, RunJob, PushDone, NotifyMain, WakeSpuriously
    <2>2. \/ UNCHANGED <<RangeSet, Kind, Unvisited, walks, io_error>>
          \/ \E r \in Ranges : Phases!Visit(r)
      BY <1>3, WorkerStepPhase
    <2>3. CASE pc \in BatchPlaces
      <3>1. pc' \in BatchPlaces
        BY <2>1, <2>3 DEF BatchPlaces
      <3> QED
        BY <2>1, <2>2, <2>3, <3>1, BatchAligned
    <2>4. CASE pc \notin BatchPlaces
      <3>1. pc' = pc
        BY <2>1, <2>4 DEF BatchPlaces
      <3>2. UNCHANGED <<RangeSet, walks, io_error>>
        BY <2>2, <2>4 DEF Phases!Visit
      <3> QED
        BY <2>1, <2>4, <3>1, <3>2 DEF Aligned, Walking, BetweenPeriods, WalksAt
    <2> QED
      BY <2>3, <2>4
  <1> QED
    BY <1>1, <1>2, <1>3, MainStepAligned DEF Next, Finished

\* At the start nothing was walked.
LEMMA InitAligned == Init => Aligned
  BY DEF Init, Aligned, Walking, BetweenPeriods, BatchPlaces

\* When references are counted, every range was walked as often as the loop believes,
\* unless a walk of it failed, whatever the options were reloaded to
\* (GlobalScan::walk_multi).
THEOREM WalksAlign == Spec => []WalksAligned
  <1>1. Spec => [](TypeInv /\ Accounts /\ Apart /\ OneBatch /\ Aligned)
    BY InitType, InitAccounts, InitApart, InitOneBatch, InitAligned, NextType, NextAccounts,
       NextApart, NextOneBatch, NextAligned, PTL DEF Spec
  <1>2. Aligned => WalksAligned
    BY DEF Aligned, WalksAligned, WalksAt
  <1> QED
    BY <1>1, <1>2, PTL

-----------------------------------------------------------------------------
(* A range is done once in a batch.                                        *)

DoneOnce ==
  ~Stopping =>
    /\ \A i, j \in DOMAIN done_queue : i # j => done_queue[i].range # done_queue[j].range
    /\ pc = "gather" => ~Done(taken)

\* Appending a job of a range that is not done.
LEMMA AppendDone ==
  ASSUME done_queue \in Seq(RangeJobs), NEW job \in RangeJobs, ~Done(job.range),
         \A i, j \in DOMAIN done_queue : i # j => done_queue[i].range # done_queue[j].range,
         done_queue' = Append(done_queue, job)
  PROVE  /\ \A i, j \in DOMAIN done_queue' : i # j => done_queue'[i].range # done_queue'[j].range
         /\ \A r \in Ranges : Done(r)' <=> Done(r) \/ r = job.range
  <1>1. /\ \A i \in DOMAIN done_queue : i \in DOMAIN done_queue' /\ done_queue'[i] = done_queue[i]
        /\ \A i \in DOMAIN done_queue' : \/ i \in DOMAIN done_queue /\ done_queue'[i] = done_queue[i]
                                         \/ i = Len(done_queue) + 1 /\ done_queue'[i] = job
        /\ Len(done_queue) + 1 \in DOMAIN done_queue' /\ done_queue'[Len(done_queue) + 1] = job
    OBVIOUS
  <1>2. \A i \in DOMAIN done_queue : done_queue[i].range # job.range
    BY DEF Done
  <1>3. \A i, j \in DOMAIN done_queue' : i # j => done_queue'[i].range # done_queue'[j].range
    BY <1>1, <1>2
  <1>4. \A r \in Ranges : Done(r)' <=> Done(r) \/ r = job.range
    BY <1>1 DEF Done
  <1> QED
    BY <1>3, <1>4

\* Taking the first job back.
LEMMA TakeFirstDone ==
  ASSUME done_queue \in Seq(RangeJobs), done_queue # <<>>, done_queue' = Tail(done_queue),
         \A i, j \in DOMAIN done_queue : i # j => done_queue[i].range # done_queue[j].range
  PROVE  /\ \A i, j \in DOMAIN done_queue' : i # j => done_queue'[i].range # done_queue'[j].range
         /\ Head(done_queue).range \in Ranges
         /\ \A r \in Ranges : Done(r)' <=> Done(r) /\ r # Head(done_queue).range
  <1>1. Head(done_queue) = done_queue[1] /\ 1 \in DOMAIN done_queue /\ done_queue[1] \in RangeJobs
    OBVIOUS
  <1>2. /\ \A i \in DOMAIN done_queue' : /\ i + 1 \in DOMAIN done_queue /\ i + 1 # 1
                                         /\ done_queue'[i] = done_queue[i + 1]
        /\ \A i \in DOMAIN done_queue : i = 1 \/ /\ i - 1 \in DOMAIN done_queue'
                                                 /\ done_queue'[i - 1] = done_queue[i]
    OBVIOUS
  <1>3. \A i, j \in DOMAIN done_queue' : i # j => i + 1 # j + 1
    OBVIOUS
  <1>4. \A i, j \in DOMAIN done_queue' : i # j => done_queue'[i].range # done_queue'[j].range
    BY <1>2, <1>3
  <1>5. \A r \in Ranges : Done(r)' => Done(r) /\ r # done_queue[1].range
    BY <1>1, <1>2 DEF Done
  <1>6. \A r \in Ranges : Done(r) /\ r # done_queue[1].range => Done(r)'
    <2> SUFFICES ASSUME NEW r \in Ranges, Done(r), r # done_queue[1].range PROVE Done(r)'
      OBVIOUS
    <2>1. PICK i \in DOMAIN done_queue : done_queue[i].range = r
      BY DEF Done
    <2>2. i - 1 \in DOMAIN done_queue' /\ done_queue'[i - 1] = done_queue[i]
      BY <1>2, <2>1
    <2> QED
      BY <2>1, <2>2 DEF Done
  <1>7. done_queue[1].range \in Ranges
    BY <1>1 DEF RangeJobs
  <1> QED
    BY <1>1, <1>4, <1>5, <1>6, <1>7

\* Every step of the program keeps finished jobs apart.
LEMMA NextDoneOnce ==
  TypeInv /\ Accounts /\ Apart /\ DoneOnce /\ [Next]_vars => DoneOnce'
  <1> SUFFICES ASSUME TypeInv, Accounts, Apart, DoneOnce, [Next]_vars, ~Stopping' PROVE DoneOnce'
    BY DEF DoneOnce
  <1> USE DEF confVars, loopVars, jobVars, queueVars, rangeVars
  <1>0. /\ done_queue \in Seq(RangeJobs) /\ idle_ranges \in Seq(Ranges) /\ next \in Nat \ {0}
        /\ intent \in Intents
    BY DEF TypeInv, TypeOK
  <1>a. ASSUME UNCHANGED <<done_queue, taken>>, pc' = "gather" => pc = "gather", ~Stopping
        PROVE  DoneOnce'
    BY <1>a DEF DoneOnce, Done
  <1>1. CASE \E w \in Workers : PushDone(w)
    <2>1. PICK w \in Workers : PushDone(w)
      BY <1>1
    <2>2. /\ w \in Busy /\ UNCHANGED <<pc, taken>>
          /\ done_queue' = Append(done_queue, worker[w].job)
      BY <2>1 DEF PushDone, Busy
    <2>3. ~Stopping
      BY <2>2 DEF Stopping
    <2>4. worker[w].job \in RangeJobs /\ worker[w].job.range \in Ranges
      BY <2>2, <2>3 DEF Accounts, RangeJobs
    <2>5. Held(worker[w].job.range)
      BY <2>2 DEF Held
    <2>6. ~Done(worker[w].job.range)
      BY <2>3, <2>4, <2>5 DEF Apart, OneJobPerRange
    <2>7. pc = "gather" => taken # worker[w].job.range
      BY <2>3, <2>5 DEF Apart, OneJobPerRange
    <2>8. /\ \A i, j \in DOMAIN done_queue' : i # j => done_queue'[i].range # done_queue'[j].range
          /\ \A i \in DOMAIN done_queue' :
               (i \in DOMAIN done_queue /\ done_queue'[i] = done_queue[i]) \/ done_queue'[i] = worker[w].job
      BY <1>0, <2>2, <2>3, <2>4, <2>6, AppendDone DEF DoneOnce
    <2> QED
      BY <2>2, <2>3, <2>7, <2>8 DEF DoneOnce, Done
  <1>2. CASE RunJobInline
    <2>1. pc = "push" /\ pc' = "push" /\ next <= Len(idle_ranges)
      BY <1>2 DEF RunJobInline
    <2>2. ~Stopping
      BY <2>1 DEF Stopping
    <2>3. CASE UNCHANGED done_queue
      BY <2>1, <2>2, <2>3 DEF DoneOnce
    <2>4. CASE done_queue' = Append(done_queue, Job(intent, idle_ranges[next]))
      <3> DEFINE job == Job(intent, idle_ranges[next])
      <3>1. next \in DOMAIN idle_ranges /\ idle_ranges[next] \in Ranges
        BY <1>0, <2>1
      <3>2. job \in RangeJobs /\ job.range = idle_ranges[next]
        BY <1>0, <3>1 DEF RangeJobs, Job
      <3>3. Unhanded(idle_ranges[next])
        BY <1>0, <2>1, <3>1 DEF Unhanded
      <3>4. ~Done(job.range)
        BY <2>2, <3>1, <3>2, <3>3 DEF Apart, OneJobPerRange
      <3> HIDE DEF job
      <3>5. \A i, j \in DOMAIN done_queue' : i # j => done_queue'[i].range # done_queue'[j].range
        BY <1>0, <2>2, <2>4, <3>2, <3>4, AppendDone DEF DoneOnce, job
      <3> QED
        BY <2>1, <3>5 DEF DoneOnce
    <2> QED
      BY <1>2, <2>3, <2>4 DEF RunJobInline
  <1>3. CASE TakeDone
    <2>1. pc = "pop" /\ pc' \in {"gather", "pop", "wait"}
      BY <1>3 DEF TakeDone
    <2>2. ~Stopping
      BY <2>1 DEF Stopping
    <2>3. CASE done_queue = <<>>
      BY <1>3, <2>2, <2>3 DEF TakeDone, DoneOnce
    <2>4. CASE done_queue # <<>>
      <3>1. /\ done_queue' = Tail(done_queue)
            /\ pc' = "gather" => taken' = Head(done_queue).range
        BY <1>3, <2>4 DEF TakeDone
      <3>2. /\ \A i, j \in DOMAIN done_queue' : i # j => done_queue'[i].range # done_queue'[j].range
            /\ Head(done_queue).range \in Ranges
            /\ \A r \in Ranges : Done(r)' <=> Done(r) /\ r # Head(done_queue).range
        BY <1>0, <2>2, <2>4, <3>1, TakeFirstDone DEF DoneOnce
      <3>3. PICK r \in Ranges : r = Head(done_queue).range
        BY <3>2
      <3>4. ~Done(r)'
        BY <3>2, <3>3
      <3>5. pc' = "gather" => ~Done(taken)'
        BY <3>1, <3>3, <3>4 DEF Done
      <3> QED
        BY <3>2, <3>5 DEF DoneOnce
    <2> QED
      BY <2>3, <2>4
  <1>4. CASE Gather
    <2>1. pc = "gather" /\ pc' = "pop" /\ UNCHANGED done_queue
      BY <1>4 DEF Gather
    <2> QED
      BY <2>1 DEF DoneOnce, Stopping
  <1>5. CASE \/ CreateThreads \/ BeginRound \/ ReloadConf \/ Collect \/ BeginScans \/ BeginScan
             \/ PushJob \/ NotifyWorker \/ AllPushed \/ EndScan \/ NextScanRound \/ EndScanRounds
             \/ CountRefs \/ BeginMigrate \/ NextProfile \/ EndPeriod
    <2>1. /\ UNCHANGED <<done_queue, taken>> /\ pc' # "gather" /\ ~Stopping
      BY <1>5 DEF CreateThreads, BeginRound, ReloadConf, Collect, BeginScans, BeginScan, PushJob,
                  NotifyWorker, AllPushed, EndScan, NextScanRound, EndScanRounds, CountRefs,
                  BeginMigrate, NextProfile, EndPeriod, BeginBatch, BeginStop, BatchOver, Stopping
    <2> QED
      BY <1>a, <2>1
  <1>6. CASE PushQuit \/ NotifyQuit \/ Join
    BY <1>6 DEF PushQuit, NotifyQuit, Join, Stopping
  <1>7. CASE \/ MainWakesSpuriously \/ Signal \/ UNCHANGED vars
             \/ \E w \in Workers : TakeJob(w) \/ RunJob(w) \/ NotifyMain(w) \/ WakeSpuriously(w)
    <2>1. /\ UNCHANGED <<done_queue, taken>>
          /\ pc' = pc \/ (pc = "wait" /\ pc' = "pop")
      BY <1>7 DEF MainWakesSpuriously, Signal, vars, TakeJob, RunJob, NotifyMain, WakeSpuriously
    <2>2. (pc' = "gather" => pc = "gather") /\ ~Stopping
      BY <2>1 DEF Stopping
    <2> QED
      BY <1>a, <2>1, <2>2
  <1> QED
    BY <1>1, <1>2, <1>3, <1>4, <1>5, <1>6, <1>7 DEF Next, MainStep, WorkerStep, Finished

\* At the start nothing is done.
LEMMA InitDoneOnce == Init => DoneOnce
  BY DEF Init, DoneOnce

-----------------------------------------------------------------------------
(* The ranges whose walk was not gathered yet.                             *)

Pending(r) ==
  Unhanded(r) \/ Queued(r) \/ Held(r) \/ Done(r) \/ (pc = "gather" /\ taken = r)

\* The threads only move jobs.
LEMMA WorkerStepPending ==
  ASSUME TypeInv, Accounts, Apart, ~Stopping, NEW w \in Workers, WorkerStep(w) \/ WakeSpuriously(w),
         NEW r \in Ranges
  PROVE  Pending(r)' <=> Pending(r)
  <1> USE DEF jobVars, queueVars
  <1>0. /\ worker \in [Workers -> [at : WorkerPlaces, job : Jobs \cup {NoJob}]]
        /\ work_queue \in Seq(RangeJobs) /\ done_queue \in Seq(RangeJobs)
        /\ \A v \in Busy : worker[v].job \in RangeJobs
    BY DEF TypeInv, TypeOK, Accounts
  <1>a. /\ UNCHANGED <<idle_ranges, next, taken>>
        /\ pc' = pc \/ (pc = "wait" /\ pc' = "pop")
    BY DEF WorkerStep, TakeJob, RunJob, PushDone, NotifyMain, WakeSpuriously
  <1>b. /\ Unhanded(r)' <=> Unhanded(r)
        /\ (pc = "gather" /\ taken = r)' <=> (pc = "gather" /\ taken = r)
    BY <1>a DEF Unhanded
  <1>1. CASE TakeJob(w) /\ work_queue # <<>>
    <2>1. /\ At(w, "pop") /\ UNCHANGED done_queue /\ work_queue' = Tail(work_queue)
          /\ worker' = [worker EXCEPT ![w] = [at |-> "job", job |-> Head(work_queue)]]
      BY <1>1 DEF TakeJob
    <2>2. /\ Busy' = Busy \cup {w} /\ w \notin Busy /\ worker'[w].job = work_queue[1]
          /\ \A v \in Busy : worker'[v] = worker[v]
      BY <1>0, <1>1, <2>1 DEF Busy, At
    <2>3. /\ 1 \in DOMAIN work_queue
          /\ \A i \in DOMAIN work_queue' :
               i + 1 \in DOMAIN work_queue /\ work_queue'[i] = work_queue[i + 1]
          /\ \A i \in DOMAIN work_queue :
               i = 1 \/ (i - 1 \in DOMAIN work_queue' /\ work_queue'[i - 1] = work_queue[i])
      BY <1>0, <1>1, <2>1
    <2>4. Held(r)' <=> Held(r) \/ r = work_queue[1].range
      BY <2>2 DEF Held
    <2>5. Queued(r) => Queued(r)' \/ r = work_queue[1].range
      BY <2>3 DEF Queued
    <2>6. Queued(r)' \/ r = work_queue[1].range => Queued(r)
      BY <2>3 DEF Queued
    <2>7. Done(r)' <=> Done(r)
      BY <2>1 DEF Done
    <2> QED
      BY <1>b, <2>4, <2>5, <2>6, <2>7 DEF Pending
  <1>2. CASE \/ TakeJob(w) /\ work_queue = <<>>
             \/ NotifyMain(w) \/ WakeSpuriously(w)
    <2>1. /\ worker[w].at \in {"pop", "wait", "notify"}
          /\ UNCHANGED <<work_queue, done_queue>>
      BY <1>2 DEF TakeJob, NotifyMain, WakeSpuriously, At
    <2>2. worker'[w].at \in {"pop", "wait"} /\ \A v \in Workers \ {w} : worker'[v] = worker[v]
      BY <1>0, <1>2 DEF TakeJob, NotifyMain, WakeSpuriously, Go
    <2>3. Busy' = Busy /\ \A v \in Busy : worker'[v] = worker[v]
      BY <2>1, <2>2 DEF Busy, At
    <2> QED
      BY <1>b, <2>1, <2>3 DEF Pending, Queued, Held, Done
  <1>3. CASE RunJob(w)
    <2>1. w \in Busy /\ worker[w].job.intent # "quit"
      BY <1>0, <1>3 DEF RunJob, Busy, RangeJobs, Intents
    <2>2. worker' = [worker EXCEPT ![w].at = "push"] /\ UNCHANGED <<work_queue, done_queue>>
      BY <1>3, <2>1 DEF RunJob, Go
    <2>3. Busy' = Busy /\ \A v \in Busy : worker'[v].job = worker[v].job
      BY <1>0, <2>1, <2>2 DEF Busy, At
    <2> QED
      BY <1>b, <2>2, <2>3 DEF Pending, Queued, Held, Done
  <1>4. CASE PushDone(w)
    <2>1. /\ At(w, "push") /\ worker' = [worker EXCEPT ![w].at = "notify"]
          /\ done_queue' = Append(done_queue, worker[w].job) /\ UNCHANGED work_queue
      BY <1>4 DEF PushDone, Go
    <2>2. w \in Busy /\ Busy' = Busy \ {w} /\ \A v \in Busy \ {w} : worker'[v] = worker[v]
      BY <1>0, <2>1 DEF Busy, At
    <2>3. worker[w].job \in RangeJobs
      BY <1>0, <2>2
    <2>4. Held(r) <=> Held(r)' \/ r = worker[w].job.range
      <3>1. OneJobPerRange
        BY DEF Apart
      <3> QED
        BY <2>2 DEF Held
    <2>5. /\ \A i \in DOMAIN done_queue : i \in DOMAIN done_queue' /\ done_queue'[i] = done_queue[i]
          /\ \A i \in DOMAIN done_queue' : \/ i \in DOMAIN done_queue /\ done_queue'[i] = done_queue[i]
                                           \/ done_queue'[i] = worker[w].job
          /\ Len(done_queue) + 1 \in DOMAIN done_queue'
          /\ done_queue'[Len(done_queue) + 1] = worker[w].job
      BY <1>0, <2>1, <2>3
    <2>6. Done(r)' <=> Done(r) \/ r = worker[w].job.range
      BY <2>5 DEF Done
    <2>7. Queued(r)' <=> Queued(r)
      BY <2>1 DEF Queued
    <2> QED
      BY <1>b, <2>4, <2>6, <2>7 DEF Pending
  <1> QED
    BY <1>1, <1>2, <1>3, <1>4 DEF WorkerStep

\* The range handed out next is handed out once.
LEMMA HandOut ==
  ASSUME idle_ranges \in Seq(Ranges), next \in Nat \ {0}, DistinctRanges, pc = "push",
         next <= Len(idle_ranges), UNCHANGED idle_ranges,
         \/ pc' = "notify" /\ next' = next
         \/ pc' = "push" /\ next' = next + 1,
         NEW r \in Ranges
  PROVE  Unhanded(r) <=> Unhanded(r)' \/ r = idle_ranges[next]
  <1>1. next \in DOMAIN idle_ranges /\ DOMAIN idle_ranges \subseteq Nat
    OBVIOUS
  <1>2. Unhanded(r) <=> \E k \in DOMAIN idle_ranges : idle_ranges[k] = r /\ k >= next
    BY DEF Unhanded
  <1>3. Unhanded(r)' <=> \E k \in DOMAIN idle_ranges : idle_ranges[k] = r /\ k > next
    BY <1>1 DEF Unhanded
  <1>4. \A k \in DOMAIN idle_ranges : k >= next <=> k > next \/ k = next
    BY <1>1
  <1> QED
    BY <1>1, <1>2, <1>3, <1>4

\* Within a batch of walks, the main thread only moves jobs before it gathers one.
LEMMA MainStepPending ==
  ASSUME TypeInv, Accounts, Apart, DoneOnce, Walking, NEW r \in Ranges,
         PushJob \/ NotifyWorker \/ RunJobInline \/ AllPushed \/ TakeDone
  PROVE  Pending(r)' <=> Pending(r)
  <1> USE DEF jobVars, queueVars
  <1>0. /\ work_queue \in Seq(Jobs) /\ done_queue \in Seq(RangeJobs) /\ intent \in Intents
        /\ idle_ranges \in Seq(Ranges) /\ next \in Nat \ {0} /\ intent = "walk"
    BY DEF TypeInv, TypeOK, Walking
  <1>a. UNCHANGED worker => (Held(r)' <=> Held(r))
    BY DEF Held, Busy, At
  <1>b. DistinctRanges
    BY DEF Apart
  <1>1. CASE PushJob
    <2>1. /\ pc = "push" /\ pc' = "notify" /\ next <= Len(idle_ranges) /\ next' = next
          /\ work_queue' = Append(work_queue, Job(intent, idle_ranges[next]))
          /\ UNCHANGED <<idle_ranges, done_queue, worker>>
      BY <1>1 DEF PushJob
    <2>2. Unhanded(r) <=> Unhanded(r)' \/ r = idle_ranges[next]
      BY <1>0, <1>b, <2>1, HandOut
    <2>3. /\ \A i \in DOMAIN work_queue : i \in DOMAIN work_queue' /\ work_queue'[i] = work_queue[i]
          /\ \A i \in DOMAIN work_queue' : \/ i \in DOMAIN work_queue /\ work_queue'[i] = work_queue[i]
                                           \/ work_queue'[i].range = idle_ranges[next]
          /\ Len(work_queue) + 1 \in DOMAIN work_queue'
          /\ work_queue'[Len(work_queue) + 1].range = idle_ranges[next]
      BY <1>0, <2>1 DEF Job
    <2>4. Queued(r)' <=> Queued(r) \/ r = idle_ranges[next]
      BY <2>3 DEF Queued
    <2>5. Done(r)' <=> Done(r)
      BY <2>1 DEF Done
    <2> QED
      BY <1>a, <2>1, <2>2, <2>4, <2>5 DEF Pending
  <1>2. CASE NotifyWorker
    <2>1. /\ NotifyOne /\ pc = "notify" /\ pc' = "push" /\ next' = next + 1
          /\ UNCHANGED <<idle_ranges, work_queue, done_queue>>
      BY <1>2 DEF NotifyWorker
    <2>2. DOMAIN idle_ranges \subseteq Nat
      BY <1>0
    <2>3. Unhanded(r)' <=> Unhanded(r)
      BY <1>0, <2>1, <2>2 DEF Unhanded
    <2>4. Busy' = Busy /\ \A v \in Busy : worker'[v].job = worker[v].job
      BY <2>1, NotifyOneBusy
    <2>5. Held(r)' <=> Held(r)
      BY <2>4 DEF Held
    <2> QED
      BY <2>1, <2>3, <2>5 DEF Pending, Queued, Done
  <1>3. CASE RunJobInline
    <2>1. /\ pc = "push" /\ pc' = "push" /\ next <= Len(idle_ranges) /\ next' = next + 1
          /\ done_queue' = Append(done_queue, Job(intent, idle_ranges[next]))
          /\ UNCHANGED <<idle_ranges, work_queue, worker>>
      BY <1>0, <1>3 DEF RunJobInline
    <2>2. Unhanded(r) <=> Unhanded(r)' \/ r = idle_ranges[next]
      BY <1>0, <1>b, <2>1, HandOut
    <2>3. /\ \A i \in DOMAIN done_queue : i \in DOMAIN done_queue' /\ done_queue'[i] = done_queue[i]
          /\ \A i \in DOMAIN done_queue' : \/ i \in DOMAIN done_queue /\ done_queue'[i] = done_queue[i]
                                           \/ done_queue'[i].range = idle_ranges[next]
          /\ Len(done_queue) + 1 \in DOMAIN done_queue'
          /\ done_queue'[Len(done_queue) + 1].range = idle_ranges[next]
      BY <1>0, <2>1 DEF Job
    <2>4. Done(r)' <=> Done(r) \/ r = idle_ranges[next]
      BY <2>3 DEF Done
    <2>5. Queued(r)' <=> Queued(r)
      BY <2>1 DEF Queued
    <2> QED
      BY <1>a, <2>1, <2>2, <2>4, <2>5 DEF Pending
  <1>4. CASE AllPushed
    <2>1. /\ pc = "push" /\ pc' = "pop" /\ next > Len(idle_ranges)
          /\ UNCHANGED <<idle_ranges, work_queue, done_queue, worker>>
      BY <1>4 DEF AllPushed
    <2>2. ~Unhanded(r)' /\ ~Unhanded(r)
      BY <1>0, <2>1 DEF Unhanded
    <2> QED
      BY <1>a, <2>1, <2>2 DEF Pending, Queued, Done
  <1>5. CASE TakeDone
    <2>1. /\ pc = "pop" /\ pc' \in {"gather", "wait"}
          /\ UNCHANGED <<idle_ranges, work_queue, worker>>
      BY <1>0, <1>5 DEF TakeDone
    <2>2. ~Unhanded(r)' /\ ~Unhanded(r)
      BY <2>1 DEF Unhanded
    <2>3. CASE done_queue = <<>>
      <3>1. pc' = "wait" /\ UNCHANGED done_queue
        BY <1>5, <2>3 DEF TakeDone
      <3> QED
        BY <1>a, <2>1, <2>2, <3>1 DEF Pending, Queued, Done
    <2>4. CASE done_queue # <<>>
      <3>1. /\ done_queue' = Tail(done_queue) /\ pc' = "gather"
            /\ taken' = Head(done_queue).range
        BY <1>0, <1>5, <2>4 DEF TakeDone
      <3>2. /\ \A i, j \in DOMAIN done_queue : i # j => done_queue[i].range # done_queue[j].range
        BY <2>1 DEF DoneOnce, Stopping
      <3>3. Done(r)' <=> Done(r) /\ r # Head(done_queue).range
        BY <1>0, <2>4, <3>1, <3>2, TakeFirstDone
      <3>4. Done(r) \/ r # Head(done_queue).range
        BY <1>0, <2>4 DEF Done
      <3>5. Queued(r)' <=> Queued(r)
        BY <2>1 DEF Queued
      <3> QED
        BY <1>a, <2>1, <2>2, <3>1, <3>3, <3>4, <3>5 DEF Pending
    <2> QED
      BY <2>3, <2>4
  <1> QED
    BY <1>1, <1>2, <1>3, <1>4, <1>5

-----------------------------------------------------------------------------
(* Pages are located once.                                                 *)

LocatedAt(n) == \A r \in RangeSet \ io_error : located[r] = n

\* The first walk of a period locates the pages of every range when it is gathered.
Located ==
  /\ pc = "walk" => LocatedAt(IF nr_walks = 0 THEN 0 ELSE 1)
  /\ pc = "round" /\ nr_scan_rounds > 0 => LocatedAt(1) /\ nr_walks > 0
  /\ pc = "scan" => LocatedAt(IF nr_walks = 0 /\ scans = 0 THEN 0 ELSE 1)
  /\ Walking =>
       /\ scans > 0
       /\ \A r \in RangeSet \ io_error :
            located[r] = IF nr_walks = 0 /\ scans = 1 /\ Pending(r) THEN 0 ELSE 1
  /\ pc = "walked" => LocatedAt(1) /\ nr_walks > 0
  /\ pc = "count" => LocatedAt(1)

\* A step between batches that changes nothing.
LEMMA LocatedFrame ==
  ASSUME Located, pc \notin BatchPlaces, pc' = pc, io_error \subseteq io_error',
         UNCHANGED <<nr_scan_rounds, scans, nr_walks, idle_ranges, located>>
  PROVE  Located'
  <1>1. \A n : LocatedAt(n) => LocatedAt(n)'
    BY DEF LocatedAt, RangeSet
  <1> QED
    BY <1>1 DEF Located, Walking

\* A step within a batch of walks that gathers nothing.
LEMMA BatchLocated ==
  ASSUME Located, pc \in BatchPlaces, pc' \in BatchPlaces, io_error \subseteq io_error',
         UNCHANGED <<intent, scans, nr_walks, idle_ranges, located>>,
         Walking => \A r \in Ranges : Pending(r)' <=> Pending(r),
         RangeSet \subseteq Ranges
  PROVE  Located'
  <1>1. RangeSet' = RangeSet /\ (Walking' => Walking)
    BY DEF RangeSet, Walking
  <1>2. pc' \notin {"walk", "round", "scan", "walked", "count"}
    BY DEF BatchPlaces
  <1>3. ASSUME Walking, NEW r \in RangeSet \ io_error'
        PROVE  located'[r] = IF nr_walks' = 0 /\ scans' = 1 /\ Pending(r)' THEN 0 ELSE 1
    <2>1. r \in RangeSet \ io_error /\ (Pending(r)' <=> Pending(r))
      BY <1>3
    <2>2. located[r] = IF nr_walks = 0 /\ scans = 1 /\ Pending(r) THEN 0 ELSE 1
      BY <1>3, <2>1 DEF Located
    <2> QED
      BY <2>1, <2>2
  <1> QED
    BY <1>1, <1>2, <1>3 DEF Located

\* The steps of the threads.
LEMMA WorkerStepLocated ==
  ASSUME TypeInv, Accounts, Apart, Located, NEW w \in Workers, WorkerStep(w) \/ WakeSpuriously(w)
  PROVE  Located'
  <1>1. /\ UNCHANGED <<intent, nr_scan_rounds, scans, nr_walks, idle_ranges, located>>
        /\ io_error \subseteq io_error'
        /\ pc' = pc \/ (pc = "wait" /\ pc' = "pop")
    BY DEF WorkerStep, TakeJob, RunJob, PushDone, NotifyMain, WakeSpuriously, DoJob, Walk,
           loopVars, jobVars, rangeVars
  <1>2. RangeSet \subseteq Ranges
    BY DEF TypeInv, TypeOK, RangeSet
  <1>3. CASE pc \in BatchPlaces
    <2>1. ~Stopping /\ pc' \in BatchPlaces
      BY <1>1, <1>3 DEF Stopping, BatchPlaces
    <2> QED
      BY <1>1, <1>2, <1>3, <2>1, WorkerStepPending, BatchLocated
  <1>4. CASE pc \notin BatchPlaces
    BY <1>1, <1>4, LocatedFrame DEF BatchPlaces
  <1> QED
    BY <1>3, <1>4

\* The range that is gathered is located, if it was walked once only.
LEMMA GatherLocated ==
  ASSUME TypeInv, Accounts, Apart, Aligned, DoneOnce, Located, Gather
  PROVE  Located'
  <1>0. /\ pc = "gather" /\ pc' = "pop"
        /\ located' = IF scans = 1 /\ walks[taken] < 2
                        THEN [located EXCEPT ![taken] = @ + 1] ELSE located
        /\ UNCHANGED <<intent, nr_scan_rounds, scans, nr_walks, idle_ranges, next, work_queue,
                       done_queue, worker, io_error>>
    BY DEF Gather, loopVars, queueVars
  <1>1. /\ walks \in [Ranges -> Nat] /\ located \in [Ranges -> Nat] /\ RangeSet \subseteq Ranges
        /\ scans \in Nat /\ nr_walks \in Nat
    BY DEF TypeInv, TypeOK, RangeSet
  <1>2. /\ ~Queued(taken) /\ ~Held(taken) /\ ~Done(taken) /\ ~Unhanded(taken)
    BY <1>0 DEF Apart, OneJobPerRange, DoneOnce, Stopping, Unhanded
  <1>3. \A r \in Ranges : Pending(r)' <=> Pending(r) /\ r # taken
    <2>1. SUFFICES ASSUME NEW r \in Ranges PROVE Pending(r)' <=> Pending(r) /\ r # taken
      OBVIOUS
    <2>2. /\ Queued(r)' <=> Queued(r)
          /\ Held(r)' <=> Held(r)
          /\ Done(r)' <=> Done(r)
          /\ ~Unhanded(r)' /\ ~Unhanded(r)
      BY <1>0 DEF Queued, Held, Done, Unhanded, Busy, At
    <2>3. r # taken \/ (~Queued(r) /\ ~Held(r) /\ ~Done(r))
      BY <1>2
    <2> QED
      BY <1>0, <2>2, <2>3 DEF Pending
  <1>4. ASSUME Walking, NEW r \in RangeSet \ io_error
        PROVE  located'[r] = IF nr_walks = 0 /\ scans = 1 /\ Pending(r)' THEN 0 ELSE 1
    <2>1. located[r] = IF nr_walks = 0 /\ scans = 1 /\ Pending(r) THEN 0 ELSE 1
      BY <1>4 DEF Located
    <2>2. CASE r # taken
      <3>1. located'[r] = located[r] /\ (Pending(r)' <=> Pending(r))
        BY <1>0, <1>1, <1>3, <1>4, <2>2
      <3> QED
        BY <2>1, <3>1
    <2>3. CASE r = taken
      <3>1. r \notin Unvisited
        <4>1. ~AtJob(r)
          BY <1>2, <2>3 DEF AtJob, Held, Busy
        <4> QED
          BY <1>1, <1>2, <1>4, <2>3, <4>1, UnvisitedPlaces
      <3>2. walks[r] = nr_walks + scans - 0
        BY <1>4, <3>1 DEF Aligned
      <3>3. Pending(r) /\ ~Pending(r)'
        BY <1>0, <1>1, <1>3, <1>4, <2>3 DEF Pending
      <3>4. located'[r] = IF scans = 1 /\ nr_walks = 0 THEN located[r] + 1 ELSE located[r]
        <4>1. scans = 1 /\ walks[taken] < 2 <=> scans = 1 /\ nr_walks = 0
          BY <1>1, <2>3, <3>2
        <4> QED
          BY <1>0, <1>1, <1>4, <2>3, <4>1
      <3> QED
        BY <2>1, <3>3, <3>4
    <2> QED
      BY <2>2, <2>3
  <1>5. Walking' => Walking
    BY <1>0 DEF Walking, BatchPlaces
  <1>6. RangeSet' \ io_error' = RangeSet \ io_error
    BY <1>0 DEF RangeSet
  <1> QED
    BY <1>0, <1>4, <1>5, <1>6 DEF Located

\* The steps of the main thread.
LEMMA MainStepLocated ==
  ASSUME TypeInv, Accounts, Apart, Aligned, DoneOnce, OneBatch, Located, MainStep
  PROVE  Located'
  <1> USE DEF confVars, loopVars, jobVars, queueVars, rangeVars
  <1>0. /\ located \in [Ranges -> Nat] /\ RangeSet \subseteq Ranges
        /\ scans \in Nat /\ nr_walks \in Nat /\ nr_scan_rounds \in Nat
    BY DEF TypeInv, TypeOK, RangeSet
  <1>a. ASSUME UNCHANGED <<idle_ranges, io_error, located>>, NEW n, LocatedAt(n)
        PROVE  LocatedAt(n)'
    BY <1>a DEF LocatedAt, RangeSet
  <1>1. CASE CreateThreads \/ ReloadConf \/ CountRefs \/ NextProfile \/ EndPeriod
             \/ PushQuit \/ NotifyQuit \/ Join
    <2>1. /\ pc' \in {"round", "collect", "parameters", "stop", "notify_quit", "done"}
          /\ pc' = "round" => nr_scan_rounds' = 0
      BY <1>1 DEF CreateThreads, ReloadConf, CountRefs, NextProfile, EndPeriod, PushQuit,
                  NotifyQuit, Join, BeginStop, Aligned, BetweenPeriods, BatchOver, BatchPlaces
    <2> QED
      BY <2>1 DEF Located, Walking, BatchPlaces
  <1>2. CASE BeginRound
    <2>1. /\ pc = "round" /\ pc' \in {"stop", "reload", "walk"}
          /\ pc' = "walk" => nr_scan_rounds > 0
          /\ UNCHANGED <<nr_walks, idle_ranges, io_error, located>>
      BY <1>0, <1>2 DEF BeginRound
    <2>2. pc' = "walk" => LocatedAt(1) /\ nr_walks' # 0
      BY <1>0, <2>1 DEF Located
    <2>3. pc' = "walk" => LocatedAt(IF nr_walks = 0 THEN 0 ELSE 1)'
      BY <2>1, <2>2 DEF LocatedAt, RangeSet
    <2> QED
      BY <2>1, <2>3 DEF Located, Walking, BatchPlaces
  <1>3. CASE Collect
    <2>1. /\ pc' \in {"round", "walk"} /\ nr_scan_rounds' = 0
          /\ pc' = "walk" => nr_walks' = 0
          /\ located' = [r \in Ranges |-> 0] /\ idle_ranges' \in Arrangements
      BY <1>3 DEF Collect, OneBatch
    <2>2. RangeSet' \subseteq Ranges
      BY <2>1, ArrangementsAreSequences DEF RangeSet
    <2>3. pc' = "walk" => LocatedAt(IF nr_walks = 0 THEN 0 ELSE 1)'
      BY <2>1, <2>2 DEF LocatedAt
    <2> QED
      BY <2>1, <2>3 DEF Located, Walking, BatchPlaces
  <1>4. CASE BeginScans
    <2>1. /\ pc = "walk" /\ pc' = "scan" /\ scans' = 0
          /\ UNCHANGED <<nr_walks, idle_ranges, io_error, located>>
      BY <1>4 DEF BeginScans
    <2>2. LocatedAt(IF nr_walks = 0 THEN 0 ELSE 1)
      BY <2>1 DEF Located
    <2>3. LocatedAt(IF nr_walks = 0 /\ scans = 0 THEN 0 ELSE 1)'
      BY <2>1, <2>2 DEF LocatedAt, RangeSet
    <2> QED
      BY <2>1, <2>3 DEF Located, Walking, BatchPlaces
  <1>5. CASE BeginScan
    <2>1. /\ pc = "scan" /\ pc' = "push" /\ scans' = scans + 1 /\ next' = 1
          /\ UNCHANGED <<nr_walks, idle_ranges, io_error, located>>
      BY <1>5 DEF BeginScan, BeginBatch
    <2>2. LocatedAt(IF nr_walks = 0 /\ scans = 0 THEN 0 ELSE 1)
      BY <2>1 DEF Located
    <2>3. scans' > 0 /\ (scans' = 1 <=> scans = 0)
      BY <1>0, <2>1
    <2>4. \A r \in RangeSet : Pending(r)'
      <3>1. SUFFICES ASSUME NEW r \in RangeSet PROVE Unhanded(r)'
        BY DEF Pending
      <3>2. PICK k \in DOMAIN idle_ranges : idle_ranges[k] = r
        BY DEF RangeSet
      <3>3. k >= 1
        BY <3>2 DEF TypeInv, TypeOK
      <3> QED
        BY <2>1, <3>2, <3>3 DEF Unhanded
    <2>5. \A r \in RangeSet' \ io_error' :
            located'[r] = IF nr_walks' = 0 /\ scans' = 1 /\ Pending(r)' THEN 0 ELSE 1
      <3>1. RangeSet' \ io_error' = RangeSet \ io_error
        BY <2>1 DEF RangeSet
      <3>2. \A r \in RangeSet \ io_error : located[r] = IF nr_walks = 0 /\ scans = 0 THEN 0 ELSE 1
        BY <2>2 DEF LocatedAt
      <3> QED
        BY <2>1, <2>3, <2>4, <3>1, <3>2
    <2> QED
      BY <2>1, <2>3, <2>5 DEF Located
  <1>6. CASE PushJob \/ NotifyWorker \/ RunJobInline \/ AllPushed \/ TakeDone
    <2>1. /\ pc \in BatchPlaces /\ pc' \in BatchPlaces
          /\ io_error \subseteq io_error'
          /\ UNCHANGED <<intent, scans, nr_walks, idle_ranges, located>>
      BY <1>6 DEF PushJob, NotifyWorker, RunJobInline, AllPushed, TakeDone, BatchPlaces, DoJob, Walk
    <2> QED
      BY <1>0, <1>6, <2>1, MainStepPending, BatchLocated
  <1>7. CASE Gather
    BY <1>7, GatherLocated
  <1>8. CASE EndScan
    <2>1. /\ Walking /\ pc = "pop" /\ nr = 0
          /\ UNCHANGED <<idle_ranges, io_error, located, scans>>
          /\ \/ pc' = "scan" /\ UNCHANGED nr_walks
             \/ pc' = "walked" /\ nr_walks' = nr_walks + scans
      BY <1>8 DEF EndScan, BatchOver, Walking, BatchPlaces
    <2>2. work_queue = <<>> /\ done_queue = <<>> /\ Busy = {}
      BY <2>1, Idle DEF Stopping
    <2>3. \A r \in Ranges : ~Pending(r)
      BY <2>1, <2>2 DEF Pending, Unhanded, Queued, Held, Done
    <2>4. scans > 0 /\ LocatedAt(1)
      BY <1>0, <2>1, <2>3 DEF Located, LocatedAt
    <2>5. LocatedAt(1)'
      BY <1>a, <2>1, <2>4
    <2>6. pc' = "scan" => LocatedAt(IF nr_walks = 0 /\ scans = 0 THEN 0 ELSE 1)'
      <3>1. scans' # 0
        BY <1>0, <2>1, <2>4
      <3> QED
        BY <2>5, <3>1 DEF LocatedAt
    <2>7. pc' = "walked" => nr_walks' > 0
      BY <1>0, <2>1, <2>4
    <2> QED
      BY <2>1, <2>5, <2>6, <2>7 DEF Located, Walking, BatchPlaces
  <1>9. CASE NextScanRound \/ EndScanRounds
    <2>1. /\ pc = "walked" /\ pc' \in {"round", "count"}
          /\ UNCHANGED <<nr_walks, idle_ranges, io_error, located>>
      BY <1>9 DEF NextScanRound, EndScanRounds
    <2>2. LocatedAt(1)' /\ nr_walks' > 0
      BY <1>a, <2>1 DEF Located
    <2> QED
      BY <2>1, <2>2 DEF Located, Walking, BatchPlaces
  <1>10. CASE BeginMigrate
    <2>1. pc' = "push" /\ intent' = "migrate"
      BY <1>10 DEF BeginMigrate, BeginBatch
    <2> QED
      BY <2>1 DEF Located, Walking
  <1> QED
    BY <1>1, <1>2, <1>3, <1>4, <1>5, <1>6, <1>7, <1>8, <1>9, <1>10 DEF MainStep

\* Every step of the program.
LEMMA NextLocated ==
  TypeInv /\ Accounts /\ Apart /\ Aligned /\ DoneOnce /\ OneBatch /\ Located /\ [Next]_vars => Located'
  <1> SUFFICES ASSUME TypeInv, Accounts, Apart, Aligned, DoneOnce, OneBatch, Located, [Next]_vars
               PROVE  Located'
    OBVIOUS
  <1> USE DEF confVars, loopVars, jobVars, queueVars, rangeVars
  <1>1. CASE MainWakesSpuriously \/ Signal \/ UNCHANGED vars
    <2>1. /\ UNCHANGED <<intent, nr_scan_rounds, scans, nr_walks, idle_ranges, next, taken,
                         work_queue, done_queue, worker, io_error, located>>
          /\ pc' = pc \/ (pc = "wait" /\ pc' = "pop")
      BY <1>1 DEF MainWakesSpuriously, Signal, vars
    <2>2. RangeSet \subseteq Ranges
      BY DEF TypeInv, TypeOK, RangeSet
    <2>3. CASE pc \in BatchPlaces
      <3>1. pc' \in BatchPlaces
        BY <2>1, <2>3 DEF BatchPlaces
      <3>2. \A r \in Ranges : Pending(r)' <=> Pending(r)
        BY <2>1 DEF Pending, Unhanded, Queued, Held, Done, Busy, At
      <3> QED
        BY <2>1, <2>2, <2>3, <3>1, <3>2, BatchLocated
    <2>4. CASE pc \notin BatchPlaces
      BY <2>1, <2>4, LocatedFrame DEF BatchPlaces
    <2> QED
      BY <2>3, <2>4
  <1> QED
    BY <1>1, MainStepLocated, WorkerStepLocated DEF Next, Finished

\* At the start nothing was located.
LEMMA InitLocated == Init => Located
  BY DEF Init, Located, Walking, BatchPlaces

\* When references are counted, the pages of every range that no walk failed for were
\* located once, after its first walk, whichever thread walked it and however the
\* options were reloaded (GlobalScan::walk_once, get_memory_type).
THEOREM PagesLocated == Spec => []LocatedOnce
  <1>1. Spec => [](TypeInv /\ Accounts /\ Apart /\ OneBatch /\ Aligned /\ DoneOnce /\ Located)
    BY InitType, InitAccounts, InitApart, InitOneBatch, InitAligned, InitDoneOnce, InitLocated,
       NextType, NextAccounts, NextApart, NextOneBatch, NextAligned, NextDoneOnce, NextLocated,
       PTL DEF Spec
  <1>2. Located => LocatedOnce
    BY DEF Located, LocatedOnce, LocatedAt
  <1> QED
    BY <1>1, <1>2, PTL

=============================================================================
