------------------------------- MODULE ScanPool ------------------------------
(***************************************************************************)
(* The main loop of sys-refs and its worker threads (GlobalScan.cc): the   *)
(* loop collects the address ranges of the target processes, hands one job *)
(* per range to the workers through work_queue, gathers the finished jobs  *)
(* from done_queue, and after nr_scan_rounds rounds of nr_scans walks      *)
(* migrates.  Both queues are the monitor of Queue.h: push() unlocks       *)
(* before it notifies, pop() waits in a loop.                              *)
(*                                                                         *)
(* One step is what a thread does while it holds a queue's lock, or what   *)
(* it does to one range, or one decision of the loop.  Sleeping is not     *)
(* modelled.  SIGUSR1 may arrive at any moment.                            *)
(***************************************************************************)
EXTENDS Integers, Sequences, FiniteSets

CONSTANTS
  Ranges,         \* the ranges (EPTMigrate objects) a collection may find, numbered
  Workers,        \* threads; create_threads() starts max_threads of them
  InitialConfs,   \* option values at start ...
  ReloadedConfs,  \* ... and those a reload may bring
  NrLoops,        \* option.nr_loops, not 0 (0 means: loop for ever)
  MaxSignals,     \* bound: SIGUSR1 received
  None

\* The options the loop reads.
Conf == [max_threads : 0..Cardinality(Workers), nr_scans : Nat \ {0},
         nr_scan_rounds : Nat, progressive : BOOLEAN, exit_on_converged : BOOLEAN]

ASSUME ScanPoolAssumption ==
  /\ IsFiniteSet(Workers) /\ IsFiniteSet(Ranges) /\ Ranges \subseteq Nat
  /\ None \notin Ranges /\ None \notin Workers
  /\ NrLoops \in Nat \ {0} /\ MaxSignals \in Nat

ASSUME ConfsAssumption ==
  \A c \in InitialConfs \cup ReloadedConfs :
    /\ c.max_threads \in 0..Cardinality(Workers)
    /\ c.nr_scans \in Nat \ {0} /\ c.nr_scan_rounds \in Nat
    /\ c.progressive \in BOOLEAN /\ c.exit_on_converged \in BOOLEAN

VARIABLES
  pc,              \* where the main thread is
  option,
  conf_reload_flag, signals,
  nround, nr_scan_rounds, scans, nr_walks, batch,
  idle_ranges,     \* sequence of ranges
  intent,          \* of the batch of jobs being handed out: "walk", "migrate"
  next,            \* idle_ranges from here on were not handed out yet
  nr,              \* jobs handed out and not taken back
  taken,           \* the range of the finished job just taken from done_queue
  work_queue, done_queue,
  worker,          \* [at, job] of every thread
  walks,           \* ProcIdlePages::nr_walks of every range
  io_error,        \* ranges with a failed walk
  located          \* how often get_memory_type() reached a range's first pages

confVars   == <<option, conf_reload_flag, signals>>
loopVars   == <<nround, nr_scan_rounds, scans, nr_walks, batch>>
rangeVars  == <<walks, io_error, located>>
queueVars  == <<work_queue, done_queue>>
jobVars    == <<idle_ranges, intent, next, nr, taken>>
vars == <<pc, confVars, loopVars, jobVars, queueVars, worker, rangeVars>>

Job(i, r) == [intent |-> i, range |-> r]
QuitJob   == Job("quit", None)
NoJob     == Job("none", None)
RangeSet  == {idle_ranges[i] : i \in DOMAIN idle_ranges}

-----------------------------------------------------------------------------
(* The worker threads: consumer_loop().                                    *)

At(w, where) == worker[w].at = where
Go(w, where) == worker' = [worker EXCEPT ![w].at = where]

\* Queue::pop(): take the first item, or wait for a notification.
TakeJob(w) ==
  /\ At(w, "pop")
  /\ IF work_queue # <<>>
       THEN /\ worker' = [worker EXCEPT ![w] = [at |-> "job", job |-> Head(work_queue)]]
            /\ work_queue' = Tail(work_queue)
       ELSE Go(w, "wait") /\ UNCHANGED work_queue
  /\ UNCHANGED <<pc, confVars, loopVars, jobVars, done_queue, rangeVars>>

\* A condition variable may wake its waiter without a notification.
WakeSpuriously(w) ==
  /\ At(w, "wait") /\ Go(w, "pop")
  /\ UNCHANGED <<pc, confVars, loopVars, jobVars, queueVars, rangeVars>>

\* ProcIdlePages::walk(): it fails before it counts the walk (the process is gone,
\* idle_pages cannot be opened), or counts it and may fail while it reads.
Walk(r) ==
  \/ /\ walks' = [walks EXCEPT ![r] = @ + 1]
     /\ io_error' \in {io_error, io_error \cup {r}}
  \/ io_error' = io_error \cup {r} /\ UNCHANGED walks

\* consumer_job() for a range
DoJob(job) ==
  /\ IF job.intent = "walk" THEN Walk(job.range) ELSE UNCHANGED <<walks, io_error>>
  /\ UNCHANGED located

\* Fault: the quit job does not end the thread.
RunJobForwardsQuit(w) ==
  /\ At(w, "job") /\ Go(w, "push")
  /\ IF worker[w].job.intent = "quit" THEN UNCHANGED rangeVars ELSE DoJob(worker[w].job)
  /\ UNCHANGED <<pc, confVars, loopVars, jobVars, queueVars>>

RunJob(w) ==
  /\ At(w, "job")
  /\ IF worker[w].job.intent = "quit"
       THEN Go(w, "quit") /\ UNCHANGED rangeVars
       ELSE Go(w, "push") /\ DoJob(worker[w].job)
  /\ UNCHANGED <<pc, confVars, loopVars, jobVars, queueVars>>

PushDone(w) ==
  /\ At(w, "push") /\ Go(w, "notify")
  /\ done_queue' = Append(done_queue, worker[w].job)
  /\ UNCHANGED <<pc, confVars, loopVars, jobVars, work_queue, rangeVars>>

\* notify_one() on done_queue: only the main thread ever waits there.
NotifyMain(w) ==
  /\ At(w, "notify")
  /\ worker' = [worker EXCEPT ![w] = [at |-> "pop", job |-> NoJob]]
  /\ pc' = IF pc = "wait" THEN "pop" ELSE pc
  /\ UNCHANGED <<confVars, loopVars, jobVars, queueVars, rangeVars>>

WorkerStep(w) == TakeJob(w) \/ RunJob(w) \/ PushDone(w) \/ NotifyMain(w)

-----------------------------------------------------------------------------
(* The main thread: main_loop().                                           *)

\* std::thread objects are made before the first round.
CreateThreads ==
  /\ pc = "create" /\ pc' = "round"
  /\ \E started \in SUBSET Workers :
       /\ Cardinality(started) = option.max_threads
       /\ worker' = [w \in Workers |->
                       [at |-> IF w \in started THEN "pop" ELSE "absent", job |-> NoJob]]
  /\ UNCHANGED <<confVars, loopVars, jobVars, queueVars, rangeVars>>

\* The head of the loop: nround <= max_round.
BeginRound ==
  /\ pc = "round"
  /\ pc' = IF nround > NrLoops THEN "stop"
           ELSE IF nr_scan_rounds = 0 THEN "reload" ELSE "walk"
  /\ next' = 1
  /\ UNCHANGED <<confVars, loopVars, idle_ranges, intent, nr, taken, queueVars,
                 worker, rangeVars>>

\* conf_reload_flag.exchange(0), option.reparse()
ReloadConf ==
  /\ pc = "reload" /\ pc' = "collect"
  /\ conf_reload_flag' = FALSE
  /\ IF conf_reload_flag THEN option' \in ReloadedConfs ELSE UNCHANGED option
  /\ UNCHANGED <<signals, loopVars, jobVars, queueVars, worker, rangeVars>>

\* Some of the ranges, in the order of their processes and addresses.
Arrangements ==
  {s \in UNION {[1..n -> Ranges] : n \in 0..Cardinality(Ranges)} :
     \A i, j \in DOMAIN s : i < j => s[i] < s[j]}

\* collect() finds the ranges of the period, as new objects, and
\* prepare_walk_multi() prepares them; without any the round is over.
Collect ==
  /\ pc = "collect"
  /\ idle_ranges' \in Arrangements
  /\ IF idle_ranges' = <<>>
       THEN pc' = "round" /\ nround' = nround + 1 /\ UNCHANGED nr_walks
       ELSE pc' = "walk" /\ nr_walks' = 0 /\ UNCHANGED nround
  /\ walks' = [r \in Ranges |-> 0] /\ io_error' = {} /\ located' = [r \in Ranges |-> 0]
  /\ UNCHANGED <<confVars, nr_scan_rounds, scans, batch, intent, next, nr,
                 taken, queueVars, worker>>

\* walk_multi()
BeginScans ==
  /\ pc = "walk" /\ pc' = "scan"
  /\ scans' = 0
  /\ UNCHANGED <<confVars, nround, nr_scan_rounds, nr_walks, batch, jobVars, queueVars,
                 worker, rangeVars>>

\* A batch of jobs, one per range, starts: walk_once(), migrate().
BeginBatch(i) ==
  /\ intent' = i
  /\ next' = 1 /\ nr' = 0
  /\ pc' = "push"
  /\ UNCHANGED <<idle_ranges, taken>>

BeginScan ==
  /\ pc = "scan" /\ BeginBatch("walk")
  /\ scans' = scans + 1
  /\ UNCHANGED <<confVars, nround, nr_scan_rounds, nr_walks, batch, queueVars,
                 worker, rangeVars>>

\* Fault: the job handed out is not counted.
PushJobUncounted ==
  /\ pc = "push" /\ next <= Len(idle_ranges) /\ option.max_threads > 0
  /\ work_queue' = Append(work_queue, Job(intent, idle_ranges[next]))
  /\ pc' = "notify"
  /\ UNCHANGED <<confVars, loopVars, jobVars, done_queue, worker, rangeVars>>

\* With threads, a job for the next range goes to work_queue ...
PushJob ==
  /\ pc = "push" /\ next <= Len(idle_ranges) /\ option.max_threads > 0
  /\ work_queue' = Append(work_queue, Job(intent, idle_ranges[next]))
  /\ nr' = nr + 1
  /\ pc' = "notify"
  /\ UNCHANGED <<confVars, loopVars, idle_ranges, intent, next, taken, done_queue,
                 worker, rangeVars>>

\* Fault: push() forgets notify_one().
NotifyNobody == UNCHANGED worker

\* ... and one waiting worker is told.
Waiting == {w \in Workers : At(w, "wait")}

NotifyOne ==
  IF Waiting = {} THEN UNCHANGED worker ELSE \E w \in Waiting : Go(w, "pop")

NotifyWorker ==
  /\ pc = "notify" /\ NotifyOne
  /\ pc' = "push" /\ next' = next + 1
  /\ UNCHANGED <<confVars, loopVars, idle_ranges, intent, nr, taken, queueVars, rangeVars>>

\* Fault: migrate() puts jobs it did itself into done_queue, as walk_once() does.
RunJobInlineAlwaysDone ==
  /\ pc = "push" /\ next <= Len(idle_ranges) /\ option.max_threads = 0
  /\ LET job == Job(intent, idle_ranges[next])
     IN  DoJob(job) /\ done_queue' = Append(done_queue, job)
  /\ nr' = IF intent = "walk" THEN nr + 1 ELSE nr
  /\ next' = next + 1
  /\ UNCHANGED <<pc, confVars, loopVars, idle_ranges, intent, taken, work_queue, worker>>

\* Without threads the main thread does the job itself; only walk_once() puts it
\* into done_queue afterwards.
RunJobInline ==
  /\ pc = "push" /\ next <= Len(idle_ranges) /\ option.max_threads = 0
  /\ LET job == Job(intent, idle_ranges[next])
     IN  /\ DoJob(job)
         /\ IF intent = "walk"
              THEN done_queue' = Append(done_queue, job) /\ nr' = nr + 1
              ELSE UNCHANGED <<done_queue, nr>>
  /\ next' = next + 1
  /\ UNCHANGED <<pc, confVars, loopVars, idle_ranges, intent, taken, work_queue, worker>>

\* Fault: the last range gets no job.
AllPushedEarly ==
  /\ pc = "push" /\ next >= Len(idle_ranges)
  /\ pc' = "pop"
  /\ UNCHANGED <<confVars, loopVars, jobVars, queueVars, worker, rangeVars>>

AllPushed ==
  /\ pc = "push" /\ next > Len(idle_ranges)
  /\ pc' = "pop"
  /\ UNCHANGED <<confVars, loopVars, jobVars, queueVars, worker, rangeVars>>

\* done_queue.pop(), nr times
TakeDone ==
  /\ pc = "pop" /\ nr > 0
  /\ IF done_queue # <<>>
       THEN /\ taken' = IF intent = "walk" THEN Head(done_queue).range ELSE None
            /\ done_queue' = Tail(done_queue)
            /\ nr' = nr - 1
            /\ pc' = IF intent = "walk" THEN "gather" ELSE "pop"
       ELSE pc' = "wait" /\ UNCHANGED <<taken, done_queue, nr>>
  /\ UNCHANGED <<confVars, loopVars, idle_ranges, intent, next, work_queue, worker, rangeVars>>

MainWakesSpuriously ==
  /\ pc = "wait" /\ pc' = "pop"
  /\ UNCHANGED <<confVars, loopVars, jobVars, queueVars, worker, rangeVars>>

\* Fault: pages are located after the last walk of a round.
GatherLate ==
  /\ pc = "gather" /\ pc' = "pop" /\ taken' = None
  /\ located' = IF scans = option.nr_scans /\ walks[taken] < 2
                  THEN [located EXCEPT ![taken] = @ + 1] ELSE located
  /\ UNCHANGED <<confVars, loopVars, idle_ranges, intent, next, nr, queueVars, worker,
                 walks, io_error>>

\* get_memory_type() after the first walk of a round, gather_walk_stats() after
\* every walk.  Pages are located in the append period only.
Gather ==
  /\ pc = "gather" /\ pc' = "pop" /\ taken' = None
  /\ located' = IF scans = 1 /\ walks[taken] < 2
                  THEN [located EXCEPT ![taken] = @ + 1] ELSE located
  /\ UNCHANGED <<confVars, loopVars, idle_ranges, intent, next, nr, queueVars, worker,
                 walks, io_error>>

BatchOver == pc = "pop" /\ nr = 0

\* Fault: the walks of earlier rounds are forgotten.
EndScanRestarts ==
  /\ BatchOver /\ intent = "walk"
  /\ IF scans < option.nr_scans
       THEN pc' = "scan" /\ UNCHANGED nr_walks
       ELSE pc' = "walked" /\ nr_walks' = scans
  /\ UNCHANGED <<confVars, nround, nr_scan_rounds, scans, batch, jobVars,
                 queueVars, worker, rangeVars>>

EndScan ==
  /\ BatchOver /\ intent = "walk"
  /\ IF scans < option.nr_scans
       THEN pc' = "scan" /\ UNCHANGED nr_walks
       ELSE pc' = "walked" /\ nr_walks' = nr_walks + scans
  /\ UNCHANGED <<confVars, nround, nr_scan_rounds, scans, batch, jobVars,
                 queueVars, worker, rangeVars>>

\* ++nr_scan_rounds < option.nr_scan_rounds: another round over the same ranges.
NextScanRound ==
  /\ pc = "walked" /\ nr_scan_rounds + 1 < option.nr_scan_rounds
  /\ nr_scan_rounds' = nr_scan_rounds + 1
  /\ nround' = nround + 1 /\ pc' = "round"
  /\ UNCHANGED <<confVars, scans, nr_walks, batch, jobVars, queueVars, worker,
                 rangeVars>>

EndScanRounds ==
  /\ pc = "walked" /\ nr_scan_rounds + 1 >= option.nr_scan_rounds
  /\ nr_scan_rounds' = 0
  /\ pc' = "count"
  /\ UNCHANGED <<confVars, nround, scans, nr_walks, batch, jobVars, queueVars,
                 worker, rangeVars>>

\* count_refs(), calc_memory_size()
CountRefs ==
  /\ pc = "count" /\ pc' = "parameters"
  /\ batch' = 0
  /\ UNCHANGED <<confVars, nround, nr_scan_rounds, scans, nr_walks, jobVars,
                 queueVars, worker, rangeVars>>

\* The parameters of the ranges are computed, then they are migrated: migrate(),
\* or one turn of progressive_profile().
BeginMigrate ==
  /\ pc = "parameters" /\ BeginBatch("migrate")
  /\ UNCHANGED <<confVars, loopVars, queueVars, worker, rangeVars>>

BeginStop == pc' = "stop" /\ next' = 1

\* progressive_profile() migrates once per reference count, then the loop ends.
NextProfile ==
  /\ BatchOver /\ intent = "migrate" /\ option.progressive
  /\ batch' = batch + 1
  /\ \/ batch' < nr_walks /\ pc' = "parameters" /\ UNCHANGED next
     \/ batch' >= nr_walks /\ BeginStop
  /\ UNCHANGED <<confVars, nround, nr_scan_rounds, scans, nr_walks, idle_ranges,
                 intent, nr, taken, queueVars, worker, rangeVars>>

\* save_context_last(), exit_on_converged()
EndPeriod ==
  /\ BatchOver /\ intent = "migrate" /\ ~option.progressive
  /\ \/ pc' = "round" /\ nround' = nround + 1 /\ UNCHANGED next
     \/ option.exit_on_converged /\ BeginStop /\ UNCHANGED nround
  /\ UNCHANGED <<confVars, nr_scan_rounds, scans, nr_walks, batch, idle_ranges,
                 intent, nr, taken, queueVars, worker, rangeVars>>

\* stop_threads(): one quit job per thread, then join.
Started == {w \in Workers : ~At(w, "absent")}

PushQuit ==
  /\ pc = "stop" /\ next <= Cardinality(Started)
  /\ work_queue' = Append(work_queue, QuitJob)
  /\ pc' = "notify_quit"
  /\ UNCHANGED <<confVars, loopVars, jobVars, done_queue, worker, rangeVars>>

NotifyQuit ==
  /\ pc = "notify_quit" /\ NotifyOne
  /\ pc' = "stop" /\ next' = next + 1
  /\ UNCHANGED <<confVars, loopVars, idle_ranges, intent, nr, taken, queueVars, rangeVars>>

Join ==
  /\ pc = "stop" /\ next > Cardinality(Started)
  /\ \A w \in Started : At(w, "quit")
  /\ pc' = "done"
  /\ UNCHANGED <<confVars, loopVars, jobVars, queueVars, worker, rangeVars>>

MainStep ==
  \/ CreateThreads \/ BeginRound \/ ReloadConf \/ Collect \/ BeginScans \/ BeginScan
  \/ PushJob \/ NotifyWorker \/ RunJobInline \/ AllPushed
  \/ TakeDone \/ Gather \/ EndScan \/ NextScanRound \/ EndScanRounds
  \/ CountRefs \/ BeginMigrate \/ NextProfile \/ EndPeriod
  \/ PushQuit \/ NotifyQuit \/ Join

\* SIGUSR1: request_reload_conf()
Signal ==
  /\ signals < MaxSignals /\ pc # "done"
  /\ signals' = signals + 1
  /\ conf_reload_flag' = TRUE
  /\ UNCHANGED <<pc, option, loopVars, jobVars, queueVars, worker, rangeVars>>

Init ==
  /\ pc = "create" /\ option \in InitialConfs
  /\ conf_reload_flag = FALSE /\ signals = 0
  /\ nround = 0 /\ nr_scan_rounds = 0 /\ scans = 0 /\ nr_walks = 0 /\ batch = 0
  /\ idle_ranges = <<>> /\ intent = "walk" /\ next = 1 /\ nr = 0 /\ taken = None
  /\ work_queue = <<>> /\ done_queue = <<>>
  /\ worker = [w \in Workers |-> [at |-> "absent", job |-> NoJob]]
  /\ walks = [r \in Ranges |-> 0] /\ io_error = {} /\ located = [r \in Ranges |-> 0]

\* main() returned.
Finished == pc = "done" /\ UNCHANGED vars

Next ==
  \/ MainStep \/ MainWakesSpuriously \/ Signal \/ Finished
  \/ \E w \in Workers : WorkerStep(w) \/ WakeSpuriously(w)

Spec == Init /\ [][Next]_vars

\* Every thread that can run is scheduled; sleeps end.  No signal has to come.
Fairness == WF_vars(MainStep) /\ \A w \in Workers : WF_vars(WorkerStep(w))

FairSpec == Spec /\ Fairness

-----------------------------------------------------------------------------
(* Properties.                                                             *)

Intents == {"walk", "migrate"}
RangeJobs == [intent : Intents, range : Ranges]
Jobs == RangeJobs \cup {QuitJob}

MainPlaces == {"create", "round", "reload", "collect", "walk", "scan", "push", "notify",
               "pop", "wait", "gather", "walked", "count", "parameters",
               "stop", "notify_quit", "done"}
WorkerPlaces == {"absent", "pop", "wait", "job", "push", "notify", "quit"}

\* Type correctness; a worker that holds a job of a range holds that range.
TypeOK ==
  /\ pc \in MainPlaces
  /\ option \in InitialConfs \cup ReloadedConfs
  /\ conf_reload_flag \in BOOLEAN /\ signals \in 0..MaxSignals
  /\ nround \in Nat /\ nr_scan_rounds \in Nat /\ scans \in Nat /\ nr_walks \in Nat
  /\ batch \in Nat
  /\ idle_ranges \in Seq(Ranges) /\ intent \in Intents
  /\ next \in Nat \ {0} /\ nr \in Nat /\ taken \in Ranges \cup {None}
  /\ work_queue \in Seq(Jobs) /\ done_queue \in Seq(RangeJobs)
  /\ worker \in [Workers -> [at : WorkerPlaces, job : Jobs \cup {NoJob}]]
  /\ walks \in [Ranges -> Nat] /\ io_error \subseteq Ranges /\ located \in [Ranges -> Nat]

\* Nothing locks a range: each thread uses ranges as if they were its own.  No
\* two threads may use one at a time, the main thread included, which scans all
\* of them when it collects, counts, or compares the period with the last one.
Uses(w) == IF At(w, "job") THEN {worker[w].job.range} \ {None} ELSE {}

MainUses ==
  CASE pc \in {"collect", "count", "parameters"} \/ BatchOver -> Ranges
    [] pc = "gather" -> {taken}
    [] pc = "push" /\ next <= Len(idle_ranges) /\ option.max_threads = 0 ->
         {idle_ranges[next]}
    [] OTHER -> {}

ExclusiveRange ==
  \A w \in Workers : /\ Uses(w) \cap MainUses = {}
                     /\ \A v \in Workers \ {w} : Uses(w) \cap Uses(v) = {}

\* A job left over would be taken back in a later batch, before that batch's own
\* work is done.  When the options change, and when the program ends, no job is
\* queued and no worker has one.
Quiescent ==
  /\ work_queue = <<>> /\ done_queue = <<>>
  /\ \A w \in Workers : worker[w].at \in {"absent", "pop", "wait", "notify", "quit"}

QuiescentBetweenPeriods == pc \in {"reload", "collect", "done"} => Quiescent

\* "must update nr_walks to align with idle_ranges::nr_walks" (GlobalScan.cc:281):
\* when references are counted, every range was walked nr_walks times unless a
\* walk of it failed, whatever the options became since the loop started.
WalksAligned ==
  pc = "count" =>
    /\ nr_walks = option.nr_scans *
                     (IF option.nr_scan_rounds > 1 THEN option.nr_scan_rounds ELSE 1)
    /\ \A r \in RangeSet \ io_error : walks[r] = nr_walks

\* Pages can be located after their first walk only: each range gets that one
\* get_memory_type(), between its first and its second walk.
LocatedOnce ==
  pc = "count" => \A r \in RangeSet \ io_error : located[r] = 1

\* Batches are what ScanPhases promises: every range once, then a barrier.
BatchPlaces == {"push", "notify", "pop", "wait", "gather"}

Unvisited ==
  {r \in Ranges :
     \/ \E i \in DOMAIN idle_ranges :
          /\ idle_ranges[i] = r
          /\ (pc = "push" /\ i >= next) \/ (pc = "notify" /\ i > next)
     \/ \E i \in DOMAIN work_queue : work_queue[i].range = r
     \/ \E w \in Workers : r \in Uses(w)}

Phases ==
  INSTANCE ScanPhases WITH ranges <- RangeSet,
                           kind <- IF pc \in BatchPlaces THEN intent ELSE "none",
                           todo <- Unvisited, broken <- io_error

ImplementsPhases == Phases!Spec

\* Nobody waits for ever: with a bounded number of rounds the loop ends and every
\* thread is joined, although notifications are sent after the lock is released
\* and the options may change on the way.
Terminates == <>(pc = "done")

\* "Scan window ... Do migration" (doc/ReleaseNote.txt:96-113): a period that starts to
\* scan comes to its migration, or the loop ends before it.
ScansLeadToMigration == (pc = "walk") ~> (pc \in {"count", "stop"})
=============================================================================
