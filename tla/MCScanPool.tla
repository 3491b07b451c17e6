----------------------------- MODULE MCScanPool -----------------------------
(* A small instance of ScanPool: two ranges, two workers, options that      *)
(* change the number of scans and scan rounds or give up the threads.       *)
EXTENDS ScanPool

MCConf(threads, scans_, rounds_, profile, converge) ==
  [max_threads |-> threads, nr_scans |-> scans_, nr_scan_rounds |-> rounds_,
   progressive |-> profile, exit_on_converged |-> converge]

MCInitialConfs == {MCConf(2, 2, 1, FALSE, FALSE)}

MCReloadedConfs == {MCConf(0, 1, 2, FALSE, TRUE), MCConf(1, 1, 2, TRUE, FALSE)}

\* sys-refs started without threads, and a configuration file that asks for one.
MCNoThreads == {MCConf(0, 1, 1, FALSE, FALSE)}
MCOneThread == {MCConf(1, 1, 1, FALSE, FALSE)}

=============================================================================
