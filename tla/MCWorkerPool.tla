---------------------------- MODULE MCWorkerPool ----------------------------
(* Instances of WorkerPool for TLC: CPU counts and settings around the     *)
(* limits, so that every worker count from 1 to MAX_WORKERS occurs.        *)
EXTENDS WorkerPool

MCOnlineCpus == {-1, 1, MAX_WORKERS, MAX_WORKERS + 1}
MCEnvWorkers == {NoNumber} \cup (0 .. MAX_WORKERS + 1)
MCEnvTimeouts == {NoNumber, 0, 3600, 3601}
=============================================================================
