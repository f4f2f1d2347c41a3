----------------------------- MODULE WorkerPool -----------------------------
(***************************************************************************)
(* main() and worker_pool_run(): startup, the worker threads with their    *)
(* listen sockets, the shutdown eventfd and the signal handler that writes *)
(* it, the joins and the exit status.  A worker's event loop is the one of *)
(* LoopContract, which EventLoop implements.                               *)
(*                                                                         *)
(* Every call that can fail does so at will.  pthread_join() on a started, *)
(* unjoined thread cannot fail and does not.                               *)
(***************************************************************************)
EXTENDS Integers, Sequences, FiniteSets

CONSTANTS
  MAX_WORKERS,
  OnlineCpus,  \* what sysconf(_SC_NPROCESSORS_ONLN) may return
  EnvWorkers,  \* HTTP_SERVER_WORKERS: numbers, or NoNumber
  EnvTimeouts, \* HTTP_SERVER_IDLE_TIMEOUT_SECONDS: numbers, or
  NoNumber,    \* unset, or not a number
  DEFAULT_IDLE_TIMEOUT_SECONDS

(* The idle timeouts that make sense. *)
Timeouts == 1 .. 3600

ASSUME WorkerPoolAssumption ==
  /\ MAX_WORKERS \in Nat \ {0}
  /\ OnlineCpus \subseteq Int
  /\ EnvWorkers \subseteq Int \cup {NoNumber}
  /\ EnvTimeouts \subseteq Int \cup {NoNumber}
  /\ NoNumber \notin Int
  /\ DEFAULT_IDLE_TIMEOUT_SECONDS \in Timeouts

Workers == 1 .. MAX_WORKERS
Signals == {"SIGINT", "SIGTERM"}

VARIABLES
  main,          \* the call main() is about to make
  worker_count,
  idle_timeout_seconds,
  i,             \* the loop variable of worker_pool_run()
  handlers,      \* the signals whose handler is installed
  shutdown_fd,   \* "none", "open" or "closed"
  signalled,     \* the eventfd counter is not zero
  serving,       \* workers joined so far that served
  pool_status,   \* what worker_pool_run() returns
  allocated,     \* the workers array exists
  exit,          \* how the process ended, or "none"
  thread,        \* where each worker thread is
  call,          \* its next call in create_listen_socket()
  listen_fd,     \* the workers with an open listen socket
  started, served  \* the flags in worker_t

config   == <<worker_count, idle_timeout_seconds>>
mainvars == <<main, config, i, handlers, shutdown_fd, serving, pool_status,
              allocated, started>>
threads  == <<thread, call, listen_fd, served>>
vars     == <<mainvars, signalled, exit, threads>>

Alive == exit = "none"

-----------------------------------------------------------------------------
(* How many workers to run, and the timeout their loops are given: what    *)
(* main() reads from its environment, which nobody changes.                *)

(* Mutant: an absurd CPU count is passed on. *)
CpuCountUncapped(online) == IF online < 1 THEN 1 ELSE online

online_cpu_count(online) ==
  IF online < 1 THEN 1
  ELSE IF online > MAX_WORKERS THEN MAX_WORKERS ELSE online

worker_pool_worker_count(env, online) ==
  IF env = NoNumber THEN online_cpu_count(online)
  ELSE IF env < 1 \/ env > MAX_WORKERS THEN online_cpu_count(online)
  ELSE env

idle_timeout_from_env(env) ==
  IF env = NoNumber THEN DEFAULT_IDLE_TIMEOUT_SECONDS
  ELSE IF env <= 0 \/ env > 3600 THEN DEFAULT_IDLE_TIMEOUT_SECONDS
  ELSE env

Init ==
  /\ main = "signal" /\ i = 1
  /\ \E env \in EnvWorkers, online \in OnlineCpus :
       worker_count = worker_pool_worker_count(env, online)
  /\ \E env \in EnvTimeouts :
       idle_timeout_seconds = idle_timeout_from_env(env)
  /\ handlers = {} /\ shutdown_fd = "none" /\ signalled = FALSE
  /\ serving = 0 /\ pool_status = 0 /\ allocated = FALSE /\ exit = "none"
  /\ thread = [w \in Workers |-> "none"] /\ call = [w \in Workers |-> 1]
  /\ listen_fd = {}
  /\ started = [w \in Workers |-> FALSE] /\ served = [w \in Workers |-> FALSE]

-----------------------------------------------------------------------------
(* Signals: the default action kills, the handler posts to the eventfd, or *)
(* fails with EBADF once main() has closed it.                             *)

SignalKills(s) ==
  /\ Alive /\ s \notin handlers
  /\ exit' = "killed"
  /\ UNCHANGED <<mainvars, signalled, threads>>

handle_shutdown_signal(s) ==
  /\ Alive /\ s \in handlers
  /\ signalled' = (signalled \/ shutdown_fd = "open")
  /\ UNCHANGED <<mainvars, exit, threads>>

-----------------------------------------------------------------------------
(* main() up to the pool. *)

(* signal(SIGPIPE, SIG_IGN) *)
IgnoreSigpipe ==
  /\ Alive /\ main = "signal"
  /\ \/ main' = "static_files_init" /\ UNCHANGED exit
     \/ exit' = "EXIT_FAILURE" /\ UNCHANGED main
  /\ UNCHANGED <<config, i, handlers, shutdown_fd, serving, pool_status,
                 allocated, started, signalled, threads>>

InitStaticFiles ==
  /\ Alive /\ main = "static_files_init"
  /\ \/ main' = "eventfd" /\ UNCHANGED exit
     \/ exit' = "EXIT_FAILURE" /\ UNCHANGED main
  /\ UNCHANGED <<config, i, handlers, shutdown_fd, serving, pool_status,
                 allocated, started, signalled, threads>>

CreateEventfd ==
  /\ Alive /\ main = "eventfd"
  /\ \/ main' = "sigaction" /\ shutdown_fd' = "open" /\ UNCHANGED exit
     \/ exit' = "EXIT_FAILURE" /\ UNCHANGED <<main, shutdown_fd>>
  /\ UNCHANGED <<config, i, handlers, serving, pool_status, allocated,
                 started, signalled, threads>>

(* install_shutdown_handler(SIGINT), then (SIGTERM). *)
InstallHandler ==
  /\ Alive /\ main = "sigaction"
  /\ \/ /\ handlers' = handlers \cup
                        {IF handlers = {} THEN "SIGINT" ELSE "SIGTERM"}
        /\ main' = IF handlers = {} THEN "sigaction" ELSE "calloc"
        /\ UNCHANGED <<shutdown_fd, exit>>
     \/ /\ shutdown_fd' = "closed" /\ exit' = "EXIT_FAILURE"
        /\ UNCHANGED <<handlers, main>>
  /\ UNCHANGED <<config, i, serving, pool_status, allocated, started,
                 signalled, threads>>

-----------------------------------------------------------------------------
(* worker_pool_run(). *)

AllocateWorkers ==
  /\ Alive /\ main = "calloc"
  /\ \/ allocated' = TRUE /\ main' = "create" /\ UNCHANGED pool_status
     \/ pool_status' = -1 /\ main' = "close" /\ UNCHANGED allocated
  /\ UNCHANGED <<config, i, handlers, shutdown_fd, serving, started,
                 signalled, exit, threads>>

(* pthread_create() of worker i: its thread runs at once, or the pool goes *)
(* on without it.                                                          *)
CreateWorker ==
  /\ Alive /\ main = "create" /\ i <= worker_count
  /\ \/ /\ thread' = [thread EXCEPT ![i] = "listen"]
        /\ started' = [started EXCEPT ![i] = TRUE]
     \/ UNCHANGED <<thread, started>>
  /\ i' = i + 1
  /\ UNCHANGED <<main, config, handlers, shutdown_fd, serving,
                 pool_status, allocated, signalled, exit, call, listen_fd,
                 served>>

CreateDone ==
  /\ Alive /\ main = "create" /\ i > worker_count
  /\ IF \E w \in Workers : started[w]
     THEN main' = "join" /\ UNCHANGED <<allocated, pool_status>>
     ELSE main' = "close" /\ allocated' = FALSE /\ pool_status' = -1
  /\ i' = 1
  /\ UNCHANGED <<config, handlers, shutdown_fd, serving, started,
                 signalled, exit, threads>>

(* Mutant: the last worker is not waited for. *)
ToJoinButLast(w) == w < worker_count /\ started[w]

(* Mutant: a thread that was never created is waited for. *)
ToJoinAll(w) == w <= worker_count

(* Only a worker whose thread was created is joined. *)
ToJoin(w) == started[w]

Join ==
  /\ Alive /\ main = "join" /\ i <= worker_count
  /\ ToJoin(i) => thread[i] = "finished"
  /\ serving' = IF ToJoin(i) /\ served[i] THEN serving + 1 ELSE serving
  /\ i' = i + 1
  /\ UNCHANGED <<main, config, handlers, shutdown_fd, pool_status,
                 allocated, started, signalled, exit, threads>>

(* Mutant: the count of workers started is reported instead. *)
PoolStatusStarted == IF \E w \in Workers : started[w] THEN 0 ELSE -1

PoolStatus == IF serving = 0 THEN -1 ELSE 0

JoinDone ==
  /\ Alive /\ main = "join" /\ i > worker_count
  /\ allocated' = FALSE
  /\ pool_status' = PoolStatus
  /\ main' = "close"
  /\ UNCHANGED <<config, i, handlers, shutdown_fd, serving, started,
                 signalled, exit, threads>>

CloseEventfd ==
  /\ Alive /\ main = "close"
  /\ shutdown_fd' = "closed" /\ main' = "return"
  /\ UNCHANGED <<config, i, handlers, serving, pool_status, allocated,
                 started, signalled, exit, threads>>

ReturnFromMain ==
  /\ Alive /\ main = "return"
  /\ exit' = IF pool_status = 0 THEN "EXIT_SUCCESS" ELSE "EXIT_FAILURE"
  /\ UNCHANGED <<mainvars, signalled, threads>>

-----------------------------------------------------------------------------
(* worker_main() on the thread of worker w. *)

ListenCalls == <<"socket", "SO_REUSEADDR", "SO_REUSEPORT", "bind", "listen">>

ListenCall(w) ==
  /\ Alive /\ thread[w] = "listen"
  /\ listen_fd' = listen_fd \cup {w}
  /\ IF call[w] = Len(ListenCalls)
     THEN thread' = [thread EXCEPT ![w] = "setup"] /\ UNCHANGED call
     ELSE call' = [call EXCEPT ![w] = @ + 1] /\ UNCHANGED thread
  /\ UNCHANGED <<mainvars, signalled, exit, served>>

(* Every error path after socket() closes it. *)
ListenCloses(w) == listen_fd \ {w}

ListenFails(w) ==
  /\ Alive /\ thread[w] = "listen"
  /\ listen_fd' = ListenCloses(w)
  /\ thread' = [thread EXCEPT ![w] = "finished"]
  /\ UNCHANGED <<mainvars, signalled, exit, call, served>>

(* event_loop_run() gets past its setup, or returns -1. *)
LoopStarts(w) ==
  /\ Alive /\ thread[w] = "setup"
  /\ thread' = [thread EXCEPT ![w] = "running"]
  /\ UNCHANGED <<mainvars, signalled, exit, call, listen_fd, served>>

LoopStartFails(w) ==
  /\ Alive /\ thread[w] = "setup"
  /\ thread' = [thread EXCEPT ![w] = "close"]
  /\ UNCHANGED <<mainvars, signalled, exit, call, listen_fd, served>>

(* Mutant: the worker notices the eventfd only if nobody else has. *)
SeesShutdownFirst(w) ==
  signalled /\ \A v \in Workers : thread[v] # "finished"

(* The eventfd is level-triggered and nobody reads it. *)
SeesShutdown(w) == signalled

(* event_loop_run() returns 0: shutdown. *)
LoopShutsDown(w) ==
  /\ Alive /\ thread[w] = "running" /\ SeesShutdown(w)
  /\ thread' = [thread EXCEPT ![w] = "close"]
  /\ served' = [served EXCEPT ![w] = TRUE]
  /\ UNCHANGED <<mainvars, signalled, exit, call, listen_fd>>

(* It returns without a signal: 0 if epoll_wait() fails, -1 if one of its  *)
(* own descriptors breaks.                                                 *)
LoopBreaks(w) ==
  /\ Alive /\ thread[w] = "running"
  /\ thread' = [thread EXCEPT ![w] = "close"]
  /\ \E ok \in BOOLEAN : served' = [served EXCEPT ![w] = ok]
  /\ UNCHANGED <<mainvars, signalled, exit, call, listen_fd>>

(* The loop handles the event of a freed connection. *)
LoopUndefined(w) ==
  /\ Alive /\ thread[w] = "running"
  /\ exit' = "undefined"
  /\ UNCHANGED <<mainvars, signalled, threads>>

ThreadEnds(w) ==
  /\ Alive /\ thread[w] = "close"
  /\ listen_fd' = listen_fd \ {w}
  /\ thread' = [thread EXCEPT ![w] = "finished"]
  /\ UNCHANGED <<mainvars, signalled, exit, call, served>>

Over == ~Alive /\ UNCHANGED vars

-----------------------------------------------------------------------------
MainStep ==
  \/ IgnoreSigpipe \/ InitStaticFiles \/ CreateEventfd \/ InstallHandler
  \/ AllocateWorkers \/ CreateWorker \/ CreateDone \/ Join \/ JoinDone
  \/ CloseEventfd \/ ReturnFromMain

WorkerStep(w) ==
  \/ ListenCall(w) \/ ListenFails(w) \/ LoopStarts(w) \/ LoopStartFails(w)
  \/ LoopShutsDown(w) \/ ThreadEnds(w)

Mishap(w) == LoopBreaks(w) \/ LoopUndefined(w)

Next ==
  \/ MainStep
  \/ \E w \in Workers : WorkerStep(w) \/ Mishap(w)
  \/ \E s \in Signals : SignalKills(s) \/ handle_shutdown_signal(s)
  \/ Over

Spec == Init /\ [][Next]_vars

(* Threads are scheduled; nothing is assumed of signals and mishaps. *)
FairSpec ==
  Spec /\ WF_vars(MainStep) /\ \A w \in Workers : WF_vars(WorkerStep(w))

-----------------------------------------------------------------------------
Places   == {"signal", "static_files_init", "eventfd", "sigaction", "calloc",
             "create", "join", "close", "return"}
Stages   == {"none", "listen", "setup", "running", "close", "finished"}
Exits    == {"none", "EXIT_SUCCESS", "EXIT_FAILURE", "killed", "undefined"}
FdStates == {"none", "open", "closed"}

(* Types: the state of main(), of the pool and of its threads.  The worker *)
(* count and the timeout are ones the pool and EventLoop can work with,    *)
(* whatever the environment says.                                          *)
TypeOK ==
  /\ main \in Places
  /\ worker_count \in Workers /\ idle_timeout_seconds \in Timeouts
  /\ i \in 1 .. MAX_WORKERS + 1
  /\ handlers \subseteq Signals /\ shutdown_fd \in FdStates
  /\ signalled \in BOOLEAN /\ serving \in 0 .. MAX_WORKERS
  /\ pool_status \in {0, -1} /\ allocated \in BOOLEAN
  /\ exit \in Exits
  /\ thread \in [Workers -> Stages]
  /\ call \in [Workers -> 1 .. Len(ListenCalls)]
  /\ listen_fd \subseteq Workers
  /\ started \in [Workers -> BOOLEAN] /\ served \in [Workers -> BOOLEAN]

Working(w) == thread[w] \notin {"none", "finished"}

(* A thread holds a pointer into the workers array and watches the         *)
(* shutdown eventfd: while any runs, worker_pool_run() has not freed the   *)
(* one and main() has not closed the other (the join loop).                *)
SharedStateOutlivesWorkers ==
  \A w \in Workers : Working(w) => allocated /\ shutdown_fd = "open"

(* When main() returns on its own, every thread is gone, every listen      *)
(* socket is closed, and the exit status says whether some worker's loop   *)
(* ran to an orderly end (worker_pool_run's return value).                 *)
ExitIsOrderly ==
  exit \in {"EXIT_SUCCESS", "EXIT_FAILURE"} =>
    /\ \A w \in Workers : ~Working(w)
    /\ listen_fd = {}
    /\ exit = "EXIT_SUCCESS" <=> \E w \in Workers : served[w]

(* SIGINT or SIGTERM, once the handler has posted it, ends the process,    *)
(* even when it comes while workers are still being created: each of them  *)
(* finds the eventfd readable later.                                       *)
SignalEndsProcess == signalled ~> ~Alive

(* A pool whose workers have all given up does not linger: main() joins    *)
(* them and exits.                                                         *)
DeadPoolExits ==
  (main = "join" /\ \A w \in Workers : ~Working(w)) ~> ~Alive
=============================================================================
