-------------------------- MODULE WorkerPoolProofs --------------------------
(***************************************************************************)
(* The pool's invariants for every MAX_WORKERS, every CPU count and every  *)
(* setting in the environment.                                             *)
(***************************************************************************)
EXTENDS WorkerPool, TLAPS

(* The time, in seconds, that a step gives each prover. *)
USE SMTT(30), ZenonT(60)

Early == {"signal", "static_files_init", "eventfd", "sigaction", "calloc"}

(* Before the pool exists there is nothing of it. *)
NothingYet ==
  main \in Early =>
    /\ serving = 0 /\ pool_status = 0
    /\ \A w \in Workers : thread[w] = "none"

(* The array and the eventfd, by what main() is about to call. *)
Lifetimes ==
  /\ allocated <=> main \in {"create", "join"}
  /\ main \in {"calloc", "create", "join", "close"} => shutdown_fd = "open"
  /\ Alive /\ main = "sigaction" => shutdown_fd = "open"

(* What the flags of a worker and its socket say about its thread. *)
Flags ==
  \A w \in Workers :
    /\ started[w] <=> thread[w] # "none"
    /\ started[w] => w <= worker_count
    /\ served[w] => thread[w] \in {"close", "finished"}
    /\ w \in listen_fd => Working(w)

(* How far the loops of worker_pool_run() have got. *)
Progress ==
  /\ main = "create" =>
       /\ serving = 0
       /\ \A w \in Workers : w >= i => thread[w] = "none"
  /\ main = "join" =>
       /\ \A w \in Workers : w < i => ~Working(w)
       /\ serving < i
       /\ serving = 0 <=> \A w \in Workers : w < i => ~served[w]
  /\ main \in {"close", "return"} =>
       /\ \A w \in Workers : ~Working(w)
       /\ pool_status = 0 <=> \E w \in Workers : served[w]

(* Where main() was when the process ended on its own. *)
Ending ==
  /\ exit = "EXIT_SUCCESS" => main = "return" /\ pool_status = 0
  /\ exit = "EXIT_FAILURE" =>
       main \in Early \/ (main = "return" /\ pool_status = -1)

IInv == TypeOK /\ NothingYet /\ Lifetimes /\ Flags /\ Progress /\ Ending

USE DEF config, mainvars, threads, Alive, Workers, Working, Early

(* signal(SIGPIPE, SIG_IGN). *)
LEMMA IgnoreSigpipeStep == ASSUME IInv, IgnoreSigpipe PROVE IInv'
  <1>1. TypeOK'
    <2>1. main' \in Places /\ exit' \in Exits
      BY WorkerPoolAssumption DEF IInv, TypeOK, Progress, Places, Exits,
         FdStates, Stages, IgnoreSigpipe
    <2> QED BY Zenon, <2>1 DEF IInv, TypeOK, IgnoreSigpipe
  <1>2. NothingYet'
    BY DEF IInv, TypeOK, NothingYet, Places, IgnoreSigpipe
  <1>3. Lifetimes'
    BY DEF IInv, TypeOK, Lifetimes, Places, IgnoreSigpipe
  <1>4. Flags'
    BY DEF IInv, TypeOK, Flags, Progress, Places, IgnoreSigpipe
  <1>5. Progress'
    BY DEF IInv, TypeOK, NothingYet, Flags, Progress, Places, IgnoreSigpipe
  <1>6. Ending'
    BY DEF IInv, TypeOK, NothingYet, Ending, Places, IgnoreSigpipe
  <1> QED BY Zenon, <1>1, <1>2, <1>3, <1>4, <1>5, <1>6 DEF IInv

(* static_files_init(). *)
LEMMA InitStaticFilesStep == ASSUME IInv, InitStaticFiles PROVE IInv'
  <1>1. TypeOK'
    <2>1. main' \in Places /\ exit' \in Exits
      BY WorkerPoolAssumption DEF IInv, TypeOK, Progress, Places, Exits,
         FdStates, Stages, InitStaticFiles
    <2> QED BY Zenon, <2>1 DEF IInv, TypeOK, InitStaticFiles
  <1>2. NothingYet'
    BY DEF IInv, TypeOK, NothingYet, Places, InitStaticFiles
  <1>3. Lifetimes'
    BY DEF IInv, TypeOK, Lifetimes, Places, InitStaticFiles
  <1>4. Flags'
    BY DEF IInv, TypeOK, Flags, Progress, Places, InitStaticFiles
  <1>5. Progress'
    BY DEF IInv, TypeOK, NothingYet, Flags, Progress, Places, InitStaticFiles
  <1>6. Ending'
    BY DEF IInv, TypeOK, NothingYet, Ending, Places, InitStaticFiles
  <1> QED BY Zenon, <1>1, <1>2, <1>3, <1>4, <1>5, <1>6 DEF IInv

(* eventfd(). *)
LEMMA CreateEventfdStep == ASSUME IInv, CreateEventfd PROVE IInv'
  <1>1. TypeOK'
    <2>1. main' \in Places /\ exit' \in Exits
      BY WorkerPoolAssumption DEF IInv, TypeOK, Progress, Places, Exits,
         FdStates, Stages, CreateEventfd
    <2>2. shutdown_fd' \in FdStates
      BY WorkerPoolAssumption DEF IInv, TypeOK, Progress, Places, Exits,
         FdStates, Stages, CreateEventfd
    <2> QED BY Zenon, <2>1, <2>2 DEF IInv, TypeOK, CreateEventfd
  <1>2. NothingYet'
    BY DEF IInv, TypeOK, NothingYet, Places, CreateEventfd
  <1>3. Lifetimes'
    BY DEF IInv, TypeOK, Lifetimes, Places, CreateEventfd
  <1>4. Flags'
    BY DEF IInv, TypeOK, Flags, Progress, Places, CreateEventfd
  <1>5. Progress'
    BY DEF IInv, TypeOK, NothingYet, Flags, Progress, Places, CreateEventfd
  <1>6. Ending'
    BY DEF IInv, TypeOK, NothingYet, Ending, Places, CreateEventfd
  <1> QED BY Zenon, <1>1, <1>2, <1>3, <1>4, <1>5, <1>6 DEF IInv

(* install_shutdown_handler(), which closes the eventfd when it fails. *)
LEMMA InstallHandlerStep == ASSUME IInv, InstallHandler PROVE IInv'
  <1>1. TypeOK'
    <2>1. main' \in Places /\ exit' \in Exits
      BY WorkerPoolAssumption DEF IInv, TypeOK, Progress, Places, Exits,
         FdStates, Stages, InstallHandler, Signals
    <2>2. shutdown_fd' \in FdStates
      BY WorkerPoolAssumption DEF IInv, TypeOK, Progress, Places, Exits,
         FdStates, Stages, InstallHandler, Signals
    <2>3. handlers' \subseteq Signals
      BY ZenonT(60), WorkerPoolAssumption DEF IInv, TypeOK, Progress, Places, Exits,
         FdStates, Stages, InstallHandler, Signals
    <2> QED BY Zenon, <2>1, <2>2, <2>3 DEF IInv, TypeOK, InstallHandler
  <1>2. NothingYet'
    BY DEF IInv, TypeOK, NothingYet, Places, InstallHandler, Signals
  <1>3. Lifetimes'
    BY DEF IInv, TypeOK, Lifetimes, Places, InstallHandler, Signals
  <1>4. Flags'
    BY DEF IInv, TypeOK, Flags, Progress, Places, InstallHandler, Signals
  <1>5. Progress'
    BY DEF IInv, TypeOK, NothingYet, Flags, Progress, Places, InstallHandler,
       Signals
  <1>6. Ending'
    BY DEF IInv, TypeOK, NothingYet, Ending, Places, InstallHandler, Signals
  <1> QED BY Zenon, <1>1, <1>2, <1>3, <1>4, <1>5, <1>6 DEF IInv

(* calloc() in worker_pool_run(). *)
LEMMA AllocateWorkersStep == ASSUME IInv, AllocateWorkers PROVE IInv'
  <1>1. TypeOK'
    <2>1. main' \in Places
      BY WorkerPoolAssumption DEF IInv, TypeOK, Progress, Places, Exits,
         FdStates, Stages, AllocateWorkers
    <2>2. pool_status' \in {0, -1} /\ allocated' \in BOOLEAN
      BY ZenonT(60), WorkerPoolAssumption DEF IInv, TypeOK, Progress, Places, Exits,
         FdStates, Stages, AllocateWorkers
    <2> QED BY Zenon, <2>1, <2>2 DEF IInv, TypeOK, AllocateWorkers
  <1>2. NothingYet'
    BY DEF IInv, TypeOK, NothingYet, Places, AllocateWorkers
  <1>3. Lifetimes'
    BY DEF IInv, TypeOK, Lifetimes, Places, AllocateWorkers
  <1>4. Flags'
    BY DEF IInv, TypeOK, Flags, Progress, Places, AllocateWorkers
  <1>5. Progress'
    <2>1. \A w \in Workers : thread[w] = "none" /\ ~served[w]
      BY DEF IInv, NothingYet, Flags, AllocateWorkers
    <2>2. CASE main' = "create"
      BY <2>1, <2>2 DEF IInv, NothingYet, Progress, AllocateWorkers
    <2>3. CASE main' = "close" /\ pool_status' = -1
      BY <2>1, <2>3 DEF Progress, AllocateWorkers
    <2> QED BY Zenon, <2>2, <2>3 DEF AllocateWorkers
  <1>6. Ending'
    BY DEF IInv, TypeOK, NothingYet, Ending, Places, AllocateWorkers
  <1> QED BY Zenon, <1>1, <1>2, <1>3, <1>4, <1>5, <1>6 DEF IInv

(* The loop that creates the threads. *)
LEMMA CreateWorkerStep == ASSUME IInv, CreateWorker PROVE IInv'
  <1>1. TypeOK'
    <2>1. i' \in 1 .. MAX_WORKERS + 1
      BY WorkerPoolAssumption DEF IInv, TypeOK, Progress, Places, Exits,
         FdStates, Stages, CreateWorker
    <2>2. thread' \in [Workers -> Stages]
      BY WorkerPoolAssumption DEF IInv, TypeOK, Progress, Places, Exits,
         FdStates, Stages, CreateWorker
    <2>3. started' \in [Workers -> BOOLEAN]
      BY ZenonT(60), WorkerPoolAssumption DEF IInv, TypeOK, Progress, Places, Exits,
         FdStates, Stages, CreateWorker
    <2> QED BY Zenon, <2>1, <2>2, <2>3 DEF IInv, TypeOK, CreateWorker
  <1>2. NothingYet'
    BY WorkerPoolAssumption DEF IInv, TypeOK, NothingYet, Places, CreateWorker
  <1>3. Lifetimes'
    BY WorkerPoolAssumption DEF IInv, TypeOK, Lifetimes, Places, CreateWorker
  <1>4. Flags'
    BY WorkerPoolAssumption DEF IInv, TypeOK, Flags, Progress, Places,
       CreateWorker
  <1>5. Progress'
    BY WorkerPoolAssumption DEF IInv, TypeOK, NothingYet, Flags, Progress,
       Places, CreateWorker
  <1>6. Ending'
    BY WorkerPoolAssumption DEF IInv, TypeOK, NothingYet, Ending, Places,
       CreateWorker
  <1> QED BY Zenon, <1>1, <1>2, <1>3, <1>4, <1>5, <1>6 DEF IInv

(* ... and its end, where a pool without threads is given up. *)
LEMMA CreateDoneStep == ASSUME IInv, CreateDone PROVE IInv'
  <1>1. TypeOK'
    <2>1. main' \in Places /\ i' \in 1 .. MAX_WORKERS + 1
      BY WorkerPoolAssumption DEF IInv, TypeOK, Progress, Places, Exits,
         FdStates, Stages, CreateDone
    <2>2. pool_status' \in {0, -1} /\ allocated' \in BOOLEAN
      BY ZenonT(60), WorkerPoolAssumption DEF IInv, TypeOK, Progress, Places, Exits,
         FdStates, Stages, CreateDone
    <2> QED BY Zenon, <2>1, <2>2 DEF IInv, TypeOK, CreateDone
  <1>2. NothingYet'
    BY DEF IInv, TypeOK, NothingYet, Places, CreateDone
  <1>3. Lifetimes'
    BY ZenonT(60) DEF IInv, TypeOK, Lifetimes, Places, CreateDone
  <1>4. Flags'
    BY DEF IInv, TypeOK, Flags, Progress, Places, CreateDone
  <1>5. Progress'
    <2>1. CASE \E w \in Workers : started[w]
      <3>1. main' = "join" /\ i' = 1 /\ serving' = 0
        BY <2>1 DEF IInv, Progress, CreateDone
      <3> QED BY <3>1 DEF Progress
    <2>2. CASE ~\E w \in Workers : started[w]
      <3>1. \A w \in Workers : thread'[w] = "none" /\ ~served'[w]
        BY <2>2 DEF IInv, Flags, CreateDone
      <3>2. main' = "close" /\ pool_status' = -1 BY <2>2 DEF CreateDone
      <3> QED BY <3>1, <3>2 DEF Progress
    <2> QED BY Zenon, <2>1, <2>2
  <1>6. Ending'
    BY DEF IInv, TypeOK, NothingYet, Ending, Places, CreateDone
  <1> QED BY Zenon, <1>1, <1>2, <1>3, <1>4, <1>5, <1>6 DEF IInv

(* The loop that joins them. *)
LEMMA JoinStep == ASSUME IInv, Join PROVE IInv'
  <1>1. TypeOK'
    <2>1. i' \in 1 .. MAX_WORKERS + 1
      BY WorkerPoolAssumption DEF IInv, TypeOK, Progress, Places, Exits,
         FdStates, Stages, Join, ToJoin
    <2>2. serving' \in 0 .. MAX_WORKERS
      BY WorkerPoolAssumption DEF IInv, TypeOK, Progress, Places, Exits,
         FdStates, Stages, Join, ToJoin
    <2> QED BY Zenon, <2>1, <2>2 DEF IInv, TypeOK, Join
  <1>2. NothingYet'
    BY WorkerPoolAssumption DEF IInv, TypeOK, NothingYet, Places, Join, ToJoin
  <1>3. Lifetimes'
    BY WorkerPoolAssumption DEF IInv, TypeOK, Lifetimes, Places, Join, ToJoin
  <1>4. Flags'
    BY WorkerPoolAssumption DEF IInv, TypeOK, Flags, Progress, Places, Join,
       ToJoin
  <1>5. Progress'
    BY WorkerPoolAssumption DEF IInv, TypeOK, NothingYet, Flags, Progress,
       Places, Join, ToJoin
  <1>6. Ending'
    BY WorkerPoolAssumption DEF IInv, TypeOK, NothingYet, Ending, Places,
       Join, ToJoin
  <1> QED BY Zenon, <1>1, <1>2, <1>3, <1>4, <1>5, <1>6 DEF IInv

(* ... and its end: no thread is left. *)
LEMMA JoinDoneStep == ASSUME IInv, JoinDone PROVE IInv'
  <1>1. TypeOK'
    <2>1. main' \in Places
      BY WorkerPoolAssumption DEF IInv, TypeOK, Progress, Places, Exits,
         FdStates, Stages, JoinDone, PoolStatus
    <2>2. pool_status' \in {0, -1} /\ allocated' \in BOOLEAN
      BY ZenonT(60), WorkerPoolAssumption DEF IInv, TypeOK, Progress, Places, Exits,
         FdStates, Stages, JoinDone, PoolStatus
    <2> QED BY Zenon, <2>1, <2>2 DEF IInv, TypeOK, JoinDone
  <1>2. NothingYet'
    BY DEF IInv, TypeOK, NothingYet, Places, JoinDone, PoolStatus
  <1>3. Lifetimes'
    BY DEF IInv, TypeOK, Lifetimes, Places, JoinDone, PoolStatus
  <1>4. Flags'
    BY DEF IInv, TypeOK, Flags, Progress, Places, JoinDone, PoolStatus
  <1>5. Progress'
    BY DEF IInv, TypeOK, NothingYet, Flags, Progress, Places, JoinDone,
       PoolStatus
  <1>6. Ending'
    BY DEF IInv, TypeOK, NothingYet, Ending, Places, JoinDone, PoolStatus
  <1> QED BY Zenon, <1>1, <1>2, <1>3, <1>4, <1>5, <1>6 DEF IInv

(* close() in main(). *)
LEMMA CloseEventfdStep == ASSUME IInv, CloseEventfd PROVE IInv'
  <1>1. TypeOK'
    <2>1. main' \in Places
      BY WorkerPoolAssumption DEF IInv, TypeOK, Progress, Places, Exits,
         FdStates, Stages, CloseEventfd
    <2>2. shutdown_fd' \in FdStates
      BY WorkerPoolAssumption DEF IInv, TypeOK, Progress, Places, Exits,
         FdStates, Stages, CloseEventfd
    <2> QED BY Zenon, <2>1, <2>2 DEF IInv, TypeOK, CloseEventfd
  <1>2. NothingYet'
    BY DEF IInv, TypeOK, NothingYet, Places, CloseEventfd
  <1>3. Lifetimes'
    BY DEF IInv, TypeOK, Lifetimes, Places, CloseEventfd
  <1>4. Flags'
    BY DEF IInv, TypeOK, Flags, Progress, Places, CloseEventfd
  <1>5. Progress'
    BY DEF IInv, TypeOK, NothingYet, Flags, Progress, Places, CloseEventfd
  <1>6. Ending'
    BY DEF IInv, TypeOK, NothingYet, Ending, Places, CloseEventfd
  <1> QED BY Zenon, <1>1, <1>2, <1>3, <1>4, <1>5, <1>6 DEF IInv

(* The end of main(). *)
LEMMA ReturnFromMainStep == ASSUME IInv, ReturnFromMain PROVE IInv'
  <1>1. TypeOK'
    <2>1. exit' \in Exits
      BY WorkerPoolAssumption DEF IInv, TypeOK, Progress, Places, Exits,
         FdStates, Stages, ReturnFromMain
    <2> QED BY Zenon, <2>1 DEF IInv, TypeOK, ReturnFromMain
  <1>2. NothingYet'
    BY DEF IInv, TypeOK, NothingYet, Places, ReturnFromMain
  <1>3. Lifetimes'
    BY DEF IInv, TypeOK, Lifetimes, Places, ReturnFromMain
  <1>4. Flags'
    BY DEF IInv, TypeOK, Flags, Progress, Places, ReturnFromMain
  <1>5. Progress'
    BY DEF IInv, TypeOK, NothingYet, Flags, Progress, Places, ReturnFromMain
  <1>6. Ending'
    BY DEF IInv, TypeOK, NothingYet, Ending, Places, ReturnFromMain
  <1> QED BY Zenon, <1>1, <1>2, <1>3, <1>4, <1>5, <1>6 DEF IInv

(* A thread that is at work was created and has not been joined. *)
LEMMA WorkingWhere ==
  ASSUME IInv, NEW w \in Workers, Working(w)
  PROVE  /\ main \in {"create", "join"}
         /\ main = "create" => w < i
         /\ main = "join" => w >= i
  BY DEF IInv, TypeOK, NothingYet, Progress, Places

(* A step of such a thread, which changes only what is its own. *)
LEMMA OwnStep ==
  ASSUME IInv, NEW w \in Workers, Working(w),
         NEW s \in Stages \ {"none"}, thread' = [thread EXCEPT ![w] = s],
         NEW b \in BOOLEAN, served' = [served EXCEPT ![w] = b],
         b => s \in {"close", "finished"},
         call' \in [Workers -> 1 .. Len(ListenCalls)],
         listen_fd' \subseteq listen_fd \cup {w},
         w \in listen_fd' => s # "finished",
         UNCHANGED <<mainvars, signalled, exit>>
  PROVE  IInv'
  <1>1. TypeOK'
    <2>1. /\ thread' \in [Workers -> Stages]
          /\ served' \in [Workers -> BOOLEAN]
          /\ listen_fd' \subseteq Workers
      BY Zenon DEF IInv, TypeOK
    <2> QED BY Zenon, <2>1 DEF IInv, TypeOK
  <1>2. /\ thread'[w] = s /\ served'[w] = b
        /\ \A v \in Workers :
             v # w => thread'[v] = thread[v] /\ served'[v] = served[v]
    BY Zenon DEF IInv, TypeOK
  <1>3. NothingYet' BY Zenon, WorkingWhere DEF IInv, NothingYet
  <1>4. Lifetimes' BY Zenon DEF IInv, Lifetimes
  <1>5. Flags'
    <2> SUFFICES ASSUME NEW v \in Workers
                 PROVE  /\ started[v] <=> thread'[v] # "none"
                        /\ started[v] => v <= worker_count
                        /\ served'[v] => thread'[v] \in {"close", "finished"}
                        /\ v \in listen_fd' => Working(v)'
      BY Zenon DEF Flags
    <2>1. CASE v # w BY Zenon, <2>1, <1>2 DEF IInv, Flags
    <2>2. CASE v = w BY <2>2, <1>2 DEF IInv, Flags
    <2> QED BY Zenon, <2>1, <2>2
  <1>6. Progress'
    <2>1. ASSUME main = "create", NEW v \in Workers, v >= i
          PROVE  thread'[v] = "none"
      <3>1. v # w BY <2>1, WorkingWhere DEF IInv, TypeOK
      <3> QED BY ZenonT(60), <2>1, <3>1, <1>2 DEF IInv, Progress
    <2>2. ASSUME main = "join", NEW v \in Workers, v < i
          PROVE  ~Working(v)' /\ served'[v] = served[v]
      <3>1. v # w BY <2>2, WorkingWhere DEF IInv, TypeOK
      <3> QED BY Zenon, <2>2, <3>1, <1>2 DEF IInv, Progress
    <2>3. main \notin {"close", "return"} BY WorkingWhere
    <2> QED BY Zenon, <2>1, <2>2, <2>3 DEF IInv, Progress
  <1>7. Ending' BY Zenon DEF IInv, Ending
  <1> QED BY Zenon, <1>1, <1>3, <1>4, <1>5, <1>6, <1>7 DEF IInv

(* create_listen_socket(), event_loop_run() and the end of worker_main(). *)
LEMMA WorkerSteps ==
  ASSUME IInv, NEW w \in Workers, WorkerStep(w) \/ Mishap(w)
  PROVE  IInv'

  <1> USE DEF IInv, TypeOK
  <1>1. served[w] \in BOOLEAN /\ served = [served EXCEPT ![w] = served[w]]
    OBVIOUS
  <1>2. CASE ListenCall(w)
    <2>1. ~served[w] /\ Working(w) BY <1>2 DEF ListenCall, Flags
    <2>2. /\ call' \in [Workers -> 1 .. Len(ListenCalls)]
          /\ listen_fd' \subseteq listen_fd \cup {w}
      BY <1>2 DEF ListenCall, ListenCalls
    <2>3. PICK s \in {"listen", "setup"} : thread' = [thread EXCEPT ![w] = s]
      BY <1>2 DEF ListenCall
    <2>4. UNCHANGED <<mainvars, signalled, exit, served>>
      BY Zenon, <1>2 DEF ListenCall
    <2> QED BY ZenonT(60), <1>1, <2>1, <2>2, <2>3, <2>4, OwnStep DEF Stages
  <1>3. CASE ListenFails(w)
    <2>1. Working(w) /\ (served[w] => "finished" \in {"close", "finished"})
      BY <1>3 DEF ListenFails, Flags
    <2>2. /\ thread' = [thread EXCEPT ![w] = "finished"]
          /\ served' = [served EXCEPT ![w] = served[w]]
          /\ UNCHANGED <<mainvars, signalled, exit>>
      BY Zenon, <1>1, <1>3 DEF ListenFails
    <2>3. /\ call' \in [Workers -> 1 .. Len(ListenCalls)]
          /\ listen_fd' \subseteq listen_fd \cup {w}
          /\ w \in listen_fd' => "finished" # "finished"
      BY <1>3 DEF ListenFails, ListenCloses
    <2> QED BY ZenonT(60), <1>1, <2>1, <2>2, <2>3, OwnStep DEF Stages
  <1>4. CASE LoopStarts(w)
    <2>1. Working(w) /\ (served[w] => "running" \in {"close", "finished"})
      BY <1>4 DEF LoopStarts, Flags
    <2>2. /\ thread' = [thread EXCEPT ![w] = "running"]
          /\ served' = [served EXCEPT ![w] = served[w]]
          /\ UNCHANGED <<mainvars, signalled, exit>>
      BY Zenon, <1>1, <1>4 DEF LoopStarts
    <2>3. /\ call' \in [Workers -> 1 .. Len(ListenCalls)]
          /\ listen_fd' \subseteq listen_fd \cup {w}
          /\ w \in listen_fd' => "running" # "finished"
      BY <1>4 DEF LoopStarts
    <2> QED BY ZenonT(60), <1>1, <2>1, <2>2, <2>3, OwnStep DEF Stages
  <1>5. CASE LoopStartFails(w)
    <2>1. Working(w) /\ (served[w] => "close" \in {"close", "finished"})
      BY <1>5 DEF LoopStartFails, Flags
    <2>2. /\ thread' = [thread EXCEPT ![w] = "close"]
          /\ served' = [served EXCEPT ![w] = served[w]]
          /\ UNCHANGED <<mainvars, signalled, exit>>
      BY Zenon, <1>1, <1>5 DEF LoopStartFails
    <2>3. /\ call' \in [Workers -> 1 .. Len(ListenCalls)]
          /\ listen_fd' \subseteq listen_fd \cup {w}
          /\ w \in listen_fd' => "close" # "finished"
      BY <1>5 DEF LoopStartFails
    <2> QED BY ZenonT(60), <1>1, <2>1, <2>2, <2>3, OwnStep DEF Stages
  <1>6. CASE LoopShutsDown(w)
    <2>1. Working(w) /\ (TRUE => "close" \in {"close", "finished"})
      BY <1>6 DEF LoopShutsDown, Flags
    <2>2. /\ thread' = [thread EXCEPT ![w] = "close"]
          /\ served' = [served EXCEPT ![w] = TRUE]
          /\ UNCHANGED <<mainvars, signalled, exit>>
      BY Zenon, <1>1, <1>6 DEF LoopShutsDown
    <2>3. /\ call' \in [Workers -> 1 .. Len(ListenCalls)]
          /\ listen_fd' \subseteq listen_fd \cup {w}
          /\ w \in listen_fd' => "close" # "finished"
      BY <1>6 DEF LoopShutsDown
    <2> QED BY ZenonT(60), <1>1, <2>1, <2>2, <2>3, OwnStep DEF Stages
  <1>7. CASE ThreadEnds(w)
    <2>1. Working(w) /\ (served[w] => "finished" \in {"close", "finished"})
      BY <1>7 DEF ThreadEnds, Flags
    <2>2. /\ thread' = [thread EXCEPT ![w] = "finished"]
          /\ served' = [served EXCEPT ![w] = served[w]]
          /\ UNCHANGED <<mainvars, signalled, exit>>
      BY Zenon, <1>1, <1>7 DEF ThreadEnds
    <2>3. /\ call' \in [Workers -> 1 .. Len(ListenCalls)]
          /\ listen_fd' \subseteq listen_fd \cup {w}
          /\ w \in listen_fd' => "finished" # "finished"
      BY <1>7 DEF ThreadEnds
    <2> QED BY ZenonT(60), <1>1, <2>1, <2>2, <2>3, OwnStep DEF Stages
  <1>8. CASE LoopBreaks(w)
    <2>1. Working(w) BY <1>8 DEF LoopBreaks
    <2>2. PICK ok \in BOOLEAN : served' = [served EXCEPT ![w] = ok]
      BY Zenon, <1>8 DEF LoopBreaks
    <2>3. /\ thread' = [thread EXCEPT ![w] = "close"]
          /\ UNCHANGED <<mainvars, signalled, exit, call, listen_fd>>
      BY Zenon, <1>8 DEF LoopBreaks
    <2>4. /\ call' \in [Workers -> 1 .. Len(ListenCalls)]
          /\ listen_fd' \subseteq listen_fd \cup {w}
      BY Zenon, <2>3
    <2>5. "close" \in Stages \ {"none"} /\ "close" # "finished" BY DEF Stages
    <2>6. ok => "close" \in {"close", "finished"} OBVIOUS
    <2>7. UNCHANGED <<mainvars, signalled, exit>> BY Zenon, <2>3
    <2> HIDE DEF IInv, TypeOK, mainvars
    <2> QED BY Zenon, <2>1, <2>2, <2>3, <2>4, <2>5, <2>6, <2>7, OwnStep
  <1>9. CASE LoopUndefined(w)
    BY Zenon, <1>9 DEF LoopUndefined, NothingYet, Lifetimes, Flags, Progress,
                     Ending, Exits
  <1> QED BY Zenon, <1>2, <1>3, <1>4, <1>5, <1>6, <1>7, <1>8, <1>9 DEF
             WorkerStep, Mishap

(* SIGINT and SIGTERM, before and after their handler is there. *)
LEMMA SignalSteps ==
  ASSUME IInv, NEW s \in Signals, SignalKills(s) \/ handle_shutdown_signal(s)
  PROVE  IInv'
  <1>1. CASE SignalKills(s)
    BY ZenonT(60), <1>1 DEF IInv, TypeOK, NothingYet, Lifetimes, Flags, Progress,
                       Ending, SignalKills, Exits
  <1>2. CASE handle_shutdown_signal(s)
    BY ZenonT(60), <1>2 DEF IInv, TypeOK, NothingYet, Lifetimes, Flags, Progress,
                       Ending, handle_shutdown_signal
  <1> QED BY <1>1, <1>2

(* The settings main() arrives at are in range whatever it was given. *)
LEMMA Settings ==
  ASSUME NEW env \in Int \cup {NoNumber}, NEW online \in Int
  PROVE  /\ worker_pool_worker_count(env, online) \in Workers
         /\ idle_timeout_from_env(env) \in Timeouts
  <1>1. online_cpu_count(online) \in Workers
    BY WorkerPoolAssumption DEF online_cpu_count
  <1>2. worker_pool_worker_count(env, online) \in Workers
    <2>1. CASE env = NoNumber BY <1>1, <2>1 DEF worker_pool_worker_count
    <2>2. CASE env \in Int
      BY <1>1, <2>2, WorkerPoolAssumption DEF worker_pool_worker_count
    <2> QED BY <2>1, <2>2
  <1>3. idle_timeout_from_env(env) \in Timeouts
    <2>1. CASE env = NoNumber
      BY <2>1, WorkerPoolAssumption DEF idle_timeout_from_env
    <2>2. CASE env \in Int
      BY <2>2, WorkerPoolAssumption DEF idle_timeout_from_env, Timeouts
    <2> QED BY <2>1, <2>2
  <1> QED BY <1>2, <1>3

(* main() starts with nothing open and nothing running. *)
LEMMA InitStep == ASSUME Init PROVE IInv
  <1>1. worker_count \in Workers /\ idle_timeout_seconds \in Timeouts
    BY Zenon, Settings, WorkerPoolAssumption DEF Init
  <1>2. TypeOK
    <2>1. i \in 1 .. MAX_WORKERS + 1 /\ serving \in 0 .. MAX_WORKERS
      BY WorkerPoolAssumption DEF Init
    <2>5. /\ main \in Places /\ handlers \subseteq Signals
          /\ shutdown_fd \in FdStates /\ signalled \in BOOLEAN
      BY Zenon DEF Init, Places, FdStates
    <2>2. /\ pool_status \in {0, -1} /\ allocated \in BOOLEAN
          /\ exit \in Exits /\ listen_fd \subseteq Workers
      BY ZenonT(60) DEF Init, Exits
    <2>3. /\ thread \in [Workers -> Stages]
          /\ call \in [Workers -> 1 .. Len(ListenCalls)]
      BY DEF Init, Stages, ListenCalls
    <2>4. started \in [Workers -> BOOLEAN] /\ served \in [Workers -> BOOLEAN]
      BY Zenon DEF Init
    <2> QED BY Zenon, <1>1, <2>1, <2>2, <2>3, <2>4, <2>5 DEF TypeOK
  <1>3. NothingYet /\ Lifetimes /\ Progress /\ Ending
    BY DEF Init, NothingYet, Lifetimes, Progress, Ending
  <1>4. Flags BY DEF Init, Flags
  <1> QED BY Zenon, <1>2, <1>3, <1>4 DEF IInv

(* Every step of main(), a worker or a signal keeps the invariant. *)
LEMMA NextStep == ASSUME IInv, [Next]_vars PROVE IInv'
  <1>1. CASE MainStep
    BY Zenon, <1>1, IgnoreSigpipeStep, InitStaticFilesStep, CreateEventfdStep,
       InstallHandlerStep, AllocateWorkersStep, CreateWorkerStep,
       CreateDoneStep, JoinStep, JoinDoneStep, CloseEventfdStep,
       ReturnFromMainStep DEF MainStep
  <1>2. CASE \E w \in Workers : WorkerStep(w) \/ Mishap(w)
    BY Zenon, <1>2, WorkerSteps
  <1>3. CASE \E s \in Signals : SignalKills(s) \/ handle_shutdown_signal(s)
    BY Zenon, <1>3, SignalSteps
  <1>4. CASE UNCHANGED vars
    BY ZenonT(60), <1>4 DEF IInv, TypeOK, NothingYet, Lifetimes, Flags, Progress,
                       Ending, vars
  <1> QED BY Zenon, <1>1, <1>2, <1>3, <1>4 DEF Next, Over

(* The inductive invariant. *)
THEOREM Invariance == Spec => []IInv
  BY InitStep, NextStep, PTL DEF Spec

(* Every variable of main(), the pool and its threads keeps its type, for  *)
(* any number of workers: worker_pool_worker_count() and                   *)
(* idle_timeout_from_env() let nothing else through.                       *)
THEOREM TypeCorrect == Spec => []TypeOK
  <1>1. IInv => TypeOK BY Zenon DEF IInv
  <1> QED BY <1>1, Invariance, PTL

(* However many workers there are and whichever of them fail to start, the *)
(* array and the eventfd outlive every thread that uses them: the joins in *)
(* worker_pool_run() come before free() and close().                       *)
THEOREM SharedStateIsKept == Spec => []SharedStateOutlivesWorkers
  <1>1. ASSUME IInv PROVE SharedStateOutlivesWorkers
    <2> SUFFICES ASSUME NEW w \in Workers, Working(w)
                 PROVE  allocated /\ shutdown_fd = "open"
      BY Zenon DEF SharedStateOutlivesWorkers
    <2>1. main \in {"create", "join"} BY Zenon, <1>1, WorkingWhere
    <2> QED BY <1>1, <2>1 DEF IInv, Lifetimes
  <1> QED BY <1>1, Invariance, PTL

(* When main() returns, no thread and no listen socket is left, and the    *)
(* exit status tells whether some worker served.                           *)
THEOREM EndsInOrder == Spec => []ExitIsOrderly
  <1>1. ASSUME IInv, exit \in {"EXIT_SUCCESS", "EXIT_FAILURE"}
        PROVE  /\ \A w \in Workers : ~Working(w)
               /\ listen_fd = {}
               /\ exit = "EXIT_SUCCESS" <=> \E w \in Workers : served[w]
    <2>1. \A w \in Workers : ~Working(w)
      BY <1>1 DEF IInv, NothingYet, Progress, Ending
    <2>2. listen_fd = {} BY <1>1, <2>1 DEF IInv, TypeOK, Flags
    <2>3. CASE main \in Early
      <3>1. \A w \in Workers : ~served[w]
        BY <1>1, <2>3 DEF IInv, NothingYet, Flags
      <3> QED BY <1>1, <2>1, <2>2, <2>3, <3>1 DEF IInv, Ending
    <2>4. CASE main = "return"
      BY <1>1, <2>1, <2>2, <2>4 DEF IInv, Progress, Ending
    <2> QED BY <1>1, <2>3, <2>4 DEF IInv, Ending
  <1>2. IInv => ExitIsOrderly BY Zenon, <1>1 DEF ExitIsOrderly
  <1> QED BY <1>2, Invariance, PTL
=============================================================================
