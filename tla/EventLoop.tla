----------------------------- MODULE EventLoop -----------------------------
(***************************************************************************)
(* One call of event_loop_run(): its setup, the epoll_wait() batches, the  *)
(* accept loop, the linked list of connections and the heap they live in,  *)
(* the idle sweep and the teardown.                                        *)
(*                                                                         *)
(* What a handler does inside one connection is in Connection; here it     *)
(* closes the connection or leaves it, having moved bytes or not, with     *)
(* last_activity set or not.  The loop thread is fast: the clock moves     *)
(* only while it sleeps in epoll_wait().                                   *)
(*                                                                         *)
(* Handling an event of a connection that has been freed is undefined      *)
(* behaviour; pc becomes "undefined" and nothing is claimed from there.    *)
(***************************************************************************)
EXTENDS Integers, Sequences, FiniteSets

CONSTANTS
  Addrs,                       \* heap addresses malloc() may return
  NULL,
  MAX_EVENTS,
  IDLE_SWEEP_INTERVAL_SECONDS,
  idle_timeout_seconds,
  TicksPerSecond,              \* clock resolution: time() rounds down to 1 s
  MaxTime,                     \* bound on the clock, in ticks
  Skews,                       \* how far off the wall clock may be set, in ticks
  MaxJump,                     \* the most it can be off from one time to another
  MaxArrivals,                 \* bound on the clients that connect
  MaxBroken                    \* bound on what is broken at the same time

ASSUME EventLoopAssumption ==
  /\ NULL \notin Addrs
  /\ Addrs \cap {"listen", "timer", "shutdown"} = {}
  /\ MAX_EVENTS \in Nat \ {0}
  /\ IDLE_SWEEP_INTERVAL_SECONDS \in Nat \ {0}
  /\ idle_timeout_seconds \in Nat \ {0}
  /\ TicksPerSecond \in Nat \ {0}
  /\ Skews \subseteq Int /\ MaxJump \in Nat
  /\ \A s, t \in Skews \cup {0} : s - t <= MaxJump
  /\ MaxTime \in Nat /\ MaxArrivals \in Nat /\ MaxBroken \in Nat

VARIABLES
  now,          \* the monotonic clock, in ticks
  skew,         \* how much later the wall clock is
  backlog,      \* connections in the accept queue of listen_fd
  arrivals,     \* clients that have connected so far
  signalled,    \* the shutdown eventfd is readable
  broken,       \* what would report EPOLLERR or EPOLLHUP
  watched,      \* the infrastructure descriptors in the epoll set
  rdlist,       \* the kernel's ready list
  batch,        \* events[i ..]: reported and not handled yet
  stale,        \* connections closed since epoll_wait() reported them in batch
  pc,
  step,         \* the next call of the setup
  own_fds,      \* epoll_fd and timer_fd, once open
  timer,        \* when timer_fd expires next
  status,       \* what event_loop_run() returns
  gave_up,      \* accept4() failed with clients still queued
  live,         \* allocated connections, each with its descriptor open
  prev, next,   \* the list links inside them
  connections,  \* the head of the list
  cur,          \* the sweep's cursor
  last_activity,
  awaiting_writable,
  touched,      \* history: the tick at which last_activity was set
  moved         \* history: the tick at which a byte last went either way

world  == <<now, skew, backlog, arrivals, signalled>>
epoll  == <<watched, rdlist, batch, broken, stale>>
list   == <<prev, next, connections, live>>
clocks == <<last_activity, awaiting_writable, touched, moved>>
rest   == <<step, own_fds, timer>>
vars   == <<world, epoll, list, clocks, rest, pc, status, gave_up, cur>>

Infrastructure == {"listen", "timer", "shutdown"}
InList(t) == \E i \in 1 .. Len(rdlist) : rdlist[i] = t
InBatch(t) == \E i \in 1 .. Len(batch) : batch[i].tag = t
Enqueue(t) == IF InList(t) THEN rdlist ELSE Append(rdlist, t)

(* The ready list, on which nothing is twice, without t. *)
Dequeue(t) ==
  IF InList(t)
  THEN LET i == CHOOSE i \in 1 .. Len(rdlist) : rdlist[i] = t
       IN SubSeq(rdlist, 1, i - 1) \o SubSeq(rdlist, i + 1, Len(rdlist))
  ELSE rdlist

(* time(NULL): whole seconds of the wall clock. *)
time == (now + skew) \div TicksPerSecond

Init ==
  /\ now \in 0 .. TicksPerSecond - 1  \* any phase of the second
  /\ skew = 0 /\ backlog = 0 /\ arrivals = 0 /\ signalled = FALSE
  /\ broken = {} /\ watched = {} /\ rdlist = <<>> /\ batch = <<>> /\ stale = {}
  /\ pc = "setup" /\ step = 1 /\ own_fds = {} /\ timer = 0
  /\ status = 0 /\ gave_up = FALSE
  /\ live = {} /\ connections = NULL /\ cur = NULL
  /\ prev = [a \in Addrs |-> NULL] /\ next = [a \in Addrs |-> NULL]
  /\ last_activity = [a \in Addrs |-> 0]
  /\ awaiting_writable = [a \in Addrs |-> FALSE]
  /\ touched = [a \in Addrs |-> 0] /\ moved = [a \in Addrs |-> 0]

-----------------------------------------------------------------------------
(* The world outside the thread. *)

Running == pc \notin {"returned", "undefined"}
Asleep == pc = "epoll_wait" /\ rdlist = <<>>

(* Time passes while the loop sleeps; the periodic timer makes an edge at  *)
(* every expiration.                                                       *)
Tick ==
  /\ Asleep /\ now < MaxTime
  /\ now' = now + 1
  /\ IF now + 1 = timer
     THEN /\ rdlist' = <<"timer">>
          /\ timer' = timer + IDLE_SWEEP_INTERVAL_SECONDS * TicksPerSecond
     ELSE UNCHANGED <<rdlist, timer>>
  /\ UNCHANGED <<skew, backlog, arrivals, signalled, watched, batch, broken,
                 stale, list, clocks, step, own_fds, pc, status, gave_up, cur>>

(* The wall clock is set.  The timer runs on CLOCK_MONOTONIC and does not  *)
(* notice; time() does.                                                    *)
ClockIsSet ==
  /\ Asleep
  /\ skew' \in Skews
  /\ UNCHANGED <<now, backlog, arrivals, signalled, epoll, list, clocks, rest,
                 pc, status, gave_up, cur>>

(* A handshake completes; the listen socket is edge-triggered. *)
ClientConnects ==
  /\ Running /\ arrivals < MaxArrivals
  /\ arrivals' = arrivals + 1 /\ backlog' = backlog + 1
  /\ rdlist' = IF "listen" \in watched THEN Enqueue("listen") ELSE rdlist
  /\ gave_up' = FALSE
  /\ UNCHANGED <<now, skew, signalled, watched, batch, broken, stale, list,
                 clocks, rest, pc, status, cur>>

(* Bytes, room or a hang-up on an accepted connection.  What comes while   *)
(* the thread is busy shows at its next epoll_wait(), so it comes there.   *)
ClientActs(a, hangup) ==
  /\ pc = "epoll_wait" /\ (hangup => Cardinality(broken) < MaxBroken)
  /\ rdlist' = Enqueue(a)
  /\ broken' = IF hangup THEN broken \cup {a} ELSE broken
  /\ UNCHANGED <<world, watched, batch, stale, list, clocks, rest, pc, status,
                 gave_up, cur>>

InfrastructureBreaks(t) ==
  /\ pc = "epoll_wait" /\ Cardinality(broken) < MaxBroken
  /\ broken' = broken \cup {t} /\ rdlist' = Enqueue(t)
  /\ UNCHANGED <<world, watched, batch, stale, list, clocks, rest, pc, status,
                 gave_up, cur>>

(* The signal handler of main.c has posted to the eventfd. *)
Signal ==
  /\ Running /\ ~signalled
  /\ signalled' = TRUE
  /\ rdlist' = IF "shutdown" \in watched THEN Enqueue("shutdown") ELSE rdlist
  /\ UNCHANGED <<now, skew, backlog, arrivals, watched, batch, broken, stale,
                 list, clocks, rest, pc, status, gave_up, cur>>

-----------------------------------------------------------------------------
(* The setup in event_loop_run(). *)

SetupCalls == <<"set_nonblocking", "epoll_create1", "add listen",
                "timerfd_create", "timerfd_settime", "add timer",
                "add shutdown">>

(* Each call opens or registers something; EPOLL_CTL_ADD polls, so what is *)
(* already readable is queued.                                             *)
SetupCall ==
  /\ pc = "setup"
  /\ LET call == SetupCalls[step] IN
     /\ own_fds' = CASE call = "epoll_create1"  -> own_fds \cup {"epoll"}
                     [] call = "timerfd_create" -> own_fds \cup {"timer"}
                     [] OTHER                   -> own_fds
     /\ watched' = CASE call = "add listen"   -> watched \cup {"listen"}
                     [] call = "add timer"    -> watched \cup {"timer"}
                     [] call = "add shutdown" -> watched \cup {"shutdown"}
                     [] OTHER                 -> watched
     /\ rdlist' = CASE call = "add listen" /\ backlog > 0   -> Enqueue("listen")
                    [] call = "add shutdown" /\ signalled -> Enqueue("shutdown")
                    [] OTHER                              -> rdlist
     /\ timer' = IF call = "timerfd_settime"
                 THEN now + IDLE_SWEEP_INTERVAL_SECONDS * TicksPerSecond
                 ELSE timer
  /\ step' = step + 1
  /\ pc' = IF step = Len(SetupCalls) THEN "epoll_wait" ELSE "setup"
  /\ UNCHANGED <<world, batch, broken, stale, list, clocks, status, gave_up, cur>>

(* Mutant: a failure after timerfd_create() forgets the timer. *)
SetupLeaksTimer(call) == {"epoll"}

(* What the error path of a setup call closes. *)
SetupCloses(call) ==
  CASE call \in {"set_nonblocking", "epoll_create1"} -> {}
    [] call \in {"add listen", "timerfd_create"}     -> {"epoll"}
    [] OTHER                                         -> {"epoll", "timer"}

SetupFails ==
  /\ pc = "setup"
  /\ own_fds' = own_fds \ SetupCloses(SetupCalls[step])
  /\ watched' = {} /\ rdlist' = <<>>
  /\ status' = -1 /\ pc' = "returned"
  /\ UNCHANGED <<world, batch, broken, stale, list, clocks, step, timer,
                 gave_up, cur>>

-----------------------------------------------------------------------------
(* The list of live connections. *)

list_insert(conn) ==
  /\ next' = [next EXCEPT ![conn] = connections]
  /\ prev' = [a \in Addrs |-> CASE a = conn        -> NULL
                               [] a = connections -> conn
                               [] OTHER           -> prev[a]]
  /\ connections' = conn

(* Mutant: the successor keeps its back link. *)
ListRemoveKeepsPrev(conn) ==
  /\ next' = [a \in Addrs |-> CASE a = conn       -> NULL
                               [] a = prev[conn] -> next[conn]
                               [] OTHER          -> next[a]]
  /\ prev' = [prev EXCEPT ![conn] = NULL]
  /\ connections' = IF prev[conn] = NULL THEN next[conn] ELSE connections

(* The links of the freed connection itself are cleared: nobody may read   *)
(* them again.                                                             *)
list_remove(conn) ==
  /\ next' = [a \in Addrs |-> CASE a = conn       -> NULL
                               [] a = prev[conn] -> next[conn]
                               [] OTHER          -> next[a]]
  /\ prev' = [a \in Addrs |-> CASE a = conn       -> NULL
                               [] a = next[conn] -> prev[conn]
                               [] OTHER          -> prev[a]]
  /\ connections' = IF prev[conn] = NULL THEN next[conn] ELSE connections

Forget(f, a, v) == [f EXCEPT ![a] = v]

(* list_remove(), release_file_body(), close() and free().  close() takes  *)
(* the descriptor out of the epoll set, but not out of a batch already     *)
(* reported.                                                               *)
close_connection(conn) ==
  /\ list_remove(conn)
  /\ live' = live \ {conn}
  /\ rdlist' = Dequeue(conn)
  /\ broken' = broken \ {conn}
  /\ last_activity' = Forget(last_activity, conn, 0)
  /\ awaiting_writable' = Forget(awaiting_writable, conn, FALSE)
  /\ touched' = Forget(touched, conn, 0)
  /\ moved' = Forget(moved, conn, 0)

-----------------------------------------------------------------------------
(* epoll_wait() and the loop over its batch. *)

AtMost(m, n) == IF m < n THEN m ELSE n

(* Up to MAX_EVENTS entries leave the ready list; the level-triggered      *)
(* eventfd goes back on it.                                                *)
EpollWait ==
  /\ pc = "epoll_wait" /\ rdlist # <<>>
  /\ LET ready == AtMost(Len(rdlist), MAX_EVENTS) IN
     /\ batch' = [i \in 1 .. ready |->
                    [tag |-> rdlist[i], err |-> rdlist[i] \in broken]]
     /\ rdlist' = SubSeq(rdlist, ready + 1, Len(rdlist))
                    \o IF \E i \in 1 .. ready : rdlist[i] = "shutdown"
                       THEN <<"shutdown">> ELSE <<>>
  /\ pc' = "dispatch"
  /\ UNCHANGED <<world, watched, broken, stale, list, clocks, rest, status,
                 gave_up, cur>>

(* An error other than EINTR leaves the loop with status 0. *)
EpollWaitFails ==
  /\ pc = "epoll_wait"
  /\ pc' = "teardown"
  /\ UNCHANGED <<world, epoll, list, clocks, rest, status, gave_up, cur>>

BatchDone ==
  /\ pc = "dispatch" /\ batch = <<>>
  /\ pc' = "epoll_wait"
  /\ UNCHANGED <<world, epoll, list, clocks, rest, status, gave_up, cur>>

(* The event at the head of the batch is taken by the branch for its tag.  *)
Take(tags, err) ==
  /\ pc = "dispatch" /\ batch # <<>>
  /\ Head(batch).tag \in tags /\ Head(batch).err = err
  /\ batch' = Tail(batch)
  /\ stale' = stale \ {Head(batch).tag}

(* Mutant: shutdown is noticed and the loop goes on. *)
StopIgnored(st) == pc' = "dispatch" /\ status' = st

(* running = false; break. *)
Stop(st) == pc' = "teardown" /\ status' = st

InfrastructureError ==
  /\ Take(Infrastructure, TRUE)
  /\ Stop(-1)
  /\ UNCHANGED <<world, watched, rdlist, broken, list, clocks, rest, gave_up, cur>>

Shutdown ==
  /\ Take({"shutdown"}, FALSE)
  /\ Stop(status)
  /\ UNCHANGED <<world, watched, rdlist, broken, list, clocks, rest, gave_up, cur>>

Listen ==
  /\ Take({"listen"}, FALSE)
  /\ pc' = "accept"
  /\ UNCHANGED <<world, watched, rdlist, broken, list, clocks, rest, status,
                 gave_up, cur>>

Timer ==
  /\ Take({"timer"}, FALSE)
  /\ pc' = "sweep" /\ cur' = connections
  /\ UNCHANGED <<world, watched, rdlist, broken, list, clocks, rest, status, gave_up>>

HangUp ==
  /\ Take(live, TRUE)
  /\ close_connection(Head(batch).tag)
  /\ UNCHANGED <<world, watched, rest, pc, status, gave_up, cur>>

(* flush_pending_write() or handle_client_readable() ends in a close. *)
HandlerCloses ==
  /\ Take(live, FALSE)
  /\ close_connection(Head(batch).tag)
  /\ UNCHANGED <<world, watched, rest, pc, status, gave_up, cur>>

(* last_activity = time(NULL) *)
Touch(a) ==
  /\ last_activity' = [last_activity EXCEPT ![a] = time]
  /\ touched' = [touched EXCEPT ![a] = now]

(* Bytes were read, or a blocked response was completed: the idle clock    *)
(* restarts, and the next response may block.                              *)
HandlerReadsOrFinishes ==
  /\ Take(live, FALSE)
  /\ LET a == Head(batch).tag IN
     /\ Touch(a)
     /\ moved' = [moved EXCEPT ![a] = now]
     /\ \E blocked \in BOOLEAN :
          awaiting_writable' = [awaiting_writable EXCEPT ![a] = blocked]
  /\ UNCHANGED <<world, watched, rdlist, broken, list, rest, pc, status,
                 gave_up, cur>>

(* flush_pending_write() sends some more and blocks again. *)
HandlerWritesSome ==
  /\ Take({a \in live : awaiting_writable[a]}, FALSE)
  /\ moved' = [moved EXCEPT ![Head(batch).tag] = now]
  /\ UNCHANGED <<world, watched, rdlist, broken, list, last_activity,
                 awaiting_writable, touched, rest, pc, status, gave_up, cur>>

(* EAGAIN at once: the edge was for bytes or room already used. *)
HandlerFindsNothing ==
  /\ Take(live, FALSE)
  /\ UNCHANGED <<world, watched, rdlist, broken, list, clocks, rest, pc,
                 status, gave_up, cur>>

(* The event of a connection that was freed earlier in this batch. *)
FreedConnection ==
  /\ \E err \in BOOLEAN : Take(Addrs \ live, err)
  /\ pc' = "undefined"
  /\ UNCHANGED <<world, watched, rdlist, broken, list, clocks, rest, status,
                 gave_up, cur>>

-----------------------------------------------------------------------------
(* accept_new_connections(). *)

(* Mutant: accept4() is taken to succeed on an empty queue. *)
QueuedAlways == backlog >= 0

(* accept4() has a client to return. *)
Queued == backlog > 0

(* Mutant: one accept4() per wakeup. *)
AcceptOnce == "dispatch"

(* The accept loop goes on after every client. *)
AcceptMore == "accept"

(* A client is taken and its connection set up; EPOLL_CTL_ADD fails, or    *)
(* queues it at once if it has already sent something.                     *)
Accept ==
  /\ pc = "accept" /\ Queued
  /\ backlog' = backlog - 1
  /\ \E conn \in Addrs \ live, early, added \in BOOLEAN :
       /\ list_insert(conn)
       /\ live' = live \cup {conn}
       /\ last_activity' = [last_activity EXCEPT ![conn] = time]
       /\ touched' = [touched EXCEPT ![conn] = now]
       /\ moved' = [moved EXCEPT ![conn] = now]
       /\ rdlist' = IF added /\ early THEN Append(rdlist, conn) ELSE rdlist
       /\ pc' = IF added THEN AcceptMore ELSE "unregistered"
  /\ UNCHANGED <<now, skew, arrivals, signalled, watched, batch, broken, stale,
                 awaiting_writable, rest, status, gave_up, cur>>

(* The connection that could not be registered is closed: it is the one    *)
(* just inserted, at the head of the list.                                 *)
AcceptUndone ==
  /\ pc = "unregistered"
  /\ close_connection(connections)
  /\ pc' = AcceptMore
  /\ UNCHANGED <<world, watched, batch, stale, rest, status, gave_up, cur>>

(* A client is lost before it has a connection: ECONNABORTED or no memory. *)
AcceptLoses ==
  /\ pc = "accept" /\ Queued
  /\ backlog' = backlog - 1
  /\ pc' = AcceptMore
  /\ UNCHANGED <<now, skew, arrivals, signalled, epoll, list, clocks, rest,
                 status, gave_up, cur>>

AcceptDry ==
  /\ pc = "accept" /\ backlog = 0
  /\ pc' = "dispatch"
  /\ UNCHANGED <<world, epoll, list, clocks, rest, status, gave_up, cur>>

(* EMFILE, ENFILE and the like: the queue is left as it is. *)
AcceptGivesUp ==
  /\ pc = "accept" /\ Queued
  /\ gave_up' = TRUE
  /\ pc' = "dispatch"
  /\ UNCHANGED <<world, epoll, list, clocks, rest, status, cur>>

-----------------------------------------------------------------------------
(* sweep_idle_connections() and the teardown. *)

(* Mutant: the sweep compares with > instead of >=. *)
ExpiredLate(a) == time - last_activity[a] > idle_timeout_seconds

(* Mutant: one second too generous to the sweep. *)
ExpiredEarly(a) == time - last_activity[a] >= idle_timeout_seconds - 1

Expired(a) == time - last_activity[a] >= idle_timeout_seconds

(* Mutant: the sweep goes on from the connection it has just freed. *)
SavedNextFreed == cur

(* next = conn->next, read before conn may be freed. *)
SavedNext == next[cur]

SweepNext ==
  /\ pc = "sweep" /\ cur # NULL
  /\ cur' = SavedNext
  /\ IF Expired(cur)
     THEN /\ close_connection(cur)
          /\ stale' = IF InBatch(cur) THEN stale \cup {cur} ELSE stale
     ELSE UNCHANGED <<list, clocks, rdlist, broken, stale>>
  /\ UNCHANGED <<world, watched, batch, rest, pc, status, gave_up>>

SweepDone ==
  /\ pc = "sweep" /\ cur = NULL
  /\ pc' = "dispatch"
  /\ UNCHANGED <<world, epoll, list, clocks, rest, status, gave_up, cur>>

(* close_all_connections() *)
CloseNext ==
  /\ pc = "teardown" /\ connections # NULL
  /\ close_connection(connections)
  /\ UNCHANGED <<world, watched, batch, stale, rest, pc, status, gave_up, cur>>

Return ==
  /\ pc = "teardown" /\ connections = NULL
  /\ own_fds' = {} /\ watched' = {} /\ rdlist' = <<>>
  /\ batch' = <<>> /\ stale' = {}
  /\ pc' = "returned"
  /\ UNCHANGED <<world, broken, list, clocks, step, timer, status, gave_up, cur>>

Over == ~Running /\ UNCHANGED vars

-----------------------------------------------------------------------------
LoopStep ==
  \/ SetupCall \/ SetupFails
  \/ EpollWait \/ BatchDone
  \/ InfrastructureError \/ Shutdown \/ Listen \/ Timer \/ HangUp
  \/ HandlerCloses \/ HandlerReadsOrFinishes \/ HandlerWritesSome
  \/ HandlerFindsNothing \/ FreedConnection
  \/ Accept \/ AcceptUndone \/ AcceptLoses \/ AcceptDry \/ AcceptGivesUp
  \/ SweepNext \/ SweepDone \/ CloseNext \/ Return

World ==
  \/ Tick \/ ClockIsSet \/ ClientConnects \/ Signal \/ EpollWaitFails
  \/ \E a \in live, hangup \in BOOLEAN : ClientActs(a, hangup)
  \/ \E t \in watched : InfrastructureBreaks(t)

Next == LoopStep \/ World \/ Over

Spec == Init /\ [][Next]_vars

(* The thread is scheduled and epoll_wait() returns when something is ready. *)
FairSpec == Spec /\ WF_vars(LoopStep)

-----------------------------------------------------------------------------
Pointer == Addrs \cup {NULL}
Tags == Infrastructure \cup Addrs
Event == [tag : Tags, err : BOOLEAN]
Places == {"setup", "epoll_wait", "dispatch", "accept", "unregistered", "sweep",
           "teardown", "returned", "undefined"}

(* Types: the state of event_loop_t, of its connections and of the kernel. *)
TypeOK ==
  /\ now \in Nat /\ skew \in Int /\ backlog \in Nat /\ arrivals \in Nat
  /\ signalled \in BOOLEAN /\ broken \subseteq Tags
  /\ watched \subseteq Infrastructure
  /\ rdlist \in Seq(Tags) /\ batch \in Seq(Event)
  /\ stale \subseteq Addrs
  /\ pc \in Places
  /\ step \in 1 .. Len(SetupCalls) + 1 /\ own_fds \subseteq {"epoll", "timer"}
  /\ timer \in Nat /\ status \in {0, -1} /\ gave_up \in BOOLEAN
  /\ live \subseteq Addrs /\ connections \in Pointer /\ cur \in Pointer
  /\ prev \in [Addrs -> Pointer] /\ next \in [Addrs -> Pointer]
  /\ last_activity \in [Addrs -> Int]
  /\ awaiting_writable \in [Addrs -> BOOLEAN]
  /\ touched \in [Addrs -> Nat] /\ moved \in [Addrs -> Nat]

(* The links spell out s: forwards from the head, backwards from the end.  *)
Spells(s) ==
  LET At(i) == IF i \in DOMAIN s THEN s[i] ELSE NULL IN
  /\ connections = At(1)
  /\ \A i \in DOMAIN s : next[s[i]] = At(i + 1) /\ prev[s[i]] = At(i - 1)

(* The list reaches every live connection exactly once and nothing else,   *)
(* both ways, whatever order accept, hang-ups, handlers, the sweep and the *)
(* teardown take them out in (list_insert, list_remove).                   *)
ListIsExact ==
  \E s \in [1 .. Cardinality(live) -> live] :
    (\A i, j \in DOMAIN s : s[i] = s[j] => i = j) /\ Spells(s)

(* The sweep's saved cursor never points at a freed connection: grabbing   *)
(* next before close_connection() is enough.                               *)
CursorIsLive == pc = "sweep" => cur \in live \cup {NULL}

(* No connection outlives its deadline by a whole sweep interval, with     *)
(* time() rounded to seconds and the sweep on a timer of its own           *)
(* (sweep_idle_connections, IDLE_SWEEP_INTERVAL_SECONDS), "can linger up   *)
(* to that long past its actual deadline": where the wall clock is set,    *)
(* by no more than the jump on top.                                        *)
NoLinger ==
  Asleep => \A a \in live :
    now - touched[a]
      < (idle_timeout_seconds + IDLE_SWEEP_INTERVAL_SECONDS) * TicksPerSecond
          + MaxJump

Sweeps(a) == pc = "sweep" /\ a \in live /\ a \notin live'

(* The sweep takes no connection that was read from, or finished a         *)
(* response, within the timeout less the second that time() may round off  *)
(* and less the jump, where the wall clock is set.                         *)
SweepNotEarly ==
  [][\A a \in Addrs : Sweeps(a) =>
       now - touched[a]
         > (idle_timeout_seconds - 1) * TicksPerSecond - MaxJump]_vars

(* A client still taking its response is not idle: main.c promises that a  *)
(* slow link is never punished.                                            *)
SlowReaderNotPunished ==
  [][\A a \in Addrs : Sweeps(a) =>
       now - moved[a] > (idle_timeout_seconds - 1) * TicksPerSecond]_vars

(* Nobody waits in the accept queue of a sleeping loop, except after an    *)
(* accept4() error, which the comment in accept_new_connections() owns up  *)
(* to: the listen socket's edges are not lost, from the setup on.          *)
AcceptQueueDrained == Asleep => backlog = 0 \/ gave_up

(* However it ends, event_loop_run() leaves no connection, no epoll        *)
(* instance and no timer behind.                                           *)
NothingLeaks == pc = "returned" => live = {} /\ own_fds = {}

(* The comment in close_connection() says epoll_wait() cannot hand back a  *)
(* dangling pointer: the event at hand is for the connection it was        *)
(* reported for, which has not been closed in between.                     *)
NoDanglingEvent ==
  pc = "dispatch" /\ batch # <<>> => Head(batch).tag \notin stale

(* event_loop.h: -1 if the loop could not be set up, 0 if it ran. *)
StatusTellsWhetherItRan ==
  pc = "returned" => (status = -1 <=> step <= Len(SetupCalls))

(* How far the caller sees the loop. *)
phase ==
  CASE pc \in {"epoll_wait", "dispatch", "accept", "unregistered", "sweep"} -> "running"
    [] pc = "teardown" -> "stopping"
    [] OTHER           -> pc

Contract == INSTANCE LoopContract

(* The loop, with its batches, list and sweep, is what worker_main() calls: *)
(* it starts or fails once, stops once, and its status never changes after. *)
ImplementsContract == Contract!Spec

(* A shutdown signal, whenever it comes, ends the loop (or is overtaken by *)
(* undefined behaviour): the eventfd is level-triggered and never read.    *)
ShutdownEndsLoop == signalled ~> ~Running

(* A client in the accept queue is taken out of it, or accept4() failed,   *)
(* or the loop ended.                                                      *)
QueuedClientsAccepted == (backlog > 0) ~> (backlog = 0 \/ gave_up \/ ~Running)
=============================================================================
