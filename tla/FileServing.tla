---------------------------- MODULE FileServing ----------------------------
(***************************************************************************)
(* Several workers serving files at once.  They share no variable of the   *)
(* program, but one process: its descriptor table, and a file system that  *)
(* anyone may change between two system calls.  A lookup is one step per   *)
(* system call: open(), readlink(/proc/self/fd/N), fstat().                *)
(*                                                                         *)
(* A target is what routing makes of the path of a request (StaticPaths):  *)
(* one of the built-in routes, a path that is malformed, one that can name *)
(* no file, or the name of a file under the root.  A socket is known by    *)
(* its connection, an open file by its inode.                              *)
(***************************************************************************)
CONSTANTS
  Workers, Conns,
  WorkerOf,   \* the worker a connection is accepted by
  Names,      \* the paths join_under_root() can make
  Files,      \* the inodes
  Regular,    \* those for which S_ISREG holds
  Fd,         \* the descriptors left when the pool is up
  NULL        \* -1, or nothing

ASSUME FileServingAssumption ==
  /\ WorkerOf \in [Conns -> Workers] /\ Regular \subseteq Files
  /\ Files \cap Conns = {} /\ NULL \notin Files \cup Conns \cup Fd
  /\ Names \cap {"builtin", "invalid", "missing"} = {}

Targets  == {"builtin", "invalid", "missing"} \cup Names
Requests == [get : BOOLEAN, target : Targets]

VARIABLES
  link,      \* the inode each name leads to, or NULL
  inside,    \* the inodes that are below the root now
  table,     \* what each descriptor of the process stands for, or NULL
  sock,      \* conn->fd
  file_fd,   \* conn->file_fd
  blocked,   \* conn->awaiting_writable
  pc,        \* what the worker does next
  conn,      \* the connection it is handling
  req,       \* the request it is answering
  fd,        \* the descriptor static_file_open() or its caller holds
  status,    \* of the routed response
  found,     \* history: the inode of this lookup, if it was below the root
  body       \* history: the same, for the response of a connection

world  == <<link, inside>>
worker == <<pc, conn, req, fd, status, found>>
conns  == <<sock, file_fd, blocked, body>>
vars   == <<world, table, worker, conns>>

Init ==
  /\ link \in [Names -> Files \cup {NULL}] /\ inside \in SUBSET Files
  /\ table = [d \in Fd |-> NULL]
  /\ sock = [c \in Conns |-> NULL] /\ file_fd = [c \in Conns |-> NULL]
  /\ blocked = [c \in Conns |-> FALSE] /\ body = [c \in Conns |-> NULL]
  /\ pc = [w \in Workers |-> "epoll_wait"] /\ conn = [w \in Workers |-> NULL]
  /\ req = [w \in Workers |-> NULL] /\ fd = [w \in Workers |-> NULL]
  /\ status = [w \in Workers |-> 0] /\ found = [w \in Workers |-> NULL]

-----------------------------------------------------------------------------
(* The rest of the world. *)

(* A name is created, removed, or made to lead elsewhere. *)
Relink(n, f) ==
  /\ link' = [link EXCEPT ![n] = f]
  /\ UNCHANGED <<inside, table, worker, conns>>

(* An inode is moved into the root or out of it. *)
Move(f) ==
  /\ inside' = IF f \in inside THEN inside \ {f} ELSE inside \cup {f}
  /\ UNCHANGED <<link, table, worker, conns>>

-----------------------------------------------------------------------------
(* The event loop around the lookup. *)

(* accept4() takes a free descriptor; with none the client stays queued. *)
Accept(c, d) ==
  /\ pc[WorkerOf[c]] = "epoll_wait" /\ sock[c] = NULL /\ table[d] = NULL
  /\ sock' = [sock EXCEPT ![c] = d]
  /\ table' = [table EXCEPT ![d] = c]
  /\ UNCHANGED <<world, worker, file_fd, blocked, body>>

(* close_connection(): release_file_body(), then close(conn->fd). *)
close_connection(c) ==
  /\ table' = [d \in Fd |-> IF d \in {sock[c], file_fd[c]} THEN NULL ELSE table[d]]
  /\ sock' = [sock EXCEPT ![c] = NULL]
  /\ file_fd' = [file_fd EXCEPT ![c] = NULL]
  /\ blocked' = [blocked EXCEPT ![c] = FALSE]
  /\ body' = [body EXCEPT ![c] = NULL]

(* The client left, the connection failed or was idle for too long. *)
Drop(c) ==
  /\ pc[WorkerOf[c]] = "epoll_wait" /\ sock[c] # NULL
  /\ close_connection(c)
  /\ UNCHANGED <<world, worker>>

(* Mutant: a built-in route answers another status to another method. *)
OtherStatus(r) ==
  CASE r.target = "builtin" -> IF r.get THEN 200 ELSE 501
    [] r.target = "invalid" -> 400
    [] OTHER                -> 404

(* The status of a request that needs no lookup. *)
Immediate(r) ==
  CASE r.target = "builtin" -> IF r.get THEN 200 ELSE 405
    [] r.target = "invalid" -> 400
    [] OTHER                -> 404

(* Mutant: the method is checked before the lookup. *)
EarlyMethodCheck(c, r) ==
  LET w == WorkerOf[c] IN
  /\ pc[w] = "epoll_wait" /\ sock[c] # NULL /\ ~blocked[c]
  /\ conn' = [conn EXCEPT ![w] = c] /\ req' = [req EXCEPT ![w] = r]
  /\ found' = [found EXCEPT ![w] = NULL]
  /\ IF r.target \in Names /\ r.get
     THEN pc' = [pc EXCEPT ![w] = "open"] /\ UNCHANGED status
     ELSE /\ pc' = [pc EXCEPT ![w] = "prepare"]
          /\ status' = [status EXCEPT ![w] = IF r.get THEN Immediate(r) ELSE 405]
  /\ UNCHANGED <<world, table, conns, fd>>

(* process_input() has a request of connection c: route_request().         *)
route_request(c, r) ==
  LET w == WorkerOf[c] IN
  /\ pc[w] = "epoll_wait" /\ sock[c] # NULL /\ ~blocked[c]
  /\ conn' = [conn EXCEPT ![w] = c] /\ req' = [req EXCEPT ![w] = r]
  /\ found' = [found EXCEPT ![w] = NULL]
  /\ IF r.target \in Names
     THEN pc' = [pc EXCEPT ![w] = "open"] /\ UNCHANGED status
     ELSE /\ pc' = [pc EXCEPT ![w] = "prepare"]
          /\ status' = [status EXCEPT ![w] = Immediate(r)]
  /\ UNCHANGED <<world, table, conns, fd>>

-----------------------------------------------------------------------------
(* static_file_open(). *)

Answer(w, s) ==
  /\ pc' = [pc EXCEPT ![w] = "prepare"]
  /\ status' = [status EXCEPT ![w] = s]

(* close(fd), and forget it. *)
CloseLocal(w) ==
  /\ table' = [table EXCEPT ![fd[w]] = NULL]
  /\ fd' = [fd EXCEPT ![w] = NULL]

open(w, d) ==
  LET f == link[req[w].target] IN
  /\ pc[w] = "open" /\ f # NULL /\ table[d] = NULL
  /\ table' = [table EXCEPT ![d] = f]
  /\ fd' = [fd EXCEPT ![w] = d]
  /\ pc' = [pc EXCEPT ![w] = "verify"]
  /\ UNCHANGED <<world, conns, conn, req, status, found>>

(* Nothing there, no permission, no descriptor left: every failure is 404. *)
OpenFails(w) ==
  /\ pc[w] = "open"
  /\ Answer(w, 404)
  /\ UNCHANGED <<world, table, conns, conn, req, fd, found>>

(* Mutant: the path is checked again, not the descriptor. *)
PathIsWithinRoot(w) == link[req[w].target] \in inside

fd_is_within_root(w) == table[fd[w]] \in inside

(* readlink() names the inode behind fd, or fails, and then the file is    *)
(* not served.                                                             *)
Verify(w) ==
  /\ pc[w] = "verify"
  /\ found' = [found EXCEPT ![w] = IF table[fd[w]] \in inside THEN table[fd[w]] ELSE NULL]
  /\ \/ /\ fd_is_within_root(w)
        /\ pc' = [pc EXCEPT ![w] = "fstat"]
        /\ UNCHANGED <<table, fd, status>>
     \/ CloseLocal(w) /\ Answer(w, 404)
  /\ UNCHANGED <<world, conns, conn, req>>

(* Mutant: the descriptor of a file that is not regular stays open. *)
ForgetFd(w) ==
  /\ fd' = [fd EXCEPT ![w] = NULL]
  /\ UNCHANGED table

CloseIrregular(w) == CloseLocal(w)

(* fstat() fails or the file is not regular: 404.  Otherwise the method is *)
(* looked at, and only a GET keeps the file.                               *)
Fstat(w) ==
  LET regular == table[fd[w]] \in Regular IN
  /\ pc[w] = "fstat"
  /\ \/ CloseIrregular(w) /\ Answer(w, 404)
     \/ regular /\ ~req[w].get /\ CloseLocal(w) /\ Answer(w, 405)
     \/ regular /\ req[w].get /\ Answer(w, 200) /\ UNCHANGED <<table, fd>>
  /\ UNCHANGED <<world, conns, conn, req, found>>

-----------------------------------------------------------------------------
(* The response. *)

(* prepare_response(): the head fits and the connection takes the file     *)
(* over, or it does not, the file is closed and the answer is 500.  The    *)
(* routed response is a local of process_input() and is gone after it.     *)
prepare_response(w) ==
  LET c == conn[w] IN
  /\ pc[w] = "prepare"
  /\ pc' = [pc EXCEPT ![w] = "flush"]
  /\ \/ /\ file_fd' = [file_fd EXCEPT ![c] = fd[w]]
        /\ body' = [body EXCEPT ![c] = IF fd[w] = NULL THEN NULL ELSE found[w]]
        /\ fd' = [fd EXCEPT ![w] = NULL]
        /\ UNCHANGED table
     \/ /\ IF fd[w] = NULL THEN UNCHANGED <<table, fd>> ELSE CloseLocal(w)
        /\ UNCHANGED <<file_fd, body>>
  /\ req' = [req EXCEPT ![w] = NULL] /\ status' = [status EXCEPT ![w] = 0]
  /\ found' = [found EXCEPT ![w] = NULL]
  /\ UNCHANGED <<world, conn, sock, blocked>>

Waits(w) ==
  /\ pc' = [pc EXCEPT ![w] = "epoll_wait"] /\ conn' = [conn EXCEPT ![w] = NULL]
  /\ UNCHANGED <<world, req, fd, status, found>>

(* The socket takes no more: the rest goes out on EPOLLOUT. *)
FlushBlocks(w) ==
  /\ pc[w] = "flush" /\ Waits(w)
  /\ blocked' = [blocked EXCEPT ![conn[w]] = TRUE]
  /\ UNCHANGED <<table, sock, file_fd, body>>

flush_pending_write(c) ==
  LET w == WorkerOf[c] IN
  /\ pc[w] = "epoll_wait" /\ sock[c] # NULL /\ blocked[c]
  /\ pc' = [pc EXCEPT ![w] = "flush"] /\ conn' = [conn EXCEPT ![w] = c]
  /\ UNCHANGED <<world, table, conns, req, fd, status, found>>

(* The response is out and the connection persists: release_file_body().   *)
FlushDone(w) ==
  LET c == conn[w] IN
  /\ pc[w] = "flush" /\ Waits(w)
  /\ table' = [d \in Fd |-> IF d = file_fd[c] THEN NULL ELSE table[d]]
  /\ file_fd' = [file_fd EXCEPT ![c] = NULL]
  /\ blocked' = [blocked EXCEPT ![c] = FALSE]
  /\ body' = [body EXCEPT ![c] = NULL]
  /\ UNCHANGED sock

(* The response is out and was the last, or the write failed. *)
FlushEnds(w) ==
  /\ pc[w] = "flush" /\ Waits(w)
  /\ close_connection(conn[w])

Step(w) ==
  \/ \E d \in Fd : open(w, d)
  \/ OpenFails(w) \/ Verify(w) \/ Fstat(w) \/ prepare_response(w)
  \/ FlushBlocks(w) \/ FlushDone(w) \/ FlushEnds(w)

Next ==
  \/ \E n \in Names, f \in Files \cup {NULL} : Relink(n, f)
  \/ \E f \in Files : Move(f)
  \/ \E c \in Conns, d \in Fd : Accept(c, d)
  \/ \E c \in Conns : Drop(c) \/ flush_pending_write(c)
  \/ \E c \in Conns, r \in Requests : route_request(c, r)
  \/ \E w \in Workers : Step(w)

Spec == Init /\ [][Next]_vars

-----------------------------------------------------------------------------
TypeOK ==
  /\ link \in [Names -> Files \cup {NULL}] /\ inside \subseteq Files
  /\ table \in [Fd -> Files \cup Conns \cup {NULL}]
  /\ sock \in [Conns -> Fd \cup {NULL}] /\ file_fd \in [Conns -> Fd \cup {NULL}]
  /\ blocked \in [Conns -> BOOLEAN] /\ body \in [Conns -> Files \cup {NULL}]
  /\ pc \in [Workers -> {"epoll_wait", "open", "verify", "fstat", "prepare", "flush"}]
  /\ conn \in [Workers -> Conns \cup {NULL}] /\ req \in [Workers -> Requests \cup {NULL}]
  /\ fd \in [Workers -> Fd \cup {NULL}] /\ found \in [Workers -> Files \cup {NULL}]
  /\ status \in [Workers -> {0, 200, 400, 404, 405}]

(* The variables of the program that can hold a descriptor. *)
Holders == ({"sock", "file"} \X Conns) \cup ({"local"} \X Workers)
Held(h) ==
  CASE h[1] = "sock" -> sock[h[2]]
    [] h[1] = "file" -> file_fd[h[2]]
    [] OTHER         -> fd[h[2]]

(* Every open descriptor of the process is held by exactly one variable of *)
(* one connection or of one worker's lookup, and what a variable holds is  *)
(* open: nothing leaks on any error path of static_file_open() or          *)
(* prepare_response(), nothing is closed twice, and so no close() ever     *)
(* hits the descriptor another worker has been given meanwhile.            *)
OneOwner ==
  /\ \A d \in Fd : table[d] # NULL <=> \E h \in Holders : Held(h) = d
  /\ \A g, h \in Holders : Held(g) = Held(h) /\ Held(g) # NULL => g = h

(* A connection's socket is its own, and what it sends as a body is the    *)
(* regular file this very lookup saw below the root, whatever happened to  *)
(* the names meanwhile.                                                    *)
ServesWhatItChecked ==
  \A c \in Conns :
    /\ sock[c] # NULL => table[sock[c]] = c
    /\ file_fd[c] # NULL => table[file_fd[c]] \in Regular /\ table[file_fd[c]] = body[c]

(* "405 asserts that the resource exists": it is answered for a name only  *)
(* when the lookup found a regular file below the root.                    *)
NotAllowedIsFound ==
  \A w \in Workers :
    pc[w] = "prepare" /\ status[w] = 405 /\ req[w].target \in Names =>
      found[w] \in Regular
=============================================================================
